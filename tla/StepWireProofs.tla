--------------------------- MODULE StepWireProofs ---------------------------
(* For every log, every way to cut it into chunks, every environment and      *)
(* every command line: the Decoder passes on what has wholly arrived, and     *)
(* a step's command starts with the arguments and variables that were sent.   *)
EXTENDS StepWire, SequenceTheorems, FiniteSetTheorems, WellFoundedInduction, TLAPS

\* Where the n-th frame of a log ends.
EndOf(l, n) == Len(Bytes(SubSeq(l, 1, n)))

Ended(n) == n > 0 /\ IsExit(log[n])

\* The Decoder has taken n frames off the log and holds what came after them.
Taken(n) ==
    /\ SoundUpTo(n)
    /\ EndOf(log, n) <= fed
    /\ pending = SubSeq(Bytes(log), EndOf(log, n) + 1, fed)
    /\ delivered = SubSeq(log, 1, IF Ended(n) THEN n - 1 ELSE n)
    /\ exitCode = IF Ended(n) THEN log[n].code ELSE NoExit

\* It stopped at frame n + 1 for a reason.
Stopped(n) ==
    /\ corrupt => settled /\ n < Len(log) /\ (Ended(n) \/ ~Sound(log[n + 1]))
    /\ settled => corrupt \/ n = Len(log) \/ fed < EndOf(log, n + 1)

DecodeInv ==
    /\ log \in Seq(Frames)
    /\ fed \in 0 .. Len(Bytes(log))
    /\ \E n \in 0 .. Len(log) : Taken(n) /\ Stopped(n)

\* The command line is as sent on every hop, and the command gets what it says.
CallInv ==
    hop # "off" =>
    \E c \in Calls : \E cmd, env :
        /\ call = [env |-> c.env, base |-> c.base, cmd |-> c.cmd, gotCmd |-> cmd, gotEnv |-> env]
        /\ hop \in {"run", "supervise"} => c.cmd # <<>> /\ argv = RunArgv(c.env, c.cmd)
        /\ hop = "start" => cmd = c.cmd /\ env = mergeEnv(c.base, EnvArgs(c.env))
        /\ hop # "usage"

---------------------------------------------------------------------------
(* Numbers and sequences.                                                  *)

\* Induction up to n, for a set of numbers.
LEMMA UpTo ==
    ASSUME NEW n \in Nat, NEW S, 0 \in S, \A i \in 0 .. n - 1 : i \in S => i + 1 \in S
    PROVE  \A i \in 0 .. n : i \in S
  <1> SUFFICES ASSUME NEW k \in 0 .. n, k \notin S PROVE FALSE
    OBVIOUS
  <1> DEFINE T == {i \in Nat : i <= n /\ i \notin S}
  <1>1. \E R : IsWellFoundedOn(R, Nat) /\ \A x, y \in Nat : <<y, x>> \in R <=> y < x
    <2>1. \A x, y \in Nat : <<y, x>> \in OpToRel(<, Nat) <=> y < x
      BY DEF OpToRel
    <2> QED
      BY <2>1, NatLessThanWellFounded, Zenon
  <1>2. PICK R : IsWellFoundedOn(R, Nat) /\ \A x, y \in Nat : <<y, x>> \in R <=> y < x
    BY <1>1
  <1>3. T \subseteq Nat /\ T # {}
    BY SMT
  <1>4. PICK x \in T : \A y \in T : ~ (<<y, x>> \in R)
    <2> HIDE DEF T
    <2> QED
      BY <1>2, <1>3, WFMin, Zenon
  <1>5. x \in Nat /\ x # 0 /\ x - 1 \in Nat /\ x - 1 < x /\ x <= n
    OBVIOUS
  <1>6. x - 1 \notin T
    BY <1>2, <1>4, <1>5
  <1>7. x - 1 \in S /\ x - 1 \in 0 .. n - 1
    BY <1>5, <1>6
  <1>8. (x - 1) + 1 = x
    BY <1>5
  <1> QED
    BY <1>7, <1>8

\* f[i] is the concatenation of the first i sequences: FlattenSeq's own recursion.
FlatTo(f, s, n) == f = [i \in 1 .. n |-> IF i = 1 THEN s[i] ELSE f[i - 1] \o s[i]]
IsFlat(f, s) == FlatTo(f, s, Len(s))

\* What FlattenSeq's own recursion says of one index.
LEMMA FlatAt ==
    ASSUME NEW s, NEW f, NEW n \in Nat, FlatTo(f, s, n), NEW i \in 1 .. n
    PROVE  f[i] = IF i = 1 THEN s[i] ELSE f[i - 1] \o s[i]
  <1>1. f = [j \in 1 .. n |-> IF j = 1 THEN s[j] ELSE f[j - 1] \o s[j]]
    BY DEF FlatTo
  <1>2. PICK h : h = f
    OBVIOUS
  <1>3. f = [j \in 1 .. n |-> IF j = 1 THEN s[j] ELSE h[j - 1] \o s[j]]
    BY <1>1, <1>2, Zenon
  <1>4. f[i] = IF i = 1 THEN s[i] ELSE h[i - 1] \o s[i]
    BY <1>3
  <1> QED
    BY <1>2, <1>4

\* The recursion has a solution for every sequence.
LEMMA FlatExists == ASSUME NEW B, NEW s \in Seq(Seq(B)) PROVE \E f : IsFlat(f, s)
  <1> DEFINE S == {m \in Nat : \E f : FlatTo(f, s, m)}
  <1>0. Len(s) \in Nat
    OBVIOUS
  <1>1. 0 \in S
    <2> DEFINE f == [i \in 1 .. 0 |-> <<>>]
    <2>1. f = [i \in 1 .. 0 |-> IF i = 1 THEN s[i] ELSE f[i - 1] \o s[i]]
      OBVIOUS
    <2>2. FlatTo(f, s, 0)
      BY <2>1 DEF FlatTo
    <2> QED
      BY <2>2
  <1>2. ASSUME NEW m \in 0 .. Len(s) - 1, m \in S PROVE m + 1 \in S
    <2>1. PICK f : FlatTo(f, s, m)
      BY <1>2
    <2>2. m \in Nat /\ m + 1 \in Nat
      OBVIOUS
    <2> DEFINE g == [i \in 1 .. m + 1 |-> IF i = 1 THEN s[i] ELSE f[i - 1] \o s[i]]
    <2>3. \A i \in 1 .. m : g[i] = f[i]
      BY <2>1, <2>2, FlatAt
    <2>4. \A i \in 1 .. m + 1 : i # 1 => g[i] = g[i - 1] \o s[i]
      <3> SUFFICES ASSUME NEW i \in 1 .. m + 1, i # 1 PROVE g[i] = g[i - 1] \o s[i]
        OBVIOUS
      <3>1. i - 1 \in 1 .. m
        OBVIOUS
      <3>2. g[i] = f[i - 1] \o s[i]
        OBVIOUS
      <3> QED
        BY <2>3, <3>1, <3>2
    <2>5. g = [i \in 1 .. m + 1 |-> IF i = 1 THEN s[i] ELSE g[i - 1] \o s[i]]
      BY <2>4
    <2>6. FlatTo(g, s, m + 1)
      BY <2>5, Zenon DEF FlatTo
    <2> HIDE DEF g
    <2> QED
      BY <2>2, <2>6
  <1>3. \A m \in 0 .. Len(s) : m \in S
    <2> HIDE DEF S
    <2> QED
      BY <1>0, <1>1, <1>2, UpTo
  <1>4. Len(s) \in S
    BY <1>0, <1>3
  <1> QED
    BY <1>4 DEF IsFlat

\* Two such functions agree where their sequences do.
LEMMA FlatAgree ==
    ASSUME NEW B, NEW s \in Seq(Seq(B)), NEW t \in Seq(Seq(B)), NEW f, NEW g, IsFlat(f, s), IsFlat(g, t),
           NEW n \in Nat, n <= Len(s), n <= Len(t), \A i \in 1 .. n : s[i] = t[i]
    PROVE  \A i \in 1 .. n : f[i] = g[i]
  <1> DEFINE S == {i \in Nat : i # 0 => f[i] = g[i]}
  <1>1. 0 \in S
    OBVIOUS
  <1>2. ASSUME NEW i \in 0 .. n - 1, i \in S PROVE i + 1 \in S
    <2>1. i + 1 \in 1 .. Len(s) /\ i + 1 \in 1 .. Len(t) /\ (i + 1) - 1 = i /\ i \in Nat
      OBVIOUS
    <2>2. /\ f[i + 1] = IF i + 1 = 1 THEN s[i + 1] ELSE f[i] \o s[i + 1]
          /\ g[i + 1] = IF i + 1 = 1 THEN t[i + 1] ELSE g[i] \o t[i + 1]
      BY <2>1, FlatAt DEF IsFlat
    <2>3. s[i + 1] = t[i + 1]
      OBVIOUS
    <2>4. i # 0 => f[i] = g[i]
      BY <1>2
    <2>5. f[i + 1] = g[i + 1]
      BY <2>1, <2>2, <2>3, <2>4
    <2> QED
      BY <2>1, <2>5
  <1>3. \A i \in 0 .. n : i \in S
    <2> HIDE DEF S
    <2> QED
      BY <1>1, <1>2, UpTo
  <1> QED
    BY <1>3

\* It stays among the sequences.
LEMMA FlatType ==
    ASSUME NEW B, NEW s \in Seq(Seq(B)), NEW f, IsFlat(f, s)
    PROVE  \A i \in 1 .. Len(s) : f[i] \in Seq(B)
  <1> DEFINE S == {i \in Nat : i # 0 => f[i] \in Seq(B)}
  <1>0. Len(s) \in Nat
    OBVIOUS
  <1>1. 0 \in S
    OBVIOUS
  <1>2. ASSUME NEW i \in 0 .. Len(s) - 1, i \in S PROVE i + 1 \in S
    <2>1. i + 1 \in 1 .. Len(s) /\ (i + 1) - 1 = i /\ i \in Nat
      OBVIOUS
    <2>2. f[i + 1] = IF i + 1 = 1 THEN s[i + 1] ELSE f[i] \o s[i + 1]
      BY <2>1, FlatAt DEF IsFlat
    <2>3. s[i + 1] \in Seq(B)
      BY <2>1, ElementOfSeq
    <2>4. i # 0 => f[i] \in Seq(B)
      BY <1>2
    <2>5. f[i + 1] \in Seq(B)
      BY <2>1, <2>2, <2>3, <2>4, ConcatProperties
    <2> QED
      BY <2>1, <2>5
  <1>3. \A i \in 0 .. Len(s) : i \in S
    <2> HIDE DEF S
    <2> QED
      BY <1>0, <1>1, <1>2, UpTo
  <1> QED
    BY <1>3

\* FlattenSeq is its last value.
LEMMA FlatLast ==
    ASSUME NEW B, NEW s \in Seq(Seq(B)), NEW f, IsFlat(f, s), Len(s) # 0
    PROVE  FlattenSeq(s) = f[Len(s)]
  <1> DEFINE g == CHOOSE h : IsFlat(h, s)
  <1>1. FlattenSeq(s) = g[Len(s)]
    BY DEF FlattenSeq, IsFlat, FlatTo
  <1>2. IsFlat(g, s)
    BY Zenon
  <1>3. Len(s) \in Nat /\ Len(s) \in 1 .. Len(s) /\ Len(s) <= Len(s)
    OBVIOUS
  <1> HIDE DEF g
  <1>4. \A i \in 1 .. Len(s) : f[i] = g[i]
    BY <1>2, <1>3, FlatAgree
  <1> QED
    BY <1>1, <1>3, <1>4

\* Flattened sequences are sequences of the same elements.
LEMMA FlattenType == ASSUME NEW B, NEW s \in Seq(Seq(B)) PROVE FlattenSeq(s) \in Seq(B)
  <1>1. CASE Len(s) = 0
    BY <1>1, EmptySeq DEF FlattenSeq
  <1>2. CASE Len(s) # 0
    <2>1. PICK f : IsFlat(f, s)
      BY FlatExists
    <2> QED
      BY <1>2, <2>1, FlatLast, FlatType
  <1> QED
    BY <1>1, <1>2

\* One sequence more is appended.
LEMMA FlattenAppend ==
    ASSUME NEW B, NEW s \in Seq(Seq(B)), NEW x \in Seq(B)
    PROVE  FlattenSeq(Append(s, x)) = FlattenSeq(s) \o x
  <1>1. PICK t : t = Append(s, x)
    OBVIOUS
  <1>2. /\ t \in Seq(Seq(B)) /\ Len(t) = Len(s) + 1 /\ t[Len(t)] = x /\ Len(s) \in Nat
        /\ \A i \in 1 .. Len(s) : t[i] = s[i]
    BY <1>1
  <1>3. PICK f : IsFlat(f, t)
    BY <1>2, FlatExists
  <1>4. FlattenSeq(t) = f[Len(t)]
    BY <1>2, <1>3, FlatLast
  <1>5. f[Len(t)] = IF Len(t) = 1 THEN t[Len(t)] ELSE f[Len(t) - 1] \o t[Len(t)]
    BY <1>2, <1>3, FlatAt DEF IsFlat
  <1>6. CASE Len(s) = 0
    <2>1. s = <<>> /\ FlattenSeq(s) = <<>>
      BY <1>6, EmptySeq DEF FlattenSeq
    <2> QED
      BY <1>1, <1>2, <1>4, <1>5, <1>6, <2>1, ConcatEmptySeq
  <1>7. CASE Len(s) # 0
    <2>1. PICK g : IsFlat(g, s)
      BY FlatExists
    <2>2. PICK n \in Nat : n = Len(s)
      BY <1>2
    <2>3. n <= Len(s) /\ n <= Len(t) /\ (\A i \in 1 .. n : s[i] = t[i]) /\ n \in 1 .. n
          /\ Len(t) # 1 /\ Len(t) - 1 = n
      BY <1>2, <1>7, <2>2
    <2>4. \A i \in 1 .. n : g[i] = f[i]
      BY <1>2, <1>3, <2>1, <2>3, FlatAgree
    <2>5. FlattenSeq(s) = g[n]
      BY <1>7, <2>1, <2>2, FlatLast
    <2>6. FlattenSeq(t) = f[n] \o x
      BY <1>2, <1>4, <1>5, <2>3
    <2> QED
      BY <1>1, <2>3, <2>4, <2>5, <2>6
  <1> QED
    BY <1>6, <1>7

\* u is s followed by t.
Joined(u, s, t) ==
    /\ Len(u) = Len(s) + Len(t)
    /\ \A i \in 1 .. Len(s) : u[i] = s[i]
    /\ \A j \in 1 .. Len(t) : u[Len(s) + j] = t[j]

\* A concatenation element by element.
LEMMA ConcatAt ==
    ASSUME NEW B, NEW s \in Seq(B), NEW t \in Seq(B), NEW u, u = s \o t
    PROVE  u \in Seq(B) /\ Joined(u, s, t)
  <1>1. /\ u \in Seq(B) /\ Len(u) = Len(s) + Len(t)
        /\ \A i \in 1 .. Len(s) + Len(t) : u[i] = IF i <= Len(s) THEN s[i] ELSE t[i - Len(s)]
    BY ConcatProperties
  <1>2. Len(s) \in Nat /\ Len(t) \in Nat
    OBVIOUS
  <1>3. ASSUME NEW j \in 1 .. Len(t) PROVE u[Len(s) + j] = t[j]
    <2>1. Len(s) + j \in 1 .. Len(s) + Len(t) /\ ~ (Len(s) + j <= Len(s)) /\ (Len(s) + j) - Len(s) = j
      BY <1>2
    <2> QED
      BY <1>1, <2>1
  <1> QED
    BY <1>1, <1>2, <1>3 DEF Joined

\* The end of an end, and one element more.
LEMMA SubSeqRest ==
    ASSUME NEW B, NEW b \in Seq(B), NEW e \in Nat, NEW m \in Nat, e <= m, m <= Len(b),
           NEW k \in Nat, k <= m - e, NEW p, p = SubSeq(b, e + 1, m)
    PROVE  SubSeq(p, k + 1, Len(p)) = SubSeq(b, (e + k) + 1, m)
  <1>1. p \in Seq(B) /\ Len(p) = m - e /\ \A i \in 1 .. m - e : p[i] = b[e + i]
    OBVIOUS
  <1>2. PICK q : q = SubSeq(p, k + 1, Len(p))
    OBVIOUS
  <1>3. q \in Seq(B) /\ Len(q) = (m - e) - k /\ \A i \in 1 .. (m - e) - k : q[i] = p[k + i]
    BY <1>1, <1>2
  <1>4. PICK r : r = SubSeq(b, (e + k) + 1, m)
    OBVIOUS
  <1>5. r \in Seq(B) /\ Len(r) = m - (e + k) /\ \A i \in 1 .. m - (e + k) : r[i] = b[(e + k) + i]
    <2>1. PICK g \in Nat : g = e + k
      OBVIOUS
    <2>2. g <= m /\ r = SubSeq(b, g + 1, m)
      BY <1>4, <2>1
    <2>3. r \in Seq(B) /\ Len(r) = m - g /\ \A i \in 1 .. m - g : r[i] = b[g + i]
      BY <2>2
    <2> QED
      BY <2>1, <2>3
  <1>6. ASSUME NEW i \in 1 .. m - (e + k) PROVE q[i] = r[i]
    <2>1. k + i \in 1 .. m - e /\ i \in 1 .. (m - e) - k /\ e + (k + i) = (e + k) + i
      OBVIOUS
    <2> QED
      BY <1>1, <1>3, <1>5, <2>1
  <1>7. q = r
    <2>1. Len(q) = Len(r) /\ \A i \in 1 .. Len(q) : q[i] = r[i]
      BY <1>3, <1>5, <1>6
    <2> QED
      BY <1>3, <1>5, <2>1, SeqEqual
  <1> QED
    BY <1>2, <1>4, <1>7

\* The elements of a sequence from k + 1 on.
LEMMA SubSeqAt ==
    ASSUME NEW B, NEW s \in Seq(B), NEW k \in Nat, NEW z \in Nat, k + z <= Len(s),
           NEW p, p = SubSeq(s, k + 1, k + z)
    PROVE  p \in Seq(B) /\ Len(p) = z /\ \A j \in 1 .. z : p[j] = s[k + j]
  OBVIOUS

\* A prefix one element longer.
LEMMA SubSeqNext ==
    ASSUME NEW B, NEW s \in Seq(B), NEW n \in Nat, n < Len(s)
    PROVE  SubSeq(s, 1, n + 1) = Append(SubSeq(s, 1, n), s[n + 1])
  OBVIOUS

---------------------------------------------------------------------------
(* The bytes of a frame and of a log.                                      *)

\* The bounds that WireAssumption gives the arithmetic.
LEMMA BaseFacts ==
    /\ Base \in Nat /\ Base > 3 /\ Base % 2 = 0
    /\ Base * Base \in Nat /\ Base * Base > 3 * Base
    /\ MaxPayload \in Nat /\ MaxPayload >= 2 /\ MaxPayload < Base * Base
  <1>1. Base \in Nat /\ Base > 3 /\ Base % 2 = 0 /\ MaxPayload \in 2 .. Base * Base - 1
    BY WireAssumption DEF WordLen
  <1>2. Base * Base \in Nat /\ Base * Base > 3 * Base
    BY <1>1
  <1> QED
    BY <1>1, <1>2

\* A number that fits is what Uint reads back.
LEMMA PutUintFacts ==
    ASSUME NEW u \in Nat, u < Base * Base
    PROVE  /\ PutUint(u) \in Seq(Byte) /\ Len(PutUint(u)) = 2
           /\ PutUint(u)[1] * Base + PutUint(u)[2] = u
  <1>1. u \div Base \in 0 .. Base - 1
    BY BaseFacts
  <1>2. u % Base \in 0 .. Base - 1
    BY BaseFacts
  <1>3. (u \div Base) * Base + (u % Base) = u
    BY BaseFacts
  <1> QED
    BY <1>1, <1>2, <1>3 DEF PutUint, Byte

\* The sign of an exit code survives uint32 and int32.
LEMMA SignKept ==
    ASSUME NEW c \in Int, c >= - ((Base * Base) \div 2), c <= (Base * Base) \div 2 - 1
    PROVE  c % (Base * Base) \in Nat /\ c % (Base * Base) < Base * Base /\ Int32(c % (Base * Base)) = c
  <1>1. PICK W \in Nat : W = Base * Base /\ W > 3
    BY BaseFacts
  <1>2. W % 2 = 0
    BY <1>1, BaseFacts
  <1>3. PICK h \in Nat : h = W \div 2 /\ h * 2 = W
    BY <1>2
  <1>4. - h <= c /\ c <= h - 1
    BY <1>1, <1>3
  <1>5. \A u : Int32(u) = IF u >= h THEN u - W ELSE u
    BY <1>1, <1>3 DEF Int32
  <1> HIDE DEF Int32
  <1>6. c % W \in Nat /\ c % W < W /\ Int32(c % W) = c
    <2>1. CASE c >= 0
      <3>1. c % W = c
        BY <1>1, <1>3, <1>4, <2>1
      <3> QED
        BY <1>3, <1>4, <1>5, <2>1, <3>1
    <2>2. CASE c < 0
      <3>1. c % W = c + W
        BY <1>1, <1>3, <1>4, <2>2
      <3> QED
        BY <1>3, <1>4, <1>5, <2>2, <3>1
    <2> QED
      BY <2>1, <2>2
  <1> QED
    BY <1>1, <1>6

\* Where a frame's parts are.
LEMMA AppendFrameFacts ==
    ASSUME NEW k \in Byte, NEW p \in Seq(Byte), Len(p) < Base * Base
    PROVE  LET b == AppendFrame(<<>>, k, p) IN
           /\ b \in Seq(Byte) /\ Len(b) = 3 + Len(p)
           /\ b[1] = k /\ b[2] * Base + b[3] = Len(p)
           /\ \A j \in 1 .. Len(p) : b[3 + j] = p[j]
  <1>1. PICK w : w = PutUint(Len(p))
    OBVIOUS
  <1>2. w \in Seq(Byte) /\ Len(w) = 2
    BY <1>1, PutUintFacts
  <1>3. w[1] * Base + w[2] = Len(p)
    BY <1>1, PutUintFacts
  <1>4. PICK a : a = <<k>>
    OBVIOUS
  <1>5. a \in Seq(Byte) /\ Len(a) = 1 /\ a[1] = k
    BY <1>4
  <1>6. PICK h : h = a \o w
    OBVIOUS
  <1>7. h \in Seq(Byte) /\ Len(h) = 3 /\ h[1] = k /\ h[2] = w[1] /\ h[3] = w[2]
    <2>1. h \in Seq(Byte) /\ Joined(h, a, w)
      BY <1>2, <1>5, <1>6, ConcatAt, Zenon
    <2>2. 1 \in 1 .. Len(a) /\ 1 \in 1 .. Len(w) /\ 2 \in 1 .. Len(w)
          /\ Len(a) + 1 = 2 /\ Len(a) + 2 = 3 /\ Len(a) + Len(w) = 3
      BY <1>2, <1>5
    <2> QED
      BY <1>5, <2>1, <2>2 DEF Joined
  <1>8. PICK b : b = h \o p
    OBVIOUS
  <1>9. b \in Seq(Byte) /\ Joined(b, h, p)
    BY <1>7, <1>8, ConcatAt, Zenon
  <1>10. b[1] = k /\ b[2] = w[1] /\ b[3] = w[2]
    <2>1. 1 \in 1 .. Len(h) /\ 2 \in 1 .. Len(h) /\ 3 \in 1 .. Len(h)
      BY <1>7
    <2> QED
      BY <1>7, <1>9, <2>1 DEF Joined
  <1>11. <<>> \o a = a
    BY <1>5, ConcatEmptySeq
  <1>12. AppendFrame(<<>>, k, p) = b
    BY <1>1, <1>4, <1>6, <1>8, <1>11 DEF AppendFrame
  <1> QED
    BY <1>3, <1>7, <1>9, <1>10, <1>12 DEF Joined

\* Length of a frame's payload.
Size(f) == IF IsExit(f) THEN WordLen ELSE Len(f.payload)

\* Exit records and the other frames apart.
LEMMA FrameKinds ==
    ASSUME NEW f \in Frames
    PROVE  /\ IsExit(f) => /\ f.kind = KindExit
                           /\ f.code \in - ((Base * Base) \div 2) .. (Base * Base) \div 2 - 1
           /\ ~IsExit(f) => /\ f = [kind |-> f.kind, payload |-> f.payload]
                            /\ f.kind \in Byte /\ f.payload \in Seq(Byte) /\ Len(f.payload) < Base * Base
                            /\ f.kind = KindExit => Len(f.payload) # WordLen
  <1>1. CASE f \in [kind : {KindExit}, code : - ((Base * Base) \div 2) .. (Base * Base) \div 2 - 1]
    <2>1. PICK C : C = - ((Base * Base) \div 2) .. (Base * Base) \div 2 - 1
      OBVIOUS
    <2>2. f \in [kind : {KindExit}, code : C]
      BY <1>1, <2>1
    <2>3. f.kind = KindExit /\ f.code \in C /\ IsExit(f)
      BY <2>2 DEF IsExit
    <2> QED
      BY <2>1, <2>3
  <1>2. CASE /\ f \in [kind : Byte, payload : Seq(Byte)] /\ Len(f.payload) < Base * Base
             /\ f.kind = KindExit => Len(f.payload) # WordLen
    <2>1. DOMAIN f = {"kind", "payload"} /\ f = [kind |-> f.kind, payload |-> f.payload]
          /\ f.kind \in Byte /\ f.payload \in Seq(Byte)
      BY <1>2
    <2>2. ~IsExit(f)
      BY <2>1 DEF IsExit
    <2> QED
      BY <1>2, <2>1, <2>2
  <1> QED
    BY <1>1, <1>2 DEF Frames

\* A frame's bytes give back its kind, its length, its payload and its exit code,
\* sign included (AppendFrame, ExitFrame).
LEMMA FrameFacts ==
    ASSUME NEW f \in Frames
    PROVE  LET b == FrameBytes(f) IN
           /\ b \in Seq(Byte) /\ Size(f) \in Nat /\ Len(b) = 3 + Size(f)
           /\ b[1] = f.kind /\ b[2] * Base + b[3] = Size(f)
           /\ IsExit(f) => Int32(b[4] * Base + b[5]) = f.code
           /\ ~IsExit(f) => \A j \in 1 .. Len(f.payload) : b[3 + j] = f.payload[j]
  <1>1. CASE IsExit(f)
    <2>1. /\ f.code \in Int /\ f.code >= - ((Base * Base) \div 2) /\ f.code <= (Base * Base) \div 2 - 1
      <3>1. f.code \in - ((Base * Base) \div 2) .. (Base * Base) \div 2 - 1
        BY <1>1, FrameKinds
      <3>2. (Base * Base) \div 2 \in Int
        BY BaseFacts
      <3> QED
        BY <3>1, <3>2
    <2>2. PICK u : u = f.code % (Base * Base)
      OBVIOUS
    <2>3. u \in Nat /\ u < Base * Base /\ Int32(u) = f.code
      BY <2>1, <2>2, SignKept
    <2>4. PICK p : p = PutUint(u)
      OBVIOUS
    <2>5. p \in Seq(Byte) /\ Len(p) = 2 /\ p[1] * Base + p[2] = u
      BY <2>3, <2>4, PutUintFacts
    <2>6. 3 \in Byte /\ Len(p) < Base * Base
      BY <2>5, BaseFacts DEF Byte
    <2>7. FrameBytes(f) = AppendFrame(<<>>, 3, p)
      BY <1>1, <2>2, <2>4 DEF FrameBytes, ExitFrame, KindExit
    <2>8. PICK b : b = AppendFrame(<<>>, 3, p)
      OBVIOUS
    <2>9. /\ b \in Seq(Byte) /\ Len(b) = 3 + Len(p)
          /\ b[1] = 3 /\ b[2] * Base + b[3] = Len(p)
          /\ \A j \in 1 .. Len(p) : b[3 + j] = p[j]
      <3>1. p \in Seq(Byte) /\ 3 \in Byte /\ Len(p) < Base * Base
        BY <2>5, <2>6
      <3> QED
        BY <2>8, <3>1, AppendFrameFacts
    <2>10. b[4] = p[1] /\ b[5] = p[2]
      <3>1. 1 \in 1 .. Len(p) /\ 2 \in 1 .. Len(p) /\ 3 + 1 = 4 /\ 3 + 2 = 5
        BY <2>5
      <3> QED
        BY <2>9, <3>1
    <2> QED
      BY <1>1, <2>3, <2>5, <2>7, <2>8, <2>9, <2>10, FrameKinds DEF Size, WordLen, KindExit
  <1>2. CASE ~IsExit(f)
    <2>1. f.kind \in Byte /\ f.payload \in Seq(Byte) /\ Len(f.payload) < Base * Base
      BY <1>2, FrameKinds
    <2>2. FrameBytes(f) = AppendFrame(<<>>, f.kind, f.payload)
      BY <1>2 DEF FrameBytes
    <2>3. PICK b : b = AppendFrame(<<>>, f.kind, f.payload)
      OBVIOUS
    <2>4. /\ b \in Seq(Byte) /\ Len(b) = 3 + Len(f.payload)
          /\ b[1] = f.kind /\ b[2] * Base + b[3] = Len(f.payload)
          /\ \A j \in 1 .. Len(f.payload) : b[3 + j] = f.payload[j]
      BY <2>1, <2>3, AppendFrameFacts
    <2> QED
      BY <1>2, <2>1, <2>2, <2>3, <2>4 DEF Size
  <1> QED
    BY <1>1, <1>2

\* A log is a sequence of bytes.
LEMMA BytesType == ASSUME NEW l \in Seq(Frames) PROVE Bytes(l) \in Seq(Byte)
  <1>1. PICK s : s = [i \in DOMAIN l |-> FrameBytes(l[i])]
    OBVIOUS
  <1>2. \A i \in 1 .. Len(l) : FrameBytes(l[i]) \in Seq(Byte)
    BY FrameFacts
  <1>3. s \in Seq(Seq(Byte))
    BY <1>1, <1>2
  <1> QED
    BY <1>1, <1>3, FlattenType DEF Bytes

\* No frames are no bytes.
LEMMA BytesNone == ASSUME NEW l \in Seq(Frames) PROVE Bytes(SubSeq(l, 1, 0)) = <<>>
  <1>1. SubSeq(l, 1, 0) = <<>>
    OBVIOUS
  <1>2. [i \in DOMAIN SubSeq(l, 1, 0) |-> FrameBytes(SubSeq(l, 1, 0)[i])] = <<>>
    BY <1>1
  <1> QED
    BY <1>2 DEF Bytes, FlattenSeq

\* One more frame adds its bytes at the end (frameLog.frame).
LEMMA BytesStep ==
    ASSUME NEW l \in Seq(Frames), NEW n \in Nat, n < Len(l)
    PROVE  Bytes(SubSeq(l, 1, n + 1)) = Bytes(SubSeq(l, 1, n)) \o FrameBytes(l[n + 1])
  <1>1. PICK s : s = [i \in 1 .. n |-> FrameBytes(l[i])]
    OBVIOUS
  <1>2. \A i \in 1 .. Len(l) : FrameBytes(l[i]) \in Seq(Byte)
    BY FrameFacts
  <1>3. s \in Seq(Seq(Byte)) /\ Len(s) = n
    BY <1>1, <1>2
  <1>4. PICK x : x = FrameBytes(l[n + 1])
    OBVIOUS
  <1>5. x \in Seq(Byte)
    BY <1>2, <1>4
  <1>6. [i \in DOMAIN SubSeq(l, 1, n) |-> FrameBytes(SubSeq(l, 1, n)[i])] = s
    <2>1. DOMAIN SubSeq(l, 1, n) = 1 .. n /\ \A i \in 1 .. n : SubSeq(l, 1, n)[i] = l[i]
      OBVIOUS
    <2> QED
      BY <1>1, <2>1
  <1>7. [i \in DOMAIN SubSeq(l, 1, n + 1) |-> FrameBytes(SubSeq(l, 1, n + 1)[i])] = Append(s, x)
    <2>1. DOMAIN SubSeq(l, 1, n + 1) = 1 .. n + 1 /\ \A i \in 1 .. n + 1 : SubSeq(l, 1, n + 1)[i] = l[i]
      OBVIOUS
    <2>2. [i \in 1 .. n + 1 |-> FrameBytes(l[i])] = Append(s, x)
      BY <1>1, <1>3, <1>4, <1>5
    <2> QED
      BY <2>1, <2>2
  <1>8. FlattenSeq(Append(s, x)) = FlattenSeq(s) \o x
    BY <1>3, <1>5, FlattenAppend
  <1> QED
    BY <1>4, <1>6, <1>7, <1>8 DEF Bytes

\* A prefix of a log is a log.
LEMMA SubLog ==
    ASSUME NEW l \in Seq(Frames), NEW n \in Nat, n <= Len(l)
    PROVE  /\ SubSeq(l, 1, n) \in Seq(Frames)
           /\ Bytes(SubSeq(l, 1, n)) \in Seq(Byte) /\ EndOf(l, n) \in Nat
  <1>1. SubSeq(l, 1, n) \in Seq(Frames)
    OBVIOUS
  <1>2. Bytes(SubSeq(l, 1, n)) \in Seq(Byte)
    BY <1>1, BytesType
  <1> QED
    BY <1>1, <1>2 DEF EndOf

\* The bytes of the first n frames are the beginning of those of more.
LEMMA BytesPrefix ==
    ASSUME NEW l \in Seq(Frames), NEW n \in Nat, n <= Len(l), NEW m \in Nat, n <= m, m <= Len(l)
    PROVE  /\ EndOf(l, n) <= EndOf(l, m)
           /\ \A j \in 1 .. EndOf(l, n) : Bytes(SubSeq(l, 1, m))[j] = Bytes(SubSeq(l, 1, n))[j]
  <1> DEFINE P(d) == /\ EndOf(l, n) <= EndOf(l, n + d)
                     /\ \A j \in 1 .. EndOf(l, n) : Bytes(SubSeq(l, 1, n + d))[j] = Bytes(SubSeq(l, 1, n))[j]
             S == {d \in Nat : P(d)}
  <1>0. m - n \in Nat /\ n + 0 = n /\ n + (m - n) = m
    OBVIOUS
  <1>1. 0 \in S
    BY <1>0, SubLog
  <1>2. ASSUME NEW d \in 0 .. (m - n) - 1, d \in S PROVE d + 1 \in S
    <2>1. PICK k \in Nat : k = n + d
      OBVIOUS
    <2>2. k < Len(l) /\ k + 1 = n + (d + 1) /\ d + 1 \in Nat /\ k + 1 \in Nat /\ k + 1 <= Len(l) /\ k <= Len(l)
      BY <1>0, <2>1
    <2>3. PICK s : s = Bytes(SubSeq(l, 1, k))
      OBVIOUS
    <2>4. PICK t : t = FrameBytes(l[k + 1])
      OBVIOUS
    <2>5. PICK u : u = Bytes(SubSeq(l, 1, k + 1))
      OBVIOUS
    <2>6. s \in Seq(Byte) /\ t \in Seq(Byte) /\ u = s \o t
      <3>1. l[k + 1] \in Frames
        BY <2>2
      <3> QED
        BY <2>2, <2>3, <2>4, <2>5, <3>1, SubLog, FrameFacts, BytesStep
    <2>7. u \in Seq(Byte) /\ Joined(u, s, t)
      BY <2>6, ConcatAt, Zenon
    <2>8. EndOf(l, k) = Len(s) /\ EndOf(l, k + 1) = Len(u) /\ EndOf(l, n) \in Nat
      BY <2>3, <2>5, SubLog DEF EndOf
    <2>9. EndOf(l, n) <= Len(s) /\ \A j \in 1 .. EndOf(l, n) : s[j] = Bytes(SubSeq(l, 1, n))[j]
      BY <1>2, <2>1, <2>3, <2>8
    <2>10. EndOf(l, n) <= Len(u) /\ \A j \in 1 .. EndOf(l, n) : u[j] = Bytes(SubSeq(l, 1, n))[j]
      <3>1. Len(s) \in Nat /\ Len(t) \in Nat
        BY <2>6
      <3>2. \A j \in 1 .. EndOf(l, n) : j \in 1 .. Len(s)
        BY <2>8, <2>9, <3>1
      <3> QED
        BY <2>7, <2>8, <2>9, <3>1, <3>2 DEF Joined
    <2>11. P(d + 1)
      BY <2>2, <2>5, <2>8, <2>10
    <2> QED
      BY <2>2, <2>11
  <1>3. \A d \in 0 .. m - n : d \in S
    <2> HIDE DEF S
    <2> QED
      BY <1>0, <1>1, <1>2, UpTo
  <1>4. P(m - n)
    <2>1. m - n \in S
      BY <1>0, <1>3
    <2> QED
      BY <2>1
  <1> QED
    BY <1>0, <1>4

\* Frame n + 1 lies behind the first n.
LEMMA FrameAt ==
    ASSUME NEW l \in Seq(Frames), NEW n \in Nat, n < Len(l)
    PROVE  /\ l[n + 1] \in Frames
           /\ EndOf(l, n) \in Nat /\ EndOf(l, n + 1) \in Nat
           /\ EndOf(l, n + 1) = EndOf(l, n) + Len(FrameBytes(l[n + 1]))
           /\ EndOf(l, n + 1) <= Len(Bytes(l))
           /\ \A j \in 1 .. Len(FrameBytes(l[n + 1])) : Bytes(l)[EndOf(l, n) + j] = FrameBytes(l[n + 1])[j]
  <1>1. n + 1 \in Nat /\ n + 1 <= Len(l) /\ Len(l) \in Nat /\ Len(l) <= Len(l) /\ n <= Len(l)
    OBVIOUS
  <1>2. l[n + 1] \in Frames
    BY <1>1
  <1>3. PICK s : s = Bytes(SubSeq(l, 1, n))
    OBVIOUS
  <1>4. PICK t : t = FrameBytes(l[n + 1])
    OBVIOUS
  <1>5. PICK u : u = Bytes(SubSeq(l, 1, n + 1))
    OBVIOUS
  <1>6. s \in Seq(Byte) /\ t \in Seq(Byte) /\ u = s \o t
    BY <1>1, <1>2, <1>3, <1>4, <1>5, SubLog, FrameFacts, BytesStep
  <1>7. u \in Seq(Byte) /\ Joined(u, s, t)
    BY <1>6, ConcatAt, Zenon
  <1>8. EndOf(l, n) = Len(s) /\ EndOf(l, n + 1) = Len(u)
    BY <1>3, <1>5 DEF EndOf
  <1>9. SubSeq(l, 1, Len(l)) = l
    BY SubSeqFull
  <1>10. /\ EndOf(l, n + 1) <= Len(Bytes(l))
         /\ \A j \in 1 .. EndOf(l, n + 1) : Bytes(l)[j] = u[j]
    <2>1. PICK k \in Nat : k = n + 1
      BY <1>1
    <2>2. PICK m \in Nat : m = Len(l)
      BY <1>1
    <2>3. /\ EndOf(l, k) <= EndOf(l, m)
          /\ \A j \in 1 .. EndOf(l, k) : Bytes(SubSeq(l, 1, m))[j] = Bytes(SubSeq(l, 1, k))[j]
      BY <1>1, <2>1, <2>2, BytesPrefix
    <2>4. EndOf(l, m) = Len(Bytes(l)) /\ SubSeq(l, 1, m) = l
      BY <1>9, <2>2 DEF EndOf
    <2> QED
      BY <1>5, <2>1, <2>3, <2>4
  <1>11. Len(s) \in Nat /\ Len(t) \in Nat /\ Len(u) \in Nat
    BY <1>6, <1>7
  <1>12. ASSUME NEW j \in 1 .. Len(t) PROVE Bytes(l)[EndOf(l, n) + j] = t[j]
    <2>1. Len(s) + j \in 1 .. Len(u)
      BY <1>7, <1>11 DEF Joined
    <2>2. u[Len(s) + j] = t[j]
      BY <1>7 DEF Joined
    <2> QED
      BY <1>8, <1>10, <2>1, <2>2
  <1> QED
    BY <1>2, <1>4, <1>7, <1>8, <1>10, <1>11, <1>12 DEF Joined

---------------------------------------------------------------------------
(* The Decoder.                                                            *)

\* What is pending is the rest of what was fed.
LEMMA Held ==
    ASSUME log \in Seq(Frames), fed \in 0 .. Len(Bytes(log)), NEW n \in 0 .. Len(log), Taken(n)
    PROVE  /\ EndOf(log, n) \in Nat /\ fed \in Nat
           /\ pending \in Seq(Byte) /\ Len(pending) = fed - EndOf(log, n)
           /\ \A j \in 1 .. Len(pending) : pending[j] = Bytes(log)[EndOf(log, n) + j]
  <1>1. PICK b : b = Bytes(log)
    OBVIOUS
  <1>2. b \in Seq(Byte) /\ fed \in 0 .. Len(b) /\ fed \in Nat
    BY <1>1, BytesType
  <1>3. n \in Nat /\ n <= Len(log)
    OBVIOUS
  <1>4. PICK e : e = EndOf(log, n)
    OBVIOUS
  <1>5. e \in Nat /\ e <= fed /\ pending = SubSeq(b, e + 1, fed)
    BY <1>1, <1>3, <1>4, SubLog DEF Taken
  <1>6. pending \in Seq(Byte) /\ Len(pending) = fed - e
    BY <1>2, <1>5
  <1>7. \A j \in 1 .. fed - e : pending[j] = b[e + j]
    BY <1>2, <1>5
  <1> QED
    BY <1>1, <1>2, <1>4, <1>5, <1>6, <1>7

\* A whole header is that of the next frame.
LEMMA HeaderRead ==
    ASSUME log \in Seq(Frames), fed \in 0 .. Len(Bytes(log)), NEW n \in 0 .. Len(log), Taken(n),
           Len(pending) >= headerLen
    PROVE  /\ n \in Nat /\ n < Len(log) /\ log[n + 1] \in Frames
           /\ pending[1] = log[n + 1].kind
           /\ Uint(SubSeq(pending, 2, headerLen)) = Size(log[n + 1])
           /\ Size(log[n + 1]) \in Nat
           /\ EndOf(log, n + 1) = EndOf(log, n) + (headerLen + Size(log[n + 1]))
           /\ \A j \in 1 .. headerLen + Size(log[n + 1]) :
                 j <= Len(pending) => pending[j] = FrameBytes(log[n + 1])[j]
  <1>1. PICK e : e = EndOf(log, n)
    OBVIOUS
  <1>2. PICK b : b = Bytes(log)
    OBVIOUS
  <1>3. /\ e \in Nat /\ fed \in Nat /\ pending \in Seq(Byte) /\ Len(pending) = fed - e
        /\ \A j \in 1 .. Len(pending) : pending[j] = b[e + j]
    BY <1>1, <1>2, Held
  <1>4. b \in Seq(Byte) /\ fed <= Len(b) /\ headerLen = 3
    BY <1>2, BytesType DEF headerLen, WordLen
  <1>5. n \in Nat /\ Len(log) \in Nat /\ n <= Len(log)
    OBVIOUS
  <1>6. n < Len(log)
    <2>1. SUFFICES ASSUME n = Len(log) PROVE FALSE
      BY <1>5
    <2>2. SubSeq(log, 1, n) = log
      BY <2>1, SubSeqFull
    <2>3. e = Len(b)
      BY <1>1, <1>2, <2>2 DEF EndOf
    <2> QED
      BY <1>3, <1>4, <2>3
  <1>7. PICK f : f = log[n + 1]
    OBVIOUS
  <1>8. PICK fb : fb = FrameBytes(f)
    OBVIOUS
  <1>9. /\ f \in Frames /\ EndOf(log, n + 1) = e + Len(fb)
        /\ \A j \in 1 .. Len(fb) : b[e + j] = fb[j]
    BY <1>1, <1>2, <1>5, <1>6, <1>7, <1>8, FrameAt
  <1>10. /\ fb \in Seq(Byte) /\ Size(f) \in Nat /\ Len(fb) = 3 + Size(f)
         /\ fb[1] = f.kind /\ fb[2] * Base + fb[3] = Size(f)
    BY <1>8, <1>9, FrameFacts
  <1>11. \A j \in 1 .. 3 + Size(f) : j <= Len(pending) => pending[j] = fb[j]
    <2> SUFFICES ASSUME NEW j \in 1 .. 3 + Size(f), j <= Len(pending) PROVE pending[j] = fb[j]
      OBVIOUS
    <2>1. j \in 1 .. Len(pending) /\ j \in 1 .. Len(fb)
      BY <1>10
    <2> QED
      BY <1>3, <1>9, <2>1
  <1>12. pending[1] = fb[1] /\ pending[2] = fb[2] /\ pending[3] = fb[3]
    <2>1. /\ 1 \in 1 .. 3 + Size(f) /\ 1 <= Len(pending)
          /\ 2 \in 1 .. 3 + Size(f) /\ 2 <= Len(pending)
          /\ 3 \in 1 .. 3 + Size(f) /\ 3 <= Len(pending)
      BY <1>3, <1>4, <1>10
    <2> QED
      BY <1>11, <2>1
  <1>13. Uint(SubSeq(pending, 2, 3)) = pending[2] * Base + pending[3]
    <2>1. PICK w : w = SubSeq(pending, 2, 3)
      OBVIOUS
    <2>2. w[1] = pending[2] /\ w[2] = pending[3]
      BY <1>3, <1>4, <2>1
    <2> QED
      BY <2>1, <2>2 DEF Uint
  <1> QED
    BY <1>1, <1>4, <1>5, <1>6, <1>7, <1>8, <1>9, <1>10, <1>11, <1>12, <1>13

\* What a header says of a frame.
LEMMA BadHeaderSound ==
    ASSUME NEW f \in Frames
    PROVE  BadHeader(f.kind, Size(f)) <=> ~Sound(f)
  <1>1. CASE IsExit(f)
    BY <1>1, FrameKinds, BaseFacts DEF BadHeader, Sound, Size, KindExit, KindStdout, KindStderr, WordLen
  <1>2. CASE ~IsExit(f)
    <2>1. Len(f.payload) \in Nat /\ (f.kind = KindExit => Len(f.payload) # WordLen)
      BY <1>2, FrameKinds
    <2> QED
      BY <1>2, <2>1, BaseFacts DEF BadHeader, Sound, Size, KindExit, KindStdout, KindStderr
  <1> QED
    BY <1>1, <1>2

\* Another chunk keeps the invariant (Decoder.Write).
LEMMA FeedStep ==
    ASSUME DecodeInv, Feed
    PROVE  DecodeInv'
  <1>1. PICK n \in 0 .. Len(log) : Taken(n) /\ Stopped(n)
    BY DEF DecodeInv
  <1>2. PICK b : b = Bytes(log)
    OBVIOUS
  <1>3. PICK k \in 1 .. Len(b) - fed :
            pending' = pending \o SubSeq(b, fed + 1, fed + k) /\ fed' = fed + k
    BY <1>2 DEF Feed
  <1>4. log \in Seq(Frames) /\ fed \in 0 .. Len(b) /\ b \in Seq(Byte)
    BY <1>2, BytesType DEF DecodeInv
  <1>5. PICK e : e = EndOf(log, n)
    OBVIOUS
  <1>6. e \in Nat /\ e <= fed /\ pending = SubSeq(b, e + 1, fed) /\ fed \in Nat
    BY <1>1, <1>2, <1>4, <1>5, Held DEF Taken
  <1>7. pending' = SubSeq(b, e + 1, fed')
    <2>1. PICK m : m = fed + k
      OBVIOUS
    <2>2. m \in fed .. Len(b) /\ e + 1 \in 1 .. Len(b) + 1 /\ fed \in (e + 1) - 1 .. Len(b)
      BY <1>3, <1>4, <1>6, <2>1
    <2>3. SubSeq(b, e + 1, fed) \o SubSeq(b, fed + 1, m) = SubSeq(b, e + 1, m)
      BY <1>4, <2>2, ConcatAdjacentSubSeq
    <2> QED
      BY <1>3, <1>6, <2>1, <2>3
  <1>8. fed' \in 0 .. Len(b) /\ e <= fed'
    BY <1>3, <1>4, <1>6
  <1>9. log' = log /\ UNCHANGED <<delivered, exitCode, corrupt>> /\ settled' = FALSE /\ corrupt = FALSE
    BY DEF Feed
  <1>10. Taken(n)'
    BY <1>1, <1>2, <1>5, <1>7, <1>8, <1>9 DEF Taken, SoundUpTo, Ended, EndOf
  <1>11. Stopped(n)'
    BY <1>9 DEF Stopped
  <1> QED
    BY <1>2, <1>4, <1>8, <1>9, <1>10, <1>11 DEF DecodeInv

\* A sound prefix that has not ended grows by a sound frame.
LEMMA SoundMore ==
    ASSUME NEW n \in Nat, SoundUpTo(n), ~Ended(n), Sound(log[n + 1])
    PROVE  SoundUpTo(n + 1)
  <1> SUFFICES ASSUME NEW i \in 1 .. n + 1
               PROVE  Sound(log[i]) /\ (i < n + 1 => ~IsExit(log[i]))
    BY DEF SoundUpTo
  <1>1. CASE i \in 1 .. n /\ i < n
    BY <1>1 DEF SoundUpTo
  <1>2. CASE i \in 1 .. n /\ i = n
    BY <1>2 DEF SoundUpTo, Ended
  <1>3. CASE i = n + 1
    BY <1>3
  <1> QED
    BY <1>1, <1>2, <1>3

\* The frame at the head of what is pending is taken off.
LEMMA TakeFrame ==
    ASSUME log \in Seq(Frames), fed \in 0 .. Len(Bytes(log)), NEW n \in 0 .. Len(log), Taken(n),
           Len(pending) >= headerLen, ~Ended(n), Sound(log[n + 1]), Whole(Size(log[n + 1])),
           UNCHANGED <<log, fed>>,
           pending' = SubSeq(pending, headerLen + Size(log[n + 1]) + 1, Len(pending)),
           delivered' = IF log[n + 1].kind = KindExit THEN delivered
                        ELSE Append(delivered, [kind |-> log[n + 1].kind,
                               payload |-> SubSeq(pending, headerLen + 1, headerLen + Size(log[n + 1]))]),
           exitCode' = IF log[n + 1].kind = KindExit
                       THEN Int32(Uint(SubSeq(pending, headerLen + 1, headerLen + Size(log[n + 1]))))
                       ELSE exitCode
    PROVE  Taken(n + 1)'
  <1>1. PICK f : f = log[n + 1]
    OBVIOUS
  <1>2. PICK sz : sz = Size(f)
    OBVIOUS
  <1>3. PICK e : e = EndOf(log, n)
    OBVIOUS
  <1>4. PICK b : b = Bytes(log)
    OBVIOUS
  <1>5. PICK fb : fb = FrameBytes(f)
    OBVIOUS
  <1>6. /\ n \in Nat /\ n < Len(log) /\ f \in Frames /\ sz \in Nat
        /\ EndOf(log, n + 1) = e + (3 + sz)
        /\ \A j \in 1 .. 3 + sz : j <= Len(pending) => pending[j] = fb[j]
        /\ headerLen = 3
    BY <1>1, <1>2, <1>3, <1>5, HeaderRead DEF headerLen, WordLen
  <1>7. /\ e \in Nat /\ fed \in Nat /\ pending \in Seq(Byte) /\ Len(pending) = fed - e
        /\ \A j \in 1 .. Len(pending) : pending[j] = b[e + j]
        /\ b \in Seq(Byte) /\ fed <= Len(b)
    BY <1>3, <1>4, Held, BytesType
  <1>8. Len(pending) >= 3 + sz
    BY <1>1, <1>2, <1>6 DEF Whole
  <1>9. /\ IsExit(f) => Int32(fb[4] * Base + fb[5]) = f.code
        /\ ~IsExit(f) => \A j \in 1 .. Len(f.payload) : fb[3 + j] = f.payload[j]
    BY <1>5, <1>6, FrameFacts
  <1>10. SoundUpTo(n + 1)
    BY <1>6, SoundMore DEF Taken
  <1>11. EndOf(log, n + 1) <= fed
    BY <1>6, <1>7, <1>8
  <1>12. pending' = SubSeq(b, EndOf(log, n + 1) + 1, fed)
    <2>1. pending' = SubSeq(pending, 3 + sz + 1, Len(pending))
      BY <1>1, <1>2, <1>6
    <2>2. PICK k \in Nat : k = 3 + sz
      BY <1>6
    <2>3. pending = SubSeq(b, e + 1, fed) /\ e <= fed /\ k <= fed - e
      BY <1>3, <1>4, <1>6, <1>7, <1>8, <2>2 DEF Taken
    <2>4. SubSeq(pending, k + 1, Len(pending)) = SubSeq(b, (e + k) + 1, fed)
      <3>1. e \in Nat /\ fed \in Nat /\ b \in Seq(Byte) /\ fed <= Len(b)
        BY <1>7
      <3> QED
        BY <2>3, <3>1, SubSeqRest
    <2> QED
      BY <1>6, <2>1, <2>2, <2>4
  <1>13. delivered = SubSeq(log, 1, n) /\ exitCode = NoExit
    BY <1>6 DEF Taken
  <1>14. f.kind = KindExit <=> IsExit(f)
    BY <1>1, <1>6, FrameKinds DEF Sound, KindExit, KindStdout, KindStderr
  <1>15. CASE IsExit(f)
    <2>1. sz = 2
      BY <1>2, <1>15 DEF Size, WordLen
    <2>2. PICK w : w = SubSeq(pending, 4, 5)
      OBVIOUS
    <2>3. w[1] = pending[4] /\ w[2] = pending[5] /\ pending[4] = fb[4] /\ pending[5] = fb[5]
      <3>1. w[1] = pending[4] /\ w[2] = pending[5]
        BY <1>7, <1>8, <2>1, <2>2
      <3>2. 4 \in 1 .. 3 + sz /\ 5 \in 1 .. 3 + sz /\ 4 <= Len(pending) /\ 5 <= Len(pending)
        BY <1>7, <1>8, <2>1
      <3> QED
        BY <1>6, <3>1, <3>2
    <2>4. Int32(Uint(w)) = f.code
      BY <1>9, <1>15, <2>3 DEF Uint
    <2>5. exitCode' = f.code
      <3>1. headerLen + 1 = 4 /\ headerLen + Size(log[n + 1]) = 5
        BY <1>1, <1>2, <1>6, <2>1
      <3> QED
        BY <1>1, <1>14, <1>15, <2>2, <2>4, <3>1
    <2>6. delivered' = SubSeq(log, 1, (n + 1) - 1)
      BY <1>1, <1>6, <1>13, <1>14, <1>15
    <2>7. Ended(n + 1)
      BY <1>1, <1>6, <1>15 DEF Ended
    <2> QED
      BY <1>1, <1>4, <1>10, <1>11, <1>12, <2>5, <2>6, <2>7 DEF Taken, SoundUpTo, Ended, EndOf
  <1>16. CASE ~IsExit(f)
    <2>1. /\ f.payload \in Seq(Byte) /\ sz = Len(f.payload)
          /\ f = [kind |-> f.kind, payload |-> f.payload]
      BY <1>2, <1>6, <1>16, FrameKinds DEF Size
    <2>2. PICK p : p = SubSeq(pending, 3 + 1, 3 + sz)
      OBVIOUS
    <2>3. p \in Seq(Byte) /\ Len(p) = sz /\ \A j \in 1 .. sz : p[j] = pending[3 + j]
      <3>1. sz \in Nat /\ pending \in Seq(Byte) /\ 3 + sz <= Len(pending)
        BY <1>6, <1>7, <1>8
      <3> QED
        BY <2>2, <3>1, SubSeqAt
    <2>4. ASSUME NEW j \in 1 .. sz PROVE p[j] = f.payload[j]
      <3>1. 3 + j \in 1 .. 3 + sz /\ 3 + j <= Len(pending)
        BY <1>6, <1>7, <1>8
      <3>2. pending[3 + j] = fb[3 + j] /\ fb[3 + j] = f.payload[j]
        BY <1>6, <1>9, <1>16, <2>1, <3>1
      <3> QED
        BY <2>3, <3>2
    <2>5. p = f.payload
      BY <2>1, <2>3, <2>4, SeqEqual
    <2>6. delivered' = Append(SubSeq(log, 1, n), f)
      <3>1. p = SubSeq(pending, headerLen + 1, headerLen + Size(log[n + 1]))
        BY <1>1, <1>2, <1>6, <2>2
      <3> QED
        BY <1>1, <1>13, <1>14, <1>16, <2>1, <2>5, <3>1
    <2>7. delivered' = SubSeq(log, 1, n + 1)
      BY <1>1, <1>6, <2>6, SubSeqNext
    <2>8. ~Ended(n + 1) /\ exitCode' = NoExit
      BY <1>1, <1>13, <1>14, <1>16 DEF Ended
    <2> QED
      BY <1>1, <1>4, <1>10, <1>11, <1>12, <2>7, <2>8 DEF Taken, SoundUpTo, Ended, EndOf
  <1> QED
    BY <1>15, <1>16

\* The three ways through the loop.
HeaderMissing ==
    /\ Len(pending) < headerLen /\ settled' = TRUE
    /\ UNCHANGED <<pending, delivered, exitCode, corrupt>>
HeaderRefused(k, n) ==
    /\ Len(pending) >= headerLen /\ (exitCode # NoExit \/ BadHeader(k, n))
    /\ corrupt' = TRUE /\ settled' = TRUE /\ UNCHANGED <<pending, delivered, exitCode>>
PayloadMissing(k, n) ==
    /\ Len(pending) >= headerLen /\ exitCode = NoExit /\ ~BadHeader(k, n) /\ ~Whole(n)
    /\ settled' = TRUE /\ UNCHANGED <<pending, delivered, exitCode, corrupt>>
FrameTaken(k, n) ==
    /\ Len(pending) >= headerLen /\ exitCode = NoExit /\ ~BadHeader(k, n) /\ Whole(n)
    /\ pending' = SubSeq(pending, headerLen + n + 1, Len(pending))
    /\ delivered' = IF k = KindExit THEN delivered
                    ELSE Append(delivered, [kind |-> k, payload |-> SubSeq(pending, headerLen + 1, headerLen + n)])
    /\ exitCode' = IF k = KindExit THEN Int32(Uint(SubSeq(pending, headerLen + 1, headerLen + n)))
                   ELSE exitCode
    /\ UNCHANGED <<settled, corrupt>>

\* The ways out of one turn of Decoder.Write's loop.
LEMMA DecodeCases ==
    ASSUME DecodeFrame
    PROVE  LET k == pending[1]
               n == Uint(SubSeq(pending, 2, headerLen))
           IN  /\ HeaderMissing \/ HeaderRefused(k, n) \/ PayloadMissing(k, n) \/ FrameTaken(k, n)
               /\ UNCHANGED <<log, fed, hop, call, argv>> /\ ~settled
  <1>1. PICK k : k = pending[1]
    OBVIOUS
  <1>2. PICK n : n = Uint(SubSeq(pending, 2, headerLen))
    OBVIOUS
  <1>3. /\ ~settled /\ UNCHANGED <<log, fed, hop, call, argv>>
        /\ \/ HeaderMissing
           \/ HeaderRefused(k, n)
           \/ /\ Len(pending) >= headerLen /\ exitCode = NoExit /\ ~BadHeader(k, n)
              /\ IF Whole(n)
                 THEN /\ pending' = SubSeq(pending, headerLen + n + 1, Len(pending))
                      /\ delivered' = IF k = KindExit THEN delivered
                              ELSE Append(delivered, [kind |-> k,
                                     payload |-> SubSeq(pending, headerLen + 1, headerLen + n)])
                      /\ exitCode' = IF k = KindExit
                                     THEN Int32(Uint(SubSeq(pending, headerLen + 1, headerLen + n)))
                                     ELSE exitCode
                      /\ UNCHANGED settled
                 ELSE settled' = TRUE /\ UNCHANGED <<pending, delivered, exitCode>>
              /\ UNCHANGED corrupt
    BY <1>1, <1>2, Zenon DEF DecodeFrame, HeaderMissing, HeaderRefused
  <1>4. HeaderMissing \/ HeaderRefused(k, n) \/ PayloadMissing(k, n) \/ FrameTaken(k, n)
    BY <1>3, Zenon DEF PayloadMissing, FrameTaken
  <1> QED
    BY <1>1, <1>2, <1>3, <1>4, Zenon

\* An exit code the log may hold is not the mark for none.
LEMMA ExitMarked ==
    ASSUME log \in Seq(Frames), NEW n \in 0 .. Len(log), Taken(n)
    PROVE  exitCode # NoExit <=> Ended(n)
  <1>1. CASE Ended(n)
    <2>1. n \in 1 .. Len(log) /\ IsExit(log[n])
      BY <1>1 DEF Ended
    <2>2. log[n] \in Frames
      BY <2>1
    <2>3. log[n].code \in - ((Base * Base) \div 2) .. (Base * Base) \div 2 - 1
      BY <2>1, <2>2, FrameKinds
    <2>4. PICK W \in Nat : W = Base * Base /\ W > 3
      BY BaseFacts
    <2>5. log[n].code # W
      BY <2>3, <2>4
    <2> QED
      BY <1>1, <2>4, <2>5 DEF Taken, NoExit
  <1>2. CASE ~Ended(n)
    BY <1>2 DEF Taken
  <1> QED
    BY <1>1, <1>2

\* What has been decoded stays so when none of it changes.
LEMMA TakenKept ==
    ASSUME NEW n, Taken(n), UNCHANGED <<log, fed, pending, delivered, exitCode>>
    PROVE  Taken(n)'
  BY DEF Taken, SoundUpTo, Ended, EndOf

\* A turn of Decoder.Write's loop keeps the invariant.
LEMMA DecodeStep ==
    ASSUME DecodeInv, DecodeFrame
    PROVE  DecodeInv'
  <1>1. PICK n \in 0 .. Len(log) : Taken(n) /\ Stopped(n)
    BY DEF DecodeInv
  <1>2. log \in Seq(Frames) /\ fed \in 0 .. Len(Bytes(log))
    BY DEF DecodeInv
  <1>3. UNCHANGED <<log, fed>> /\ ~settled /\ ~corrupt
    BY <1>1, DecodeCases DEF Stopped
  <1>4. n \in Nat /\ Len(log) \in Nat /\ n <= Len(log)
    BY <1>2
  <1>5. /\ EndOf(log, n) \in Nat /\ fed \in Nat /\ Len(pending) = fed - EndOf(log, n)
    BY <1>1, <1>2, Held
  <1>6. SUFFICES \E m \in 0 .. Len(log) : Taken(m)' /\ Stopped(m)'
    BY <1>2, <1>3 DEF DecodeInv
  <1>7. CASE HeaderMissing
    <2>1. Taken(n)'
      BY <1>1, <1>3, <1>7, TakenKept DEF HeaderMissing
    <2>2. n = Len(log) \/ fed < EndOf(log, n + 1)
      <3>1. SUFFICES ASSUME n < Len(log) PROVE fed < EndOf(log, n + 1)
        BY <1>4
      <3>2. PICK fb : fb = FrameBytes(log[n + 1])
        OBVIOUS
      <3>3. /\ log[n + 1] \in Frames /\ EndOf(log, n + 1) = EndOf(log, n) + Len(fb)
        BY <1>2, <1>4, <3>1, <3>2, FrameAt
      <3>4. Len(fb) \in Nat /\ Len(fb) >= 3
        BY <3>2, <3>3, FrameFacts
      <3>5. Len(pending) < 3
        BY <1>7 DEF HeaderMissing, headerLen, WordLen
      <3> QED
        BY <1>5, <3>3, <3>4, <3>5
    <2>3. Stopped(n)'
      BY <1>3, <1>7, <2>2 DEF HeaderMissing, Stopped, EndOf
    <2> QED
      BY <2>1, <2>3
  <1>8. CASE Len(pending) >= headerLen /\ ~HeaderMissing
    <2>1. PICK f : f = log[n + 1]
      OBVIOUS
    <2>2. /\ n < Len(log) /\ f \in Frames /\ pending[1] = f.kind
          /\ Uint(SubSeq(pending, 2, headerLen)) = Size(f) /\ Size(f) \in Nat
          /\ EndOf(log, n + 1) = EndOf(log, n) + (headerLen + Size(f))
      BY <1>1, <1>2, <1>8, <2>1, HeaderRead
    <2>3. HeaderRefused(f.kind, Size(f)) \/ PayloadMissing(f.kind, Size(f)) \/ FrameTaken(f.kind, Size(f))
      BY <1>8, <2>2, DecodeCases
    <2>4. exitCode # NoExit <=> Ended(n)
      BY <1>1, <1>2, ExitMarked
    <2>5. BadHeader(f.kind, Size(f)) <=> ~Sound(f)
      BY <2>2, BadHeaderSound
    <2>6. CASE HeaderRefused(f.kind, Size(f))
      <3>1. Taken(n)'
        BY <1>1, <1>3, <2>6, TakenKept DEF HeaderRefused
      <3>2. Ended(n) \/ ~Sound(log[n + 1])
        BY <2>1, <2>4, <2>5, <2>6 DEF HeaderRefused
      <3>3. Stopped(n)'
        BY <1>3, <2>2, <2>6, <3>2 DEF HeaderRefused, Stopped, Ended
      <3> QED
        BY <3>1, <3>3
    <2>7. CASE PayloadMissing(f.kind, Size(f))
      <3>1. Taken(n)'
        BY <1>1, <1>3, <2>7, TakenKept DEF PayloadMissing
      <3>2. fed < EndOf(log, n + 1)
        BY <1>5, <2>2, <2>7 DEF PayloadMissing, Whole, headerLen, WordLen
      <3>3. Stopped(n)'
        BY <1>3, <2>7, <3>2 DEF PayloadMissing, Stopped, EndOf
      <3> QED
        BY <3>1, <3>3
    <2>8. CASE FrameTaken(f.kind, Size(f))
      <3>1. ~Ended(n) /\ Sound(log[n + 1]) /\ Whole(Size(log[n + 1]))
        BY <2>1, <2>4, <2>5, <2>8 DEF FrameTaken
      <3>2. Taken(n + 1)'
        BY <1>1, <1>2, <1>3, <1>8, <2>1, <2>8, <3>1, TakeFrame DEF FrameTaken
      <3>3. Stopped(n + 1)'
        BY <1>3, <2>8 DEF FrameTaken, Stopped
      <3>4. n + 1 \in 0 .. Len(log)
        BY <1>4, <2>2
      <3> QED
        BY <3>2, <3>3, <3>4
    <2> QED
      BY <2>3, <2>6, <2>7, <2>8
  <1>9. HeaderMissing \/ Len(pending) >= headerLen
    BY DecodeCases DEF HeaderRefused, PayloadMissing, FrameTaken
  <1> QED
    BY <1>7, <1>8, <1>9

\* Once settled, the frames taken are all that have arrived.
LEMMA AllTaken ==
    ASSUME log \in Seq(Frames), fed \in 0 .. Len(Bytes(log)), NEW n \in 0 .. Len(log),
           Taken(n), Stopped(n), settled, NEW m \in 0 .. Len(log), SoundUpTo(m), WithinFed(m)
    PROVE  m <= n
  <1>1. SUFFICES ASSUME m > n PROVE FALSE
    OBVIOUS
  <1>2. n \in Nat /\ m \in Nat /\ n + 1 \in Nat /\ n + 1 <= m /\ m <= Len(log) /\ n + 1 <= Len(log)
        /\ n < Len(log) /\ n + 1 \in 1 .. m
    BY <1>1
  <1>3. CASE corrupt
    <2>1. Ended(n) \/ ~Sound(log[n + 1])
      BY <1>3 DEF Stopped
    <2>2. Sound(log[n + 1])
      BY <1>2 DEF SoundUpTo
    <2>3. n \in 1 .. m /\ n < m /\ IsExit(log[n])
      BY <1>2, <2>1, <2>2 DEF Ended
    <2> QED
      BY <2>3 DEF SoundUpTo
  <1>4. CASE ~corrupt
    <2>1. fed < EndOf(log, n + 1)
      BY <1>2, <1>4 DEF Stopped
    <2>2. PICK k \in Nat : k = n + 1
      BY <1>2
    <2>3. EndOf(log, k) <= EndOf(log, m)
      BY <1>2, <2>2, BytesPrefix
    <2>4. EndOf(log, m) <= fed
      BY DEF WithinFed, EndOf
    <2>5. EndOf(log, k) \in Nat /\ EndOf(log, m) \in Nat /\ fed \in Int
      BY <1>2, <2>2, SubLog, BytesType
    <2> QED
      BY <2>1, <2>2, <2>3, <2>4, <2>5
  <1> QED
    BY <1>3, <1>4

\* Max is the element that no other exceeds.
LEMMA MaxIs == ASSUME NEW T, T \subseteq Nat, NEW n \in T, \A m \in T : m <= n PROVE Max(T) = n
  <1>1. Max(T) \in T /\ \A y \in T : Max(T) >= y
    <2>1. \E x \in T : \A y \in T : x >= y
      OBVIOUS
    <2> QED
      BY <2>1, Zenon DEF Max
  <1>2. PICK x : x = Max(T)
    OBVIOUS
  <1>3. x \in Nat /\ n \in Nat /\ x <= n /\ x >= n
    BY <1>1, <1>2
  <1> QED
    BY <1>2, <1>3

\* Between two Writes the invariant says what was delivered.
LEMMA DecodeInvPrefix == DecodeInv => DecodesPrefix
  <1> SUFFICES ASSUME DecodeInv, settled PROVE DecodesPrefix
    BY DEF DecodesPrefix
  <1>1. PICK n \in 0 .. Len(log) : Taken(n) /\ Stopped(n)
    BY DEF DecodeInv
  <1>2. log \in Seq(Frames) /\ fed \in 0 .. Len(Bytes(log)) /\ n \in Nat /\ Len(log) \in Nat
    BY DEF DecodeInv
  <1>3. PICK T : T = {i \in 0 .. Len(log) : SoundUpTo(i) /\ WithinFed(i)}
    OBVIOUS
  <1>4. n \in T
    BY <1>1, <1>3 DEF Taken, WithinFed, EndOf
  <1>5. \A m \in T : m <= n
    BY <1>1, <1>2, <1>3, AllTaken
  <1>6. Max(T) = n
    <2>1. T \subseteq Nat
      BY <1>3
    <2> QED
      BY <1>4, <1>5, <2>1, MaxIs
  <1>7. corrupt => ~SoundUpTo(Len(log))
    <2> SUFFICES ASSUME corrupt, SoundUpTo(Len(log)) PROVE FALSE
      OBVIOUS
    <2>1. n < Len(log) /\ (Ended(n) \/ ~Sound(log[n + 1]))
      BY <1>1 DEF Stopped
    <2>2. n + 1 \in 1 .. Len(log) /\ Sound(log[n + 1])
      BY <1>2, <2>1 DEF SoundUpTo
    <2>3. n \in 1 .. Len(log) /\ IsExit(log[n])
      BY <1>2, <2>1, <2>2 DEF Ended
    <2> QED
      BY <2>1, <2>3 DEF SoundUpTo
  <1>8. /\ delivered = SubSeq(log, 1, IF n > 0 /\ IsExit(log[n]) THEN n - 1 ELSE n)
        /\ exitCode = IF n > 0 /\ IsExit(log[n]) THEN log[n].code ELSE NoExit
    BY <1>1, Zenon DEF Taken, Ended
  <1> QED
    BY <1>3, <1>6, <1>7, <1>8, Zenon DEF DecodesPrefix

---------------------------------------------------------------------------
(* The command line.                                                       *)

ValidNames(env) == {k \in DOMAIN env : validName(k)}

\* Any word of a step's command line.
LineWords(env) == Words \cup {DashDash} \cup {Assignment(k, env[k]) : k \in DOMAIN env}

\* SetToSeq lists a finite set without repetition.
LEMMA SetToSeqFacts ==
    ASSUME NEW S, IsFiniteSet(S)
    PROVE  /\ Cardinality(S) \in Nat
           /\ SetToSeq(S) \in [1 .. Cardinality(S) -> S]
           /\ \A i, j \in 1 .. Cardinality(S) : SetToSeq(S)[i] = SetToSeq(S)[j] => i = j
           /\ \A x \in S : \E i \in 1 .. Cardinality(S) : SetToSeq(S)[i] = x
  <1>1. PICK c \in Nat : c = Cardinality(S)
    BY FS_CardinalityType
  <1>2. ExistsBijection(1 .. c, S)
    BY <1>1, FS_CardinalityType
  <1>3. PICK g : g \in [1 .. c -> S] /\ IsInjective(g)
    BY <1>2 DEF ExistsBijection, Bijection, Injection, IsInjective
  <1>4. PICK f : f = SetToSeq(S)
    OBVIOUS
  <1>5. f \in [1 .. c -> S] /\ IsInjective(f)
    <2>1. f = CHOOSE h \in [1 .. c -> S] : IsInjective(h)
      BY <1>1, <1>4 DEF SetToSeq
    <2> QED
      BY <1>3, <2>1, Zenon
  <1>6. \A i, j \in 1 .. c : f[i] = f[j] => i = j
    BY <1>5 DEF IsInjective
  <1>7. f \in Injection(1 .. c, S)
    BY <1>5, <1>6 DEF Injection
  <1>8. Cardinality(1 .. c) = c
    BY <1>1, FS_Interval
  <1>9. f \in Surjection(1 .. c, S)
    BY <1>1, <1>7, <1>8, FS_Injection
  <1>10. \A x \in S : \E i \in 1 .. c : f[i] = x
    BY <1>9 DEF Surjection
  <1> QED
    BY <1>1, <1>4, <1>5, <1>6, <1>10

\* The assignments sent are those of the usable names, each once.
LEMMA EnvArgsFacts ==
    ASSUME NEW env, IsFiniteSet(DOMAIN env)
    PROVE  LET args == EnvArgs(env) IN
           /\ args \in Seq(LineWords(env))
           /\ \A i \in 1 .. Len(args) : args[i].key \in ValidNames(env)
                                        /\ args[i] = Assignment(args[i].key, env[args[i].key])
           /\ \A i, j \in 1 .. Len(args) : args[i].key = args[j].key => i = j
           /\ \A k \in ValidNames(env) : \E i \in 1 .. Len(args) : args[i] = Assignment(k, env[k])
  <1>1. PICK N : N = ValidNames(env)
    OBVIOUS
  <1>2. N \subseteq DOMAIN env /\ N = {k \in DOMAIN env : validName(k)}
    BY <1>1 DEF ValidNames
  <1>3. IsFiniteSet(N)
    BY <1>2, FS_Subset
  <1>4. PICK c, f : c = Cardinality(N) /\ f = SetToSeq(N)
    OBVIOUS
  <1>5. /\ c \in Nat /\ f \in [1 .. c -> N]
        /\ \A i, j \in 1 .. c : f[i] = f[j] => i = j
        /\ \A x \in N : \E i \in 1 .. c : f[i] = x
    BY <1>3, <1>4, SetToSeqFacts
  <1>6. PICK args : args = EnvArgs(env)
    OBVIOUS
  <1>7. args = [i \in 1 .. c |-> Assignment(f[i], env[f[i]])]
    BY <1>2, <1>4, <1>6 DEF EnvArgs
  <1>8. \A i \in 1 .. c : Assignment(f[i], env[f[i]]) \in LineWords(env)
    BY <1>2, <1>5 DEF LineWords
  <1>9. args \in Seq(LineWords(env)) /\ Len(args) = c
    BY <1>5, <1>7, <1>8
  <1>10. \A i \in 1 .. c : args[i] = Assignment(f[i], env[f[i]]) /\ args[i].key = f[i] /\ f[i] \in N
    BY <1>5, <1>7 DEF Assignment
  <1> QED
    BY <1>1, <1>5, <1>6, <1>9, <1>10

\* What the first "--" of a command line is.
LEMMA FirstDashIs ==
    ASSUME NEW args, NEW n \in Nat, n \in DOMAIN args, args[n] = DashDash, DOMAIN args \subseteq Nat,
           \A i \in 1 .. n - 1 : args[i] # DashDash, 0 \notin DOMAIN args
    PROVE  FirstDash(args) = n
  <1>1. \A i \in DOMAIN args : args[i] = DashDash => i >= n
    OBVIOUS
  <1>2. PICK d : d = FirstDash(args)
    OBVIOUS
  <1>3. d \in DOMAIN args /\ args[d] = DashDash /\ \A i \in DOMAIN args : args[i] = DashDash => i >= d
    BY <1>1, <1>2, Zenon DEF FirstDash
  <1> QED
    BY <1>1, <1>2, <1>3

\* ParseRun undoes RunArgv.
LEMMA ParseRunArgv ==
    ASSUME NEW env, IsFiniteSet(DOMAIN env), NEW cmd \in Seq(Words), cmd # <<>>
    PROVE  LET args == RunArgv(env, cmd) IN
           ParseOk(args) /\ ParseRun(args).env = EnvArgs(env) /\ ParseRun(args).cmd = cmd
  <1>1. PICK W : W = LineWords(env)
    OBVIOUS
  <1>2. PICK e : e = EnvArgs(env)
    OBVIOUS
  <1>3. /\ e \in Seq(W)
        /\ \A i \in 1 .. Len(e) : e[i].key \in ValidNames(env) /\ e[i] = Assignment(e[i].key, env[e[i].key])
    BY <1>1, <1>2, EnvArgsFacts
  <1>4. PICK d : d = <<DashDash>>
    OBVIOUS
  <1>5. d \in Seq(W) /\ Len(d) = 1 /\ d[1] = DashDash /\ cmd \in Seq(W)
    <2>1. DashDash \in W /\ Words \subseteq W
      BY <1>1 DEF LineWords
    <2> QED
      BY <1>4, <2>1
  <1>6. PICK h : h = e \o d
    OBVIOUS
  <1>7. h \in Seq(W) /\ Joined(h, e, d)
    BY <1>3, <1>5, <1>6, ConcatAt, Zenon
  <1>8. PICK args : args = h \o cmd
    OBVIOUS
  <1>9. args \in Seq(W) /\ Joined(args, h, cmd)
    BY <1>5, <1>7, <1>8, ConcatAt, Zenon
  <1>10. args = RunArgv(env, cmd)
    BY <1>2, <1>4, <1>6, <1>8 DEF RunArgv
  <1>11. PICK n : n = Len(e)
    OBVIOUS
  <1>12. /\ n \in Nat /\ Len(h) = n + 1 /\ Len(args) = (n + 1) + Len(cmd) /\ Len(cmd) \in Nat /\ Len(cmd) > 0
    BY <1>3, <1>5, <1>7, <1>9, <1>11 DEF Joined
  <1>13. \A i \in 1 .. n : args[i] = e[i]
    <2>1. \A i \in 1 .. n : h[i] = e[i] /\ i \in 1 .. Len(h)
      BY <1>7, <1>11, <1>12 DEF Joined
    <2> QED
      BY <1>9, <2>1 DEF Joined
  <1>14. args[n + 1] = DashDash
    <2>1. h[n + 1] = DashDash
      BY <1>5, <1>7, <1>11 DEF Joined
    <2> QED
      BY <1>9, <1>12, <2>1 DEF Joined
  <1>15. \A j \in 1 .. Len(cmd) : args[(n + 1) + j] = cmd[j]
    BY <1>9, <1>12 DEF Joined
  <1>16. \A i \in 1 .. n : args[i].eq = TRUE /\ validName(args[i].key)
    <2>1. \A k, v : Assignment(k, v).eq = TRUE
      BY DEF Assignment
    <2>2. \A k \in ValidNames(env) : validName(k)
      BY DEF ValidNames
    <2> SUFFICES ASSUME NEW i \in 1 .. n PROVE args[i].eq = TRUE /\ validName(args[i].key)
      OBVIOUS
    <2>3. args[i] = e[i] /\ e[i].key \in ValidNames(env) /\ e[i] = Assignment(e[i].key, env[e[i].key])
      BY <1>3, <1>11, <1>13
    <2>4. PICK k, v : e[i] = Assignment(k, v)
      BY <2>3
    <2>5. e[i].eq = TRUE
      BY <2>1, <2>4
    <2> QED
      BY <2>2, <2>3, <2>5
  <1>17. \A i \in 1 .. n : args[i] # DashDash
    <2>1. DashDash.eq = FALSE
      BY DEF DashDash, Word
    <2> QED
      BY <1>16, <2>1, Zenon
  <1>18. DOMAIN args = 1 .. Len(args)
    BY <1>9
  <1>19. FirstDash(args) = n + 1
    <2>1. PICK k \in Nat : k = n + 1
      BY <1>12
    <2>2. k \in DOMAIN args /\ args[k] = DashDash /\ DOMAIN args \subseteq Nat /\ 0 \notin DOMAIN args
          /\ \A i \in 1 .. k - 1 : args[i] # DashDash
      BY <1>12, <1>14, <1>17, <1>18, <2>1
    <2> QED
      BY <2>1, <2>2, FirstDashIs
  <1>20. ParseOk(args)
    <2>1. n + 1 \in DOMAIN args /\ n + 1 < Len(args) /\ (n + 1) - 1 = n
      BY <1>12, <1>18
    <2> QED
      BY <1>14, <1>16, <1>19, <2>1 DEF ParseOk
  <1>21. SubSeq(args, 1, n) = e
    <2>1. PICK s : s = SubSeq(args, 1, n)
      OBVIOUS
    <2>2. s \in Seq(W) /\ Len(s) = n /\ \A i \in 1 .. n : s[i] = args[i]
      BY <1>9, <1>12, <2>1
    <2>3. s = e
      BY <1>3, <1>11, <1>13, <2>2, SeqEqual
    <2> QED
      BY <2>1, <2>3
  <1>22. SubSeq(args, (n + 1) + 1, Len(args)) = cmd
    <2>1. PICK s : s = SubSeq(args, (n + 1) + 1, Len(args))
      OBVIOUS
    <2>2. s \in Seq(W) /\ Len(s) = Len(cmd) /\ \A j \in 1 .. Len(cmd) : s[j] = args[(n + 1) + j]
      BY <1>9, <1>12, <2>1
    <2>3. s = cmd
      BY <1>5, <1>15, <2>2, SeqEqual
    <2> QED
      BY <2>1, <2>3
  <1>23. ParseRun(args).env = e /\ ParseRun(args).cmd = cmd
    <2>1. (n + 1) - 1 = n
      BY <1>12
    <2> QED
      BY <1>19, <1>21, <1>22, <2>1 DEF ParseRun
  <1> QED
    BY <1>2, <1>10, <1>20, <1>23

---------------------------------------------------------------------------
(* mergeEnv.                                                               *)

\* f[n] is the list after n words: mergeEnv's own recursion.
MergeTo(f, all, n) == f = [m \in 0 .. n |-> IF m = 0 THEN <<>> ELSE mergeWord(f[m - 1], all[m])]

\* What mergeEnv's own recursion says of one index.
LEMMA MergeAt ==
    ASSUME NEW all, NEW f, NEW n \in Nat, MergeTo(f, all, n), NEW m \in 0 .. n
    PROVE  f[m] = IF m = 0 THEN <<>> ELSE mergeWord(f[m - 1], all[m])
  <1>1. f = [j \in 0 .. n |-> IF j = 0 THEN <<>> ELSE mergeWord(f[j - 1], all[j])]
    BY DEF MergeTo
  <1>2. PICK h : h = f
    OBVIOUS
  <1>3. f = [j \in 0 .. n |-> IF j = 0 THEN <<>> ELSE mergeWord(h[j - 1], all[j])]
    BY <1>1, <1>2, Zenon
  <1>4. f[m] = IF m = 0 THEN <<>> ELSE mergeWord(h[m - 1], all[m])
    BY <1>3
  <1> QED
    BY <1>2, <1>4

\* The recursion has a solution for every list of words.
LEMMA MergeExists == ASSUME NEW all, NEW n \in Nat PROVE \E f : MergeTo(f, all, n)
  <1> DEFINE S == {m \in Nat : \E f : MergeTo(f, all, m)}
  <1>1. 0 \in S
    <2> DEFINE f == [m \in 0 .. 0 |-> <<>>]
    <2>1. f = [m \in 0 .. 0 |-> IF m = 0 THEN <<>> ELSE mergeWord(f[m - 1], all[m])]
      OBVIOUS
    <2>2. MergeTo(f, all, 0)
      BY <2>1 DEF MergeTo
    <2> QED
      BY <2>2
  <1>2. ASSUME NEW m \in 0 .. n - 1, m \in S PROVE m + 1 \in S
    <2>1. PICK f : MergeTo(f, all, m)
      BY <1>2
    <2>2. m \in Nat /\ m + 1 \in Nat
      OBVIOUS
    <2> DEFINE g == [j \in 0 .. m + 1 |-> IF j = 0 THEN <<>> ELSE mergeWord(f[j - 1], all[j])]
    <2>3. \A j \in 0 .. m : g[j] = f[j]
      BY <2>1, <2>2, MergeAt
    <2>4. \A j \in 0 .. m + 1 : j # 0 => g[j] = mergeWord(g[j - 1], all[j])
      <3> SUFFICES ASSUME NEW j \in 0 .. m + 1, j # 0 PROVE g[j] = mergeWord(g[j - 1], all[j])
        OBVIOUS
      <3>1. j - 1 \in 0 .. m
        OBVIOUS
      <3>2. g[j] = mergeWord(f[j - 1], all[j])
        OBVIOUS
      <3>3. g[j - 1] = f[j - 1]
        BY <2>3, <3>1
      <3> QED
        BY <3>2, <3>3
    <2>5. g = [j \in 0 .. m + 1 |-> IF j = 0 THEN <<>> ELSE mergeWord(g[j - 1], all[j])]
      BY <2>4
    <2>6. MergeTo(g, all, m + 1)
      BY <2>5, Zenon DEF MergeTo
    <2> HIDE DEF g
    <2> QED
      BY <2>2, <2>6
  <1>3. \A m \in 0 .. n : m \in S
    <2> HIDE DEF S
    <2> QED
      BY <1>1, <1>2, UpTo
  <1> QED
    BY <1>3

\* out holds, of the first n words of all, the last of each name.
Merged(out, all, n) ==
    /\ \A i \in 1 .. Len(out) : \E j \in 1 .. n :
          out[i] = all[j] /\ \A m \in 1 .. n : all[m].key = all[j].key => m <= j
    /\ \A j \in 1 .. n : \E i \in 1 .. Len(out) : out[i].key = all[j].key
    /\ \A i, j \in 1 .. Len(out) : out[i].key = out[j].key => i = j

\* One word more, under a name that is there already.
LEMMA MergeReplace ==
    ASSUME NEW W, NEW all \in Seq(W), NEW n \in Nat, n < Len(all), NEW out \in Seq(W), Merged(out, all, n),
           NEW p \in 1 .. Len(out), out[p].key = all[n + 1].key
    PROVE  LET new == mergeWord(out, all[n + 1]) IN new \in Seq(W) /\ Merged(new, all, n + 1)
  <1>1. PICK kv : kv = all[n + 1]
    OBVIOUS
  <1>2. kv \in W /\ n + 1 \in Nat /\ DOMAIN out = 1 .. Len(out) /\ Len(out) \in Nat
    BY <1>1
  <1>3. PICK new : new = mergeWord(out, kv)
    OBVIOUS
  <1>4. new = [i \in 1 .. Len(out) |-> IF out[i].key = kv.key THEN kv ELSE out[i]]
    BY <1>1, <1>2, <1>3 DEF mergeWord
  <1>5. new \in Seq(W) /\ Len(new) = Len(out)
    BY <1>2, <1>4
  <1>6. \A i \in 1 .. Len(out) : new[i] = (IF out[i].key = kv.key THEN kv ELSE out[i]) /\ new[i].key = out[i].key
    BY <1>4
  <1>7. ASSUME NEW i \in 1 .. Len(new)
        PROVE  \E j \in 1 .. n + 1 : new[i] = all[j] /\ \A m \in 1 .. n + 1 : all[m].key = all[j].key => m <= j
    <2>1. CASE out[i].key = kv.key
      <3>1. new[i] = all[n + 1] /\ n + 1 \in 1 .. n + 1 /\ \A m \in 1 .. n + 1 : m <= n + 1
        BY <1>1, <1>2, <1>5, <1>6, <2>1
      <3> QED
        BY <3>1
    <2>2. CASE out[i].key # kv.key
      <3>1. PICK j \in 1 .. n : out[i] = all[j] /\ \A m \in 1 .. n : all[m].key = all[j].key => m <= j
        BY <1>5 DEF Merged
      <3>2. new[i] = all[j] /\ j \in 1 .. n + 1
        BY <1>5, <1>6, <2>2, <3>1
      <3>3. \A m \in 1 .. n + 1 : all[m].key = all[j].key => m <= j
        <4> SUFFICES ASSUME NEW m \in 1 .. n + 1, all[m].key = all[j].key PROVE m <= j
          OBVIOUS
        <4>1. m # n + 1
          BY <1>1, <2>2, <3>1
        <4>2. m \in 1 .. n
          BY <4>1
        <4> QED
          BY <3>1, <4>2
      <3> QED
        BY <3>2, <3>3
    <2> QED
      BY <2>1, <2>2
  <1>8. ASSUME NEW j \in 1 .. n + 1 PROVE \E i \in 1 .. Len(new) : new[i].key = all[j].key
    <2>1. CASE j = n + 1
      BY <1>1, <1>5, <1>6, <2>1
    <2>2. CASE j # n + 1
      <3>1. j \in 1 .. n
        BY <2>2
      <3>2. PICK i \in 1 .. Len(out) : out[i].key = all[j].key
        BY <3>1 DEF Merged
      <3> QED
        BY <1>5, <1>6, <3>2
    <2> QED
      BY <2>1, <2>2
  <1>9. \A i, j \in 1 .. Len(new) : new[i].key = new[j].key => i = j
    BY <1>5, <1>6 DEF Merged
  <1>10. Merged(new, all, n + 1)
    BY <1>7, <1>8, <1>9 DEF Merged
  <1> QED
    BY <1>1, <1>3, <1>5, <1>10

\* One word more, under a new name.
LEMMA MergeAdd ==
    ASSUME NEW W, NEW all \in Seq(W), NEW n \in Nat, n < Len(all), NEW out \in Seq(W), Merged(out, all, n),
           \A p \in 1 .. Len(out) : out[p].key # all[n + 1].key
    PROVE  LET new == mergeWord(out, all[n + 1]) IN new \in Seq(W) /\ Merged(new, all, n + 1)
  <1>1. PICK kv : kv = all[n + 1]
    OBVIOUS
  <1>2. kv \in W /\ n + 1 \in Nat /\ DOMAIN out = 1 .. Len(out) /\ Len(out) \in Nat
    BY <1>1
  <1>3. PICK new : new = mergeWord(out, kv)
    OBVIOUS
  <1>4. new = Append(out, kv)
    BY <1>1, <1>2, <1>3 DEF mergeWord
  <1>5. /\ new \in Seq(W) /\ Len(new) = Len(out) + 1 /\ new[Len(out) + 1] = kv
        /\ \A i \in 1 .. Len(out) : new[i] = out[i]
    BY <1>2, <1>4
  <1>6. ASSUME NEW i \in 1 .. Len(out) + 1
        PROVE  \E j \in 1 .. n + 1 : new[i] = all[j] /\ \A m \in 1 .. n + 1 : all[m].key = all[j].key => m <= j
    <2>1. CASE i = Len(out) + 1
      <3>1. new[i] = all[n + 1] /\ n + 1 \in 1 .. n + 1 /\ \A m \in 1 .. n + 1 : m <= n + 1
        BY <1>1, <1>2, <1>5, <2>1
      <3> QED
        BY <3>1
    <2>2. CASE i \in 1 .. Len(out)
      <3>1. PICK j \in 1 .. n : out[i] = all[j] /\ \A m \in 1 .. n : all[m].key = all[j].key => m <= j
        BY <2>2 DEF Merged
      <3>2. new[i] = all[j] /\ j \in 1 .. n + 1
        BY <1>5, <2>2, <3>1
      <3>3. \A m \in 1 .. n + 1 : all[m].key = all[j].key => m <= j
        <4> SUFFICES ASSUME NEW m \in 1 .. n + 1, all[m].key = all[j].key PROVE m <= j
          OBVIOUS
        <4>1. m # n + 1
          BY <2>2, <3>1
        <4>2. m \in 1 .. n
          BY <4>1
        <4> QED
          BY <3>1, <4>2
      <3> QED
        BY <3>2, <3>3
    <2> QED
      BY <1>2, <2>1, <2>2
  <1>7. ASSUME NEW j \in 1 .. n + 1 PROVE \E i \in 1 .. Len(out) + 1 : new[i].key = all[j].key
    <2>1. CASE j = n + 1
      <3>1. Len(out) + 1 \in 1 .. Len(out) + 1
        BY <1>2
      <3> QED
        BY <1>1, <1>5, <2>1, <3>1
    <2>2. CASE j # n + 1
      <3>1. j \in 1 .. n
        BY <2>2
      <3>2. PICK i \in 1 .. Len(out) : out[i].key = all[j].key
        BY <3>1 DEF Merged
      <3> QED
        BY <1>2, <1>5, <3>2
    <2> QED
      BY <2>1, <2>2
  <1>8. ASSUME NEW i \in 1 .. Len(out) + 1, NEW j \in 1 .. Len(out) + 1, new[i].key = new[j].key PROVE i = j
    <2>1. CASE i \in 1 .. Len(out) /\ j \in 1 .. Len(out)
      BY <1>5, <1>8, <2>1 DEF Merged
    <2>2. CASE i \in 1 .. Len(out) /\ j = Len(out) + 1
      BY <1>1, <1>5, <1>8, <2>2
    <2>3. CASE i = Len(out) + 1 /\ j \in 1 .. Len(out)
      BY <1>1, <1>5, <1>8, <2>3
    <2> QED
      BY <1>2, <2>1, <2>2, <2>3
  <1>9. Merged(new, all, n + 1)
    BY <1>5, <1>6, <1>7, <1>8 DEF Merged
  <1> QED
    BY <1>1, <1>3, <1>5, <1>9

\* mergeEnv keeps the last word of each name, once.
LEMMA MergeEnvFacts ==
    ASSUME NEW W, NEW base \in Seq(W), NEW over \in Seq(W)
    PROVE  mergeEnv(base, over) \in Seq(W) /\ Merged(mergeEnv(base, over), base \o over, Len(base \o over))
  <1>1. PICK all : all = base \o over
    OBVIOUS
  <1>2. all \in Seq(W) /\ Len(all) \in Nat
    BY <1>1
  <1> DEFINE f == CHOOSE g : MergeTo(g, all, Len(all))
  <1>3. mergeEnv(base, over) = f[Len(all)]
    BY <1>1 DEF mergeEnv, MergeTo
  <1>4. MergeTo(f, all, Len(all))
    <2>1. \E g : MergeTo(g, all, Len(all))
      BY <1>2, MergeExists
    <2> QED
      BY <2>1, Zenon
  <1> HIDE DEF f
  <1> DEFINE S == {n \in Nat : f[n] \in Seq(W) /\ Merged(f[n], all, n)}
  <1>5. 0 \in S
    <2>1. f[0] = <<>>
      BY <1>2, <1>4, MergeAt
    <2>2. <<>> \in Seq(W) /\ Len(<<>>) = 0
      OBVIOUS
    <2>3. Merged(<<>>, all, 0)
      BY <2>2 DEF Merged
    <2> QED
      BY <2>1, <2>2, <2>3
  <1>6. ASSUME NEW n \in 0 .. Len(all) - 1, n \in S PROVE n + 1 \in S
    <2>1. n \in Nat /\ n + 1 \in 0 .. Len(all) /\ (n + 1) - 1 = n /\ n + 1 # 0 /\ n < Len(all) /\ n + 1 \in Nat
      BY <1>2
    <2>2. f[n + 1] = mergeWord(f[n], all[n + 1])
      BY <1>2, <1>4, <2>1, MergeAt
    <2>3. PICK out : out = f[n]
      OBVIOUS
    <2>4. out \in Seq(W) /\ Merged(out, all, n)
      BY <1>6, <2>3
    <2>5. mergeWord(out, all[n + 1]) \in Seq(W) /\ Merged(mergeWord(out, all[n + 1]), all, n + 1)
      <3>1. CASE \E p \in 1 .. Len(out) : out[p].key = all[n + 1].key
        BY <1>2, <2>1, <2>4, <3>1, MergeReplace
      <3>2. CASE \A p \in 1 .. Len(out) : out[p].key # all[n + 1].key
        BY <1>2, <2>1, <2>4, <3>2, MergeAdd
      <3> QED
        BY <3>1, <3>2
    <2> QED
      BY <2>1, <2>2, <2>3, <2>5
  <1>7. \A n \in 0 .. Len(all) : n \in S
    <2> HIDE DEF S
    <2> QED
      BY <1>2, <1>5, <1>6, UpTo
  <1>8. Len(all) \in S
    BY <1>2, <1>7
  <1>9. f[Len(all)] \in Seq(W) /\ Merged(f[Len(all)], all, Len(all))
    BY <1>8
  <1> QED
    BY <1>1, <1>3, <1>9

\* The pod's own variables that are not sent anew.
OwnAt(base, env) ==
    {i \in DOMAIN base : /\ base[i].key \notin ValidNames(env)
                         /\ \A n \in DOMAIN base : base[n].key = base[i].key => n <= i}

\* A step's environment: what was sent, and the pod's own last word for other names
\* (EnvArgs, mergeEnv).
LEMMA EnvironmentFacts ==
    ASSUME NEW env, IsFiniteSet(DOMAIN env), NEW base \in Seq(Words), NEW got, got = mergeEnv(base, EnvArgs(env))
    PROVE  /\ Range(got) = {Assignment(k, env[k]) : k \in ValidNames(env)} \cup {base[i] : i \in OwnAt(base, env)}
           /\ \A i, n \in DOMAIN got : got[i].key = got[n].key => i = n
  <1>1. PICK W : W = LineWords(env)
    OBVIOUS
  <1>2. PICK over : over = EnvArgs(env)
    OBVIOUS
  <1>3. /\ over \in Seq(W)
        /\ \A i \in 1 .. Len(over) : over[i].key \in ValidNames(env)
                                     /\ over[i] = Assignment(over[i].key, env[over[i].key])
        /\ \A i, j \in 1 .. Len(over) : over[i].key = over[j].key => i = j
        /\ \A k \in ValidNames(env) : \E i \in 1 .. Len(over) : over[i] = Assignment(k, env[k])
    BY <1>1, <1>2, EnvArgsFacts
  <1>4. base \in Seq(W)
    <2>1. Words \subseteq W
      BY <1>1 DEF LineWords
    <2> QED
      BY <2>1
  <1>5. PICK all : all = base \o over
    OBVIOUS
  <1>6. all \in Seq(W) /\ Joined(all, base, over)
    BY <1>3, <1>4, <1>5, ConcatAt, Zenon
  <1>7. got \in Seq(W) /\ Merged(got, all, Len(all))
    BY <1>2, <1>3, <1>4, <1>5, MergeEnvFacts
  <1>8. DOMAIN got = 1 .. Len(got) /\ DOMAIN base = 1 .. Len(base) /\ Len(base) \in Nat /\ Len(over) \in Nat
    BY <1>3, <1>4, <1>7
  <1>9. /\ Len(all) = Len(base) + Len(over) /\ \A i \in 1 .. Len(base) : all[i] = base[i]
        /\ \A j \in 1 .. Len(over) : all[Len(base) + j] = over[j]
    BY <1>6 DEF Joined
  <1>10. \A k, v : Assignment(k, v).key = k
    BY DEF Assignment
  <1>11. ASSUME NEW p \in 1 .. Len(got)
         PROVE  got[p] \in {Assignment(k, env[k]) : k \in ValidNames(env)} \cup {base[i] : i \in OwnAt(base, env)}
    <2>1. PICK j \in 1 .. Len(all) : got[p] = all[j] /\ \A m \in 1 .. Len(all) : all[m].key = all[j].key => m <= j
      BY <1>7 DEF Merged
    <2>2. CASE j > Len(base)
      <3>1. PICK i \in 1 .. Len(over) : j = Len(base) + i
        <4>1. j - Len(base) \in 1 .. Len(over) /\ j = Len(base) + (j - Len(base))
          BY <1>8, <1>9, <2>2
        <4> QED
          BY <4>1
      <3>2. got[p] = over[i]
        BY <1>9, <2>1, <3>1
      <3> QED
        BY <1>3, <3>2
    <2>3. CASE j <= Len(base)
      <3>1. j \in 1 .. Len(base) /\ all[j] = base[j]
        BY <1>8, <1>9, <2>3
      <3>2. base[j].key \notin ValidNames(env)
        <4> SUFFICES ASSUME base[j].key \in ValidNames(env) PROVE FALSE
          OBVIOUS
        <4>1. PICK k : k = base[j].key
          OBVIOUS
        <4>2. PICK i \in 1 .. Len(over) : over[i] = Assignment(k, env[k])
          BY <1>3, <4>1
        <4>3. over[i].key = k
          BY <1>10, <4>2
        <4>4. Len(base) + i \in 1 .. Len(all) /\ Len(base) + i > j
          BY <1>8, <1>9, <2>3
        <4>5. Len(base) + i <= j
          BY <1>9, <2>1, <3>1, <4>1, <4>3, <4>4
        <4> QED
          BY <1>8, <4>4, <4>5
      <3>3. ASSUME NEW n \in 1 .. Len(base), base[n].key = base[j].key PROVE n <= j
        <4>1. n \in 1 .. Len(all) /\ all[n] = base[n]
          BY <1>8, <1>9
        <4> QED
          BY <2>1, <3>1, <3>3, <4>1
      <3>4. j \in OwnAt(base, env)
        BY <1>8, <3>1, <3>2, <3>3 DEF OwnAt
      <3> QED
        BY <2>1, <3>1, <3>4
    <2> QED
      BY <1>8, <2>2, <2>3
  <1>12. ASSUME NEW k \in ValidNames(env) PROVE \E p \in 1 .. Len(got) : got[p] = Assignment(k, env[k])
    <2>1. PICK i \in 1 .. Len(over) : over[i] = Assignment(k, env[k])
      BY <1>3
    <2>2. over[i].key = k
      BY <1>10, <2>1
    <2>3. PICK n : n = Len(base) + i
      OBVIOUS
    <2>4. n \in 1 .. Len(all) /\ all[n] = over[i] /\ n > Len(base)
      BY <1>8, <1>9, <2>3
    <2>5. PICK p \in 1 .. Len(got) : got[p].key = all[n].key
      BY <1>7, <2>4 DEF Merged
    <2>6. PICK j \in 1 .. Len(all) : got[p] = all[j] /\ \A m \in 1 .. Len(all) : all[m].key = all[j].key => m <= j
      BY <1>7 DEF Merged
    <2>7. n <= j
      BY <2>4, <2>5, <2>6
    <2>8. PICK q \in 1 .. Len(over) : j = Len(base) + q
      <3>1. j - Len(base) \in 1 .. Len(over) /\ j = Len(base) + (j - Len(base))
        BY <1>8, <1>9, <2>4, <2>7
      <3> QED
        BY <3>1
    <2>9. all[j] = over[q] /\ over[q].key = over[i].key
      BY <1>9, <2>4, <2>5, <2>6, <2>8
    <2>10. q = i
      BY <1>3, <2>9
    <2> QED
      BY <2>1, <2>6, <2>9, <2>10
  <1>13. ASSUME NEW i \in OwnAt(base, env) PROVE \E p \in 1 .. Len(got) : got[p] = base[i]
    <2>1. /\ i \in 1 .. Len(base) /\ base[i].key \notin ValidNames(env)
          /\ \A n \in 1 .. Len(base) : base[n].key = base[i].key => n <= i
      BY <1>8 DEF OwnAt
    <2>2. i \in 1 .. Len(all) /\ all[i] = base[i]
      BY <1>8, <1>9, <2>1
    <2>3. PICK p \in 1 .. Len(got) : got[p].key = all[i].key
      BY <1>7, <2>2 DEF Merged
    <2>4. PICK j \in 1 .. Len(all) : got[p] = all[j] /\ \A m \in 1 .. Len(all) : all[m].key = all[j].key => m <= j
      BY <1>7 DEF Merged
    <2>5. i <= j
      BY <2>2, <2>3, <2>4
    <2>6. j <= Len(base)
      <3> SUFFICES ASSUME ~ (j <= Len(base)) PROVE FALSE
        OBVIOUS
      <3>1. PICK q \in 1 .. Len(over) : j = Len(base) + q
        <4>1. j - Len(base) \in 1 .. Len(over) /\ j = Len(base) + (j - Len(base))
          BY <1>8, <1>9
        <4> QED
          BY <4>1
      <3>2. all[j] = over[q]
        BY <1>9, <3>1
      <3>3. over[q].key \in ValidNames(env)
        BY <1>3
      <3> QED
        BY <2>1, <2>2, <2>3, <2>4, <3>2, <3>3
    <2>7. j \in 1 .. Len(base) /\ all[j] = base[j]
      BY <1>8, <1>9, <2>6
    <2>8. j <= i
      BY <2>1, <2>2, <2>3, <2>4, <2>7
    <2>9. i = j
      BY <1>8, <2>1, <2>5, <2>7, <2>8
    <2> QED
      BY <2>2, <2>4, <2>9
  <1>14. Range(got) = {Assignment(k, env[k]) : k \in ValidNames(env)} \cup {base[i] : i \in OwnAt(base, env)}
    <2>1. Range(got) = {got[p] : p \in 1 .. Len(got)}
      BY <1>8 DEF Range
    <2> QED
      BY <1>11, <1>12, <1>13, <2>1
  <1>15. \A i, n \in DOMAIN got : got[i].key = got[n].key => i = n
    BY <1>7, <1>8 DEF Merged
  <1> QED
    BY <1>14, <1>15

\* At the start of the command the invariant says what arrived.
LEMMA CallInvArrives == CallInv => CallArrives
  <1> SUFFICES ASSUME CallInv PROVE CallArrives
    OBVIOUS
  <1>1. CASE hop = "off"
    BY <1>1 DEF CallArrives
  <1>2. CASE hop # "off"
    <2>1. PICK c \in Calls : \E cmd, env :
            /\ call = [env |-> c.env, base |-> c.base, cmd |-> c.cmd, gotCmd |-> cmd, gotEnv |-> env]
            /\ hop = "start" => cmd = c.cmd /\ env = mergeEnv(c.base, EnvArgs(c.env))
            /\ hop # "usage"
      BY <1>2 DEF CallInv
    <2>2. hop # "usage"
      BY <2>1
    <2>3. ASSUME hop = "start"
          PROVE  /\ call.env = c.env /\ call.base = c.base /\ call.cmd = c.cmd /\ call.gotCmd = c.cmd
                 /\ call.gotEnv = mergeEnv(c.base, EnvArgs(c.env))
      BY <2>1, <2>3
    <2>4. IsFiniteSet(DOMAIN c.env) /\ c.base \in Seq(Words)
      BY WireAssumption
    <2>5. ASSUME hop = "start"
          PROVE  LET got == call.gotEnv IN
                 /\ Range(got) = {Assignment(k, call.env[k]) : k \in ValidNames(call.env)}
                                 \cup {call.base[i] : i \in OwnAt(call.base, call.env)}
                 /\ \A i, n \in DOMAIN got : got[i].key = got[n].key => i = n
      BY <2>3, <2>4, <2>5, EnvironmentFacts
    <2>6. hop = "start" => call.gotCmd = call.cmd
      BY <2>3
    <2> QED
      BY <2>2, <2>5, <2>6, Zenon DEF CallArrives, ValidNames, OwnAt
  <1> QED
    BY <1>1, <1>2

---------------------------------------------------------------------------
(* The theorems.                                                           *)

decodeVars == <<log, fed, pending, delivered, exitCode, corrupt, settled>>
callVars == <<hop, call, argv>>

\* Steps that leave the Decoder alone keep its invariant.
LEMMA DecodeKept == ASSUME DecodeInv, UNCHANGED decodeVars PROVE DecodeInv'
  BY DEF DecodeInv, decodeVars, Taken, Stopped, SoundUpTo, Ended, EndOf

\* Steps that leave the command line alone keep its invariant.
LEMMA CallKept == ASSUME CallInv, UNCHANGED callVars PROVE CallInv'
  BY DEF CallInv, callVars

\* Sending and parsing the command line keep the invariant (RunArgv, ParseRun).
LEMMA CallStep == ASSUME CallInv, SendStep \/ ParseStep PROVE CallInv'
  <1>1. hop # "off"
    BY DEF SendStep, ParseStep
  <1>0. PICK c \in Calls : \E cmd, env :
            /\ call = [env |-> c.env, base |-> c.base, cmd |-> c.cmd, gotCmd |-> cmd, gotEnv |-> env]
            /\ hop \in {"run", "supervise"} => c.cmd # <<>> /\ argv = RunArgv(c.env, c.cmd)
            /\ hop = "start" => cmd = c.cmd /\ env = mergeEnv(c.base, EnvArgs(c.env))
            /\ hop # "usage"
    BY <1>1, Zenon DEF CallInv
  <1>2. PICK cmd, env :
            /\ call = [env |-> c.env, base |-> c.base, cmd |-> c.cmd, gotCmd |-> cmd, gotEnv |-> env]
            /\ hop \in {"run", "supervise"} => c.cmd # <<>> /\ argv = RunArgv(c.env, c.cmd)
            /\ hop = "start" => cmd = c.cmd /\ env = mergeEnv(c.base, EnvArgs(c.env))
            /\ hop # "usage"
    BY <1>0, Zenon
  <1>3. IsFiniteSet(DOMAIN c.env) /\ c.cmd \in Seq(Words)
    BY WireAssumption
  <1>4. call.env = c.env /\ call.base = c.base /\ call.cmd = c.cmd
    BY <1>2
  <1>5. CASE SendStep
    <2>1. call' = call
      BY <1>5 DEF SendStep
    <2>2. \/ hop' = "refused"
          \/ hop' = "run" /\ c.cmd # <<>> /\ argv' = RunArgv(c.env, c.cmd)
      BY <1>4, <1>5 DEF SendStep
    <2> QED
      BY <1>2, <2>1, <2>2 DEF CallInv
  <1>6. CASE ParseStep
    <2>1. hop \in {"run", "supervise"} /\ c.cmd # <<>> /\ argv = RunArgv(c.env, c.cmd)
      BY <1>2, <1>6 DEF ParseStep
    <2>2. ParseOk(argv) /\ ParseRun(argv).env = EnvArgs(c.env) /\ ParseRun(argv).cmd = c.cmd
      BY <1>3, <2>1, ParseRunArgv
    <2>3. CASE hop = "run"
      <3>1. hop' = "supervise" /\ argv' = argv /\ call' = call
        BY <1>6, <2>2, <2>3 DEF ParseStep
      <3> QED
        BY <1>2, <2>1, <3>1 DEF CallInv
    <2>4. CASE hop = "supervise"
      <3>1. hop' = "start"
        BY <1>6, <2>2, <2>4 DEF ParseStep
      <3>2. PICK e : e = mergeEnv(c.base, EnvArgs(c.env))
        OBVIOUS
      <3>3. call' = [call EXCEPT !.gotCmd = c.cmd, !.gotEnv = e]
        BY <1>4, <1>6, <2>2, <2>4, <3>2, Zenon DEF ParseStep
      <3>4. call' = [env |-> c.env, base |-> c.base, cmd |-> c.cmd, gotCmd |-> c.cmd, gotEnv |-> e]
        BY <1>2, <3>3
      <3> QED
        BY <3>1, <3>2, <3>4 DEF CallInv
    <2> QED
      BY <2>1, <2>3, <2>4
  <1> QED
    BY <1>5, <1>6

\* The types follow from the two invariants but for what a step alone decides.
WireKinds ==
    /\ corrupt \in BOOLEAN /\ settled \in BOOLEAN
    /\ hop \in {"off", "exec", "refused", "run", "supervise", "start", "usage"}

WireInv == WireKinds /\ DecodeInv /\ CallInv

\* Flags and places keep their types.
LEMMA KindsStep == ASSUME WireKinds, [WireNext]_wireVars PROVE WireKinds'
  <1>1. CASE Feed
    BY <1>1 DEF Feed, WireKinds
  <1>2. CASE DecodeFrame
    <2>1. corrupt' \in {corrupt, TRUE} /\ settled' \in {settled, TRUE} /\ hop' = hop
      BY <1>2, DecodeCases DEF HeaderMissing, HeaderRefused, PayloadMissing, FrameTaken
    <2> QED
      BY <2>1, Zenon DEF WireKinds
  <1>3. CASE SendStep
    BY <1>3 DEF SendStep, WireKinds
  <1>4. CASE ParseStep
    BY <1>4 DEF ParseStep, WireKinds
  <1>5. CASE UNCHANGED wireVars
    BY <1>5 DEF wireVars, WireKinds
  <1> QED
    BY <1>1, <1>2, <1>3, <1>4, <1>5 DEF WireNext

\* Every step keeps the invariant.
LEMMA WireStep == ASSUME WireInv, [WireNext]_wireVars PROVE WireInv'
  <1>0. DecodeInv /\ CallInv /\ WireKinds'
    BY KindsStep DEF WireInv
  <1>1. CASE Feed
    <2>1. CallInv'
      BY <1>0, <1>1, CallKept DEF Feed, callVars
    <2> QED
      BY <1>0, <1>1, <2>1, FeedStep DEF WireInv
  <1>2. CASE DecodeFrame
    <2>1. CallInv'
      BY <1>0, <1>2, CallKept, DecodeCases DEF callVars
    <2> QED
      BY <1>0, <1>2, <2>1, DecodeStep DEF WireInv
  <1>3. CASE SendStep \/ ParseStep
    <2>1. DecodeInv'
      BY <1>0, <1>3, DecodeKept DEF SendStep, ParseStep, decodeVars
    <2> QED
      BY <1>0, <1>3, <2>1, CallStep DEF WireInv
  <1>4. CASE UNCHANGED wireVars
    BY <1>0, <1>4, DecodeKept, CallKept DEF WireInv, wireVars, decodeVars, callVars
  <1> QED
    BY <1>1, <1>2, <1>3, <1>4 DEF WireNext

\* Any log of the right frames, nothing of it fed yet.
LEMMA DecodeStarts == ASSUME log \in Seq(Frames), DecoderStart PROVE DecodeInv
  <1>1. fed = 0 /\ pending = <<>> /\ delivered = <<>> /\ exitCode = NoExit /\ corrupt = FALSE /\ settled = TRUE
    BY DEF DecoderStart
  <1>2. EndOf(log, 0) = 0
    BY BytesNone DEF EndOf
  <1>3. Bytes(log) \in Seq(Byte) /\ Len(Bytes(log)) \in Nat /\ Len(log) \in Nat
    BY BytesType
  <1>4. Taken(0)
    <2>1. SubSeq(Bytes(log), 0 + 1, 0) = <<>> /\ SubSeq(log, 1, 0) = <<>>
      BY <1>3
    <2>2. ~Ended(0) /\ SoundUpTo(0)
      BY DEF Ended, SoundUpTo
    <2> QED
      BY <1>1, <1>2, <2>1, <2>2 DEF Taken
  <1>5. 0 = Len(log) \/ 0 < EndOf(log, 0 + 1)
    <2> SUFFICES ASSUME 0 < Len(log) PROVE 0 < EndOf(log, 0 + 1)
      BY <1>3
    <2>1. PICK fb : fb = FrameBytes(log[0 + 1])
      OBVIOUS
    <2>2. log[0 + 1] \in Frames /\ EndOf(log, 0 + 1) = EndOf(log, 0) + Len(fb)
      BY <2>1, FrameAt
    <2>3. Len(fb) \in Nat /\ Len(fb) >= 3
      BY <2>1, <2>2, FrameFacts
    <2> QED
      BY <1>2, <2>2, <2>3
  <1>6. Stopped(0)
    BY <1>1, <1>5 DEF Stopped
  <1>7. 0 \in 0 .. Len(log) /\ fed \in 0 .. Len(Bytes(log))
    BY <1>1, <1>3
  <1> QED
    BY <1>4, <1>6, <1>7 DEF DecodeInv

\* Decoder and command line start with the invariant.
LEMMA WireStarts == WireInit => WireInv
  <1>1. ASSUME DecodeInit PROVE WireInv
    <2>1. log \in Seq(Frames)
      BY <1>1, WireAssumption DEF DecodeInit
    <2>2. DecodeInv
      BY <1>1, <2>1, DecodeStarts DEF DecodeInit
    <2> QED
      BY <1>1, <2>2 DEF DecodeInit, DecoderStart, WireInv, WireKinds, CallInv
  <1>2. ASSUME CallInit PROVE WireInv
    <2>1. log \in Seq(Frames) /\ DecoderStart
      BY <1>2 DEF CallInit
    <2>2. DecodeInv
      BY <2>1, DecodeStarts
    <2>3. CallInv
      BY <1>2 DEF CallInit, CallInv
    <2> QED
      BY <1>2, <2>1, <2>2, <2>3 DEF CallInit, DecoderStart, WireInv, WireKinds
  <1> QED
    BY <1>1, <1>2 DEF WireInit

\* The invariant has the types in it.
LEMMA WireInvTypes == WireInv => WireTypeOK
  <1> SUFFICES ASSUME WireInv PROVE WireTypeOK
    OBVIOUS
  <1>1. PICK n \in 0 .. Len(log) : Taken(n)
    BY DEF WireInv, DecodeInv
  <1>2. fed \in 0 .. Len(Bytes(log)) /\ pending \in Seq(Byte)
    BY <1>1, Held DEF WireInv, DecodeInv
  <1> QED
    BY <1>2 DEF WireInv, WireKinds, WireTypeOK

\* The invariant holds of every log and every command line.
LEMMA WireInvariance == WireSpec => []WireInv
  <1>1. WireInv /\ [WireNext]_wireVars => WireInv'
    BY WireStep
  <1> QED
    BY <1>1, WireStarts, PTL DEF WireSpec

\* The Decoder's bytes and the way of a command line stay in their types.
THEOREM WireTypeCorrect == WireSpec => []WireTypeOK
  BY WireInvariance, WireInvTypes, PTL

\* However a log, sound or not, is cut into chunks, between two Writes the Decoder
\* has passed on exactly the sound frames that have wholly arrived and the exit
\* code, sign included, exactly when its record has.
THEOREM PrefixDecoded == WireSpec => []DecodesPrefix
  <1>1. WireInv => DecodesPrefix
    BY DecodeInvPrefix DEF WireInv
  <1> QED
    BY <1>1, WireInvariance, PTL

\* Whatever the arguments and variables, a command starts with the arguments it
\* was sent and with one value per name: the one sent, or the pod's own last one.
THEOREM CallDelivered == WireSpec => []CallArrives
  <1>1. WireInv => CallArrives
    BY CallInvArrives DEF WireInv
  <1> QED
    BY <1>1, WireInvariance, PTL

============================================================================
