--------------------------- MODULE JobPlanProofs ---------------------------
(* For every class, request and set of flags: the Job's name is a DNS label   *)
(* of bounded length, the Job that BuildJob makes can be worked with, and     *)
(* BuildJob adds nothing that clashes with a class that is valid itself.      *)
EXTENDS JobPlan, SequenceTheorems, WellFoundedInduction, TLAPS

---------------------------------------------------------------------------
(* Numbers and sequences.                                                  *)

\* A set of naturals has a least element.
LEMMA LeastNat == ASSUME NEW T, T \subseteq Nat, T # {} PROVE \E x \in T : \A y \in T : x <= y
  <1>1. \E R : IsWellFoundedOn(R, Nat) /\ \A x, y \in Nat : <<y, x>> \in R <=> y < x
    <2>1. \A x, y \in Nat : <<y, x>> \in OpToRel(<, Nat) <=> y < x
      BY DEF OpToRel
    <2> QED
      BY <2>1, NatLessThanWellFounded, Zenon
  <1>2. PICK R : IsWellFoundedOn(R, Nat) /\ \A x, y \in Nat : <<y, x>> \in R <=> y < x
    BY <1>1
  <1>3. PICK x \in T : \A y \in T : ~ (<<y, x>> \in R)
    BY <1>2, WFMin, Zenon
  <1>4. \A y \in T : ~ (y < x) /\ y \in Nat /\ x \in Nat
    BY <1>2, <1>3
  <1>5. \A y \in T : x <= y
    BY <1>4
  <1> QED
    BY <1>5

\* Min is in its set and below all of it.
LEMMA MinFacts == ASSUME NEW T, T \subseteq Nat, T # {} PROVE Min(T) \in T /\ \A y \in T : Min(T) <= y
  <1>1. \E x \in T : \A y \in T : x <= y
    BY LeastNat
  <1> QED
    BY <1>1 DEF Min

\* Max is in its set and above all of it, if the set is bounded.
LEMMA MaxFacts ==
    ASSUME NEW n \in Nat, NEW T, T \subseteq 1 .. n, T # {}
    PROVE  Max(T) \in T /\ \A y \in T : Max(T) >= y
  <1> DEFINE D == {n - x : x \in T}
  <1>0. \A x \in T : n - x \in Nat /\ x \in Nat
    OBVIOUS
  <1>1. D \subseteq Nat /\ D # {}
    BY <1>0, Zenon
  <1>2. PICK d \in D : \A e \in D : d <= e
    BY <1>1, LeastNat
  <1>3. PICK x \in T : d = n - x
    OBVIOUS
  <1>4. \A y \in T : x >= y
    <2> SUFFICES ASSUME NEW y \in T PROVE x >= y
      OBVIOUS
    <2>1. n - y \in D
      OBVIOUS
    <2> QED
      BY <1>0, <1>2, <1>3, <2>1
  <1> QED
    BY <1>4 DEF Max

---------------------------------------------------------------------------
(* Names: newEnvID and dnsLabel.                                           *)

Safe == Letter \cup Digit \cup {"-"}

\* SafeChars replaces characters one by one.
LEMMA SafeFacts == ASSUME NEW s \in Name PROVE SafeChars(s) \in Seq(Safe) /\ Len(SafeChars(s)) = Len(s)
  <1>1. Len(s) \in Nat /\ DOMAIN s = 1 .. Len(s)
    BY DEF Name
  <1>2. \A i \in 1 .. Len(s) :
          (IF ToLower(s[i]) \in Letter \cup Digit THEN ToLower(s[i]) ELSE "-") \in Safe
    BY DEF Safe
  <1>3. SafeChars(s) \in [1 .. Len(s) -> Safe]
    BY <1>1, <1>2 DEF SafeChars
  <1> QED
    BY <1>1, <1>3

\* A part of a sequence.
LEMMA PartFacts ==
    ASSUME NEW S, NEW s \in Seq(S), NEW m \in 1 .. Len(s), NEW n \in 1 .. Len(s), m <= n
    PROVE  /\ SubSeq(s, m, n) \in Seq(S) /\ Len(SubSeq(s, m, n)) = n - m + 1
           /\ SubSeq(s, m, n)[1] = s[m] /\ SubSeq(s, m, n)[n - m + 1] = s[n]
  <1>1. \A i \in m .. n : s[i] \in S
    OBVIOUS
  <1>2. m \in Int /\ n \in Int
    OBVIOUS
  <1>3. /\ SubSeq(s, m, n) \in Seq(S)
        /\ Len(SubSeq(s, m, n)) = IF m <= n THEN n - m + 1 ELSE 0
        /\ \A i \in 1 .. n - m + 1 : SubSeq(s, m, n)[i] = s[m + i - 1]
    BY <1>1, <1>2, SubSeqProperties
  <1>4. 1 \in 1 .. n - m + 1 /\ n - m + 1 \in 1 .. n - m + 1 /\ m + 1 - 1 = m /\ m + (n - m + 1) - 1 = n
    BY <1>2
  <1> QED
    BY <1>3, <1>4

\* Two sequences joined.
LEMMA JoinFacts ==
    ASSUME NEW S, NEW s \in Seq(S), NEW t \in Seq(S)
    PROVE  /\ s \o t \in Seq(S) /\ Len(s \o t) = Len(s) + Len(t)
           /\ Len(s) \in Nat /\ Len(t) \in Nat
           /\ \A i \in 1 .. Len(s) : (s \o t)[i] = s[i]
           /\ \A i \in 1 .. Len(t) : (s \o t)[Len(s) + i] = t[i]
  OBVIOUS

\* Cut keeps a prefix.
LEMMA CutFacts ==
    ASSUME NEW S, NEW s \in Seq(S), NEW n \in Nat \ {0}
    PROVE  Cut(s, n) \in Seq(S) /\ Len(Cut(s, n)) <= n
  <1>1. CASE Len(s) > n
    <2>1. 1 \in 1 .. Len(s) /\ n \in 1 .. Len(s) /\ 1 <= n /\ n - 1 + 1 = n
      BY <1>1
    <2> QED
      BY <1>1, <2>1, PartFacts DEF Cut
  <1> QED
    BY <1>1 DEF Cut

\* The characters that are no "-".
LEMMA SolidFacts ==
    ASSUME NEW S, NEW s \in Seq(S), Solid(s) # {}
    PROVE  /\ Min(Solid(s)) \in 1 .. Len(s) /\ Max(Solid(s)) \in 1 .. Len(s)
           /\ s[Min(Solid(s))] # "-" /\ s[Max(Solid(s))] # "-"
           /\ \A i \in Solid(s) : Min(Solid(s)) <= i /\ i <= Max(Solid(s))
  <1>1. Len(s) \in Nat /\ Solid(s) \subseteq 1 .. Len(s) /\ Solid(s) \subseteq Nat
    BY DEF Solid
  <1>2. Min(Solid(s)) \in Solid(s) /\ \A i \in Solid(s) : Min(Solid(s)) <= i
    BY <1>1, MinFacts
  <1>3. Max(Solid(s)) \in Solid(s) /\ \A i \in Solid(s) : Max(Solid(s)) >= i
    BY <1>1, MaxFacts
  <1>4. \A i \in Solid(s) : i \in 1 .. Len(s) /\ s[i] # "-"
    BY <1>1 DEF Solid
  <1>5. \A i \in Solid(s) : i <= Max(Solid(s))
    BY <1>1, <1>3
  <1> QED
    BY <1>2, <1>3, <1>4, <1>5

\* strings.Trim leaves no "-" at either end.
LEMMA TrimFacts ==
    ASSUME NEW S, NEW s \in Seq(S)
    PROVE  /\ Trim(s) \in Seq(S) /\ Len(Trim(s)) <= Len(s)
           /\ Trim(s) # <<>> => Trim(s)[1] # "-" /\ Trim(s)[Len(Trim(s))] # "-"
  <1>1. CASE Solid(s) = {}
    BY <1>1 DEF Trim
  <1>2. CASE Solid(s) # {}
    <2>1. PICK m \in 1 .. Len(s), n \in 1 .. Len(s) :
            m = Min(Solid(s)) /\ n = Max(Solid(s)) /\ s[m] # "-" /\ s[n] # "-" /\ m <= n
      <3>1. Min(Solid(s)) \in 1 .. Len(s) /\ Max(Solid(s)) \in 1 .. Len(s)
        BY <1>2, SolidFacts
      <3>2. \A i \in Solid(s) : Min(Solid(s)) <= i /\ i <= Max(Solid(s)) /\ i \in 1 .. Len(s)
        <4>1. \A i \in Solid(s) : Min(Solid(s)) <= i /\ i <= Max(Solid(s))
          BY <1>2, SolidFacts
        <4>2. \A i \in Solid(s) : i \in 1 .. Len(s)
          BY DEF Solid
        <4> QED
          BY <4>1, <4>2
      <3>3. Min(Solid(s)) <= Max(Solid(s))
        BY <1>2, <3>1, <3>2
      <3>4. s[Min(Solid(s))] # "-" /\ s[Max(Solid(s))] # "-"
        BY <1>2, SolidFacts
      <3> QED
        BY <3>1, <3>3, <3>4
    <2>2. Trim(s) = SubSeq(s, m, n)
      BY <1>2, <2>1 DEF Trim
    <2>3. /\ Trim(s) \in Seq(S) /\ Len(Trim(s)) = n - m + 1
          /\ Trim(s)[1] = s[m] /\ Trim(s)[n - m + 1] = s[n]
      BY <2>1, <2>2, PartFacts
    <2> QED
      BY <2>1, <2>3
  <1> QED
    BY <1>1, <1>2

\* strings.TrimRight leaves no "-" at the end, and a first character that is none.
LEMMA TrimRightFacts ==
    ASSUME NEW S, NEW s \in Seq(S)
    PROVE  /\ TrimRight(s) \in Seq(S) /\ Len(TrimRight(s)) <= Len(s)
           /\ s # <<>> /\ s[1] # "-" => TrimRight(s) # <<>> /\ TrimRight(s)[1] = s[1]
  <1>1. CASE Solid(s) = {}
    <2>1. s # <<>> => 1 \in DOMAIN s
      OBVIOUS
    <2> QED
      BY <1>1, <2>1 DEF TrimRight, Solid
  <1>2. CASE Solid(s) # {}
    <2>1. PICK n \in 1 .. Len(s) : n = Max(Solid(s))
      BY <1>2, SolidFacts
    <2>2. TrimRight(s) = SubSeq(s, 1, n) /\ 1 \in 1 .. Len(s) /\ 1 <= n
      BY <1>2, <2>1 DEF TrimRight
    <2>3. TrimRight(s) \in Seq(S) /\ Len(TrimRight(s)) = n - 1 + 1 /\ TrimRight(s)[1] = s[1]
      BY <2>1, <2>2, PartFacts
    <2>4. TrimRight(s) # <<>>
      BY <2>1, <2>3
    <2> QED
      BY <2>1, <2>3, <2>4
  <1> QED
    BY <1>1, <1>2

\* newEnvID makes a DNS label that begins with a letter, of bounded length.
LEMMA EnvIDFacts ==
    ASSUME NEW s \in Name
    PROVE  /\ newEnvID(s) \in Seq(Safe) /\ DNSLabel(newEnvID(s)) /\ newEnvID(s)[1] \in Letter
           /\ Len(newEnvID(s)) <= MaxPrefix + Len(JobPrefix) + Len(Suffix)
  <1>0. JobPrefix \in Seq(Safe) /\ Suffix \in Seq(Safe) /\ Len(JobPrefix) = 2 /\ Len(Suffix) = 2
        /\ JobPrefix[1] = "j" /\ Suffix[1] = "-" /\ Suffix[2] = "h" /\ MaxPrefix \in Nat \ {0}
    BY PlanAssumption DEF JobPrefix, Suffix, Safe, Letter, Digit
  <1> DEFINE p == EnvPrefix(s)
             q == IF p = <<>> \/ p[1] \notin Letter THEN TrimRight(JobPrefix \o p) ELSE p
  <1>1. p \in Seq(Safe) /\ Len(p) <= MaxPrefix
    <2>1. Trim(SafeChars(s)) \in Seq(Safe)
      BY SafeFacts, TrimFacts
    <2>2. Cut(Trim(SafeChars(s)), MaxPrefix) \in Seq(Safe) /\ Len(Cut(Trim(SafeChars(s)), MaxPrefix)) <= MaxPrefix
      BY <1>0, <2>1, CutFacts
    <2>3. /\ p \in Seq(Safe) /\ Len(p) <= Len(Cut(Trim(SafeChars(s)), MaxPrefix))
      BY <2>2, TrimFacts DEF EnvPrefix
    <2> QED
      BY <1>0, <2>2, <2>3
  <1> HIDE DEF p
  <1>2. q \in Seq(Safe) /\ q # <<>> /\ q[1] \in Letter /\ Len(q) <= MaxPrefix + 2
    <2>1. CASE p = <<>> \/ p[1] \notin Letter
      <3>1. /\ JobPrefix \o p \in Seq(Safe) /\ Len(JobPrefix \o p) = 2 + Len(p)
            /\ (JobPrefix \o p)[1] = "j" /\ JobPrefix \o p # <<>>
        <4>0. JobPrefix \in Seq(Safe) /\ p \in Seq(Safe)
          BY <1>0, <1>1
        <4>1. /\ JobPrefix \o p \in Seq(Safe) /\ Len(JobPrefix \o p) = Len(JobPrefix) + Len(p)
              /\ Len(p) \in Nat /\ \A i \in 1 .. Len(JobPrefix) : (JobPrefix \o p)[i] = JobPrefix[i]
          <5> HIDE DEF q
          <5> QED
            BY <4>0, JoinFacts
        <4>2. (JobPrefix \o p)[1] = "j" /\ Len(JobPrefix \o p) # 0
          BY <1>0, <4>1
        <4>3. JobPrefix \o p # <<>>
          BY <4>1, <4>2
        <4> QED
          BY <1>0, <4>1, <4>2, <4>3
      <3>2. PICK t \in Seq(Safe) : t = JobPrefix \o p
        BY <3>1
      <3>3. /\ TrimRight(t) \in Seq(Safe) /\ Len(TrimRight(t)) <= Len(t)
            /\ TrimRight(t) # <<>> /\ TrimRight(t)[1] = t[1]
        BY <3>1, <3>2, TrimRightFacts
      <3>4. q = TrimRight(t)
        BY <2>1, <3>2
      <3>5. Len(q) <= MaxPrefix + 2
        BY <1>0, <1>1, <3>1, <3>2, <3>3, <3>4
      <3> QED
        BY <3>1, <3>2, <3>3, <3>4, <3>5 DEF Letter
    <2>2. CASE ~(p = <<>> \/ p[1] \notin Letter)
      BY <1>0, <1>1, <2>2
    <2> QED
      BY <2>1, <2>2
  <1>3. newEnvID(s) = q \o Suffix
    BY DEF newEnvID, p
  <1> HIDE DEF q
  <1>4. PICK e \in Seq(Safe) : e = q \o Suffix
    BY <1>0, <1>2, JoinFacts
  <1>5. /\ Len(e) = Len(q) + 2 /\ e[1] = q[1] /\ e[Len(q) + 2] = "h" /\ e # <<>>
    <2>1. /\ Len(e) = Len(q) + Len(Suffix) /\ Len(q) \in Nat
          /\ \A i \in 1 .. Len(q) : e[i] = q[i]
          /\ \A i \in 1 .. Len(Suffix) : e[Len(q) + i] = Suffix[i]
      <3>1. PICK a, b : a = q /\ b = Suffix
        OBVIOUS
      <3>2. a \in Seq(Safe) /\ b \in Seq(Safe) /\ e = a \o b
        BY <1>0, <1>2, <1>4, <3>1
      <3>3. /\ Len(e) = Len(a) + Len(b) /\ Len(a) \in Nat
            /\ \A i \in 1 .. Len(a) : e[i] = a[i]
            /\ \A i \in 1 .. Len(b) : e[Len(a) + i] = b[i]
        BY <3>2, JoinFacts
      <3> QED
        BY <3>1, <3>3
    <2>2. Len(q) # 0
      BY <1>2
    <2>3. 1 \in 1 .. Len(q) /\ 2 \in 1 .. Len(Suffix)
      BY <1>0, <2>1, <2>2
    <2>4. e[1] = q[1] /\ e[Len(q) + 2] = "h" /\ Len(e) = Len(q) + 2
      BY <1>0, <2>1, <2>3
    <2> QED
      BY <2>1, <2>4
  <1>6. DNSLabel(e)
    <2>1. \A i \in DOMAIN e : e[i] \in Safe
      OBVIOUS
    <2>2. e[1] # "-" /\ e[Len(e)] # "-"
      BY <1>2, <1>5 DEF Letter
    <2> QED
      BY <1>5, <2>1, <2>2 DEF DNSLabel, Safe
  <1> QED
    BY <1>0, <1>2, <1>3, <1>4, <1>5, <1>6

\* The parts of names; they are strings, which the provers do not see of a literal.
Part == STRING \cup Safe \cup {"svc", "main", "helper"}

\* dnsLabel makes a name.
LEMMA LabelFacts == ASSUME NEW s \in Name PROVE dnsLabel(s) \in Seq(Part) /\ Named(dnsLabel(s)) \in Seq(Part)
  <1>1. Trim(SafeChars(s)) \in Seq(Safe)
    BY SafeFacts, TrimFacts
  <1>2. Cut(Trim(SafeChars(s)), MaxLabel) \in Seq(Safe)
    BY <1>1, PlanAssumption, CutFacts
  <1>3. TrimRight(Cut(Trim(SafeChars(s)), MaxLabel)) \in Seq(Safe)
    BY <1>2, TrimRightFacts
  <1>4. Safe \subseteq Part
    BY DEF Part
  <1>5. Service \in Seq(Part) /\ <<"svc">> \in Seq(Part)
    <2>1. "j" \in Part /\ "a" \in Part /\ "b" \in Part /\ "svc" \in Part
      BY DEF Part, Safe, Letter
    <2> QED
      BY <2>1 DEF Service
  <1>6. dnsLabel(s) \in Seq(Part)
    <2>1. PICK t \in Seq(Safe) : t = TrimRight(Cut(Trim(SafeChars(s)), MaxLabel))
      BY <1>3
    <2>2. t \in Seq(Part)
      BY <1>4, SeqMonotonic
    <2> QED
      BY <1>5, <2>1, <2>2 DEF dnsLabel
  <1>7. <<"svc">> \o dnsLabel(s) \in Seq(Part)
    BY <1>5, <1>6, JoinFacts
  <1> QED
    BY <1>6, <1>7 DEF Named

---------------------------------------------------------------------------
(* What each step of BuildJob does to the podspec.                         *)

Fields == {"containers", "inits", "volumes", "image", "mounts", "hosts"}

\* A podspec has these fields.
LEMMA SpecFields == ASSUME NEW ps \in PodSpec PROVE DOMAIN ps = Fields
  BY DEF PodSpec, Fields

MainMounts(ps) == IF HasMain(ps) THEN ps.mounts ELSE <<>>
WithSharedMount(ms) ==
    IF SharedMounts(ms) = {} THEN Append(ms, MountAt(Shared, SharedMount))
    ELSE [ms EXCEPT ![Min(SharedMounts(ms))].path = SharedMount]

\* setupMain changes main's container, image and mounts.
LEMMA SetupFacts ==
    ASSUME NEW ps, DOMAIN ps = Fields, NEW b
    PROVE  LET r == setupMain(ps, b) IN
           /\ DOMAIN r = Fields
           /\ r.containers = IF HasMain(ps) THEN ps.containers ELSE <<Main>> \o ps.containers
           /\ r.image = IF b.image # "" THEN b.image ELSE IF HasMain(ps) THEN ps.image ELSE ""
           /\ r.mounts = WithSharedMount(MainMounts(ps))
           /\ r.inits = ps.inits /\ r.volumes = ps.volumes /\ r.hosts = ps.hosts
  BY DEF setupMain, WithSharedMount, MainMounts, Fields

ServiceNames(services) == [i \in DOMAIN services |-> Named(dnsLabel(services[i].name))]

HostNames(services) == {services[i].name : i \in DOMAIN services}

\* addServices adds init containers and host aliases.
LEMMA ServicesFacts ==
    ASSUME NEW ps, DOMAIN ps = Fields, NEW services
    PROVE  LET r == addServices(ps, services) IN
           /\ DOMAIN r = Fields
           /\ r.inits = IF services = <<>> THEN ps.inits ELSE ps.inits \o ServiceNames(services)
           /\ r.hosts = IF services = <<>> THEN ps.hosts ELSE ps.hosts \cup HostNames(services)
           /\ r.containers = ps.containers /\ r.volumes = ps.volumes /\ r.image = ps.image
           /\ r.mounts = ps.mounts
  BY DEF addServices, ServiceNames, HostNames, Fields

\* addHelper adds the helper's init container, volume and mount.
LEMMA HelperFacts ==
    ASSUME NEW ps, DOMAIN ps = Fields, NEW image
    PROVE  LET r == addHelper(ps, image) IN
           /\ DOMAIN r = Fields
           /\ r.inits = IF image = "" THEN ps.inits ELSE <<Helper>> \o ps.inits
           /\ r.volumes = IF image = "" THEN ps.volumes ELSE Append(ps.volumes, HelperVolume)
           /\ r.mounts = IF image = "" THEN ps.mounts
                         ELSE Append(ps.mounts, MountAt(HelperVolume, HelperMount))
           /\ r.containers = ps.containers /\ r.image = ps.image /\ r.hosts = ps.hosts
  BY DEF addHelper, Fields

HasShared(vs) == \E i \in DOMAIN vs : vs[i] = Shared

\* addSharedVolume adds the shared volume unless there is one.
LEMMA SharedFacts ==
    ASSUME NEW ps, DOMAIN ps = Fields
    PROVE  LET r == addSharedVolume(ps) IN
           /\ DOMAIN r = Fields
           /\ r.volumes = IF HasShared(ps.volumes) THEN ps.volumes ELSE Append(ps.volumes, Shared)
           /\ r.containers = ps.containers /\ r.image = ps.image /\ r.hosts = ps.hosts
           /\ r.inits = ps.inits /\ r.mounts = ps.mounts
  BY DEF addSharedVolume, HasShared, Fields

\* What Create passes to BuildJob.
Buildable(b) == b.spec \in PodSpec /\ b.services \in Seq([name : Name, ports : SUBSET Ports])

InitNames(b) == IF b.services = <<>> THEN b.spec.inits ELSE b.spec.inits \o ServiceNames(b.services)
Containers(b) == IF HasMain(b.spec) THEN b.spec.containers ELSE <<Main>> \o b.spec.containers
Volumes(b) == IF b.helperImage = "" THEN b.spec.volumes ELSE Append(b.spec.volumes, HelperVolume)
Mounts(b) == WithSharedMount(MainMounts(b.spec))

\* The podspec of the Job.
LEMMA BuiltFacts ==
    ASSUME NEW b, Buildable(b)
    PROVE  LET r == BuildJob(b).spec IN
           /\ r.containers = Containers(b)
           /\ r.image = IF b.image # "" THEN b.image ELSE IF HasMain(b.spec) THEN b.spec.image ELSE ""
           /\ r.inits = IF b.helperImage = "" THEN InitNames(b) ELSE <<Helper>> \o InitNames(b)
           /\ r.volumes = IF HasShared(Volumes(b)) THEN Volumes(b) ELSE Append(Volumes(b), Shared)
           /\ r.mounts = IF b.helperImage = "" THEN Mounts(b)
                         ELSE Append(Mounts(b), MountAt(HelperVolume, HelperMount))
           /\ r.hosts = IF b.services = <<>> THEN b.spec.hosts ELSE b.spec.hosts \cup HostNames(b.services)
  <1>1. DOMAIN b.spec = Fields
    BY SpecFields DEF Buildable
  <1>2. PICK p1 : p1 = setupMain(b.spec, b)
    OBVIOUS
  <1>3. /\ DOMAIN p1 = Fields /\ p1.containers = Containers(b)
        /\ p1.image = IF b.image # "" THEN b.image ELSE IF HasMain(b.spec) THEN b.spec.image ELSE ""
        /\ p1.mounts = Mounts(b) /\ p1.inits = b.spec.inits
        /\ p1.volumes = b.spec.volumes /\ p1.hosts = b.spec.hosts
    BY <1>1, <1>2, SetupFacts DEF Containers, Mounts
  <1>4. PICK p2 : p2 = addServices(p1, b.services)
    OBVIOUS
  <1>5. /\ DOMAIN p2 = Fields /\ p2.inits = InitNames(b)
        /\ p2.hosts = IF b.services = <<>> THEN b.spec.hosts ELSE b.spec.hosts \cup HostNames(b.services)
        /\ p2.containers = p1.containers /\ p2.volumes = p1.volumes /\ p2.image = p1.image
        /\ p2.mounts = p1.mounts
    <2>1. PICK sv : sv = b.services
      OBVIOUS
    <2>2. DOMAIN p1 = Fields /\ p2 = addServices(p1, sv)
      BY <1>3, <1>4, <2>1
    <2>3. /\ DOMAIN p2 = Fields
          /\ p2.inits = IF sv = <<>> THEN p1.inits ELSE p1.inits \o ServiceNames(sv)
          /\ p2.hosts = IF sv = <<>> THEN p1.hosts ELSE p1.hosts \cup HostNames(sv)
          /\ p2.containers = p1.containers /\ p2.volumes = p1.volumes /\ p2.image = p1.image
          /\ p2.mounts = p1.mounts
      BY <2>2, ServicesFacts
    <2> QED
      BY <1>3, <2>1, <2>3 DEF InitNames
  <1>6. PICK p3 : p3 = addHelper(p2, b.helperImage)
    OBVIOUS
  <1>7. /\ DOMAIN p3 = Fields
        /\ p3.inits = IF b.helperImage = "" THEN p2.inits ELSE <<Helper>> \o p2.inits
        /\ p3.volumes = IF b.helperImage = "" THEN p2.volumes ELSE Append(p2.volumes, HelperVolume)
        /\ p3.mounts = IF b.helperImage = "" THEN p2.mounts
                       ELSE Append(p2.mounts, MountAt(HelperVolume, HelperMount))
        /\ p3.containers = p2.containers /\ p3.image = p2.image /\ p3.hosts = p2.hosts
    BY <1>5, <1>6, HelperFacts
  <1>8. PICK p4 : p4 = addSharedVolume(p3)
    OBVIOUS
  <1>9. /\ p4.volumes = IF HasShared(p3.volumes) THEN p3.volumes ELSE Append(p3.volumes, Shared)
        /\ p4.containers = p3.containers /\ p4.image = p3.image /\ p4.hosts = p3.hosts
        /\ p4.inits = p3.inits /\ p4.mounts = p3.mounts
    BY <1>7, <1>8, SharedFacts
  <1>10. BuildJob(b).spec = p4
    BY <1>2, <1>4, <1>6, <1>8 DEF BuildJob
  <1>11. p3.volumes = Volumes(b)
    BY <1>3, <1>5, <1>7 DEF Volumes
  <1> QED
    BY <1>3, <1>5, <1>7, <1>9, <1>10, <1>11

---------------------------------------------------------------------------
(* Names and mounts of the built podspec.                                  *)

Label == Seq(Part)

\* The names a podspec and services bring are sequences.
LEMMA NamesFacts ==
    ASSUME NEW b, Buildable(b)
    PROVE  /\ b.spec.inits \in Seq(Label) /\ b.spec.containers \in Seq(Label)
           /\ ServiceNames(b.services) \in Seq(Label) /\ InitNames(b) \in Seq(Label)
           /\ Main \in Label /\ Helper \in Label /\ Containers(b) \in Seq(Label)
  <1>1. Name \subseteq Label
    <2>1. STRING \subseteq Part
      BY DEF Part
    <2> QED
      BY <2>1, SeqMonotonic DEF Name, Label
  <1>2. b.spec.inits \in Seq(Name) /\ b.spec.containers \in Seq(Name)
    BY DEF Buildable, PodSpec
  <1>3. b.spec.inits \in Seq(Label) /\ b.spec.containers \in Seq(Label)
    BY <1>1, <1>2, SeqMonotonic
  <1>4. Main \in Label /\ Helper \in Label
    <2>1. "main" \in Part /\ "helper" \in Part
      BY DEF Part
    <2> QED
      BY <2>1 DEF Main, Helper, Label
  <1>5. ServiceNames(b.services) \in Seq(Label)
    <2>1. PICK sv \in Seq([name : Name, ports : SUBSET Ports]) : sv = b.services
      BY DEF Buildable
    <2>2. DOMAIN sv = 1 .. Len(sv) /\ Len(sv) \in Nat /\ \A i \in 1 .. Len(sv) : sv[i].name \in Name
      <3>1. \A i \in 1 .. Len(sv) : sv[i] \in [name : Name, ports : SUBSET Ports]
        BY <2>1, ElementOfSeq
      <3> QED
        BY <3>1
    <2>3. \A i \in 1 .. Len(sv) : Named(dnsLabel(sv[i].name)) \in Label
      BY <2>2, LabelFacts DEF Label
    <2>4. ServiceNames(sv) \in [1 .. Len(sv) -> Label]
      BY <2>2, <2>3 DEF ServiceNames
    <2> QED
      BY <2>1, <2>2, <2>4
  <1>6. InitNames(b) \in Seq(Label)
    BY <1>3, <1>5, JoinFacts DEF InitNames
  <1>7. Containers(b) \in Seq(Label)
    <2>1. <<Main>> \in Seq(Label)
      BY <1>4
    <2> QED
      BY <1>3, <2>1, JoinFacts DEF Containers
  <1> QED
    BY <1>3, <1>4, <1>5, <1>6, <1>7

MountP == [volume : STRING \cup {Shared, HelperVolume}, path : STRING \cup {SharedMount, HelperMount}]

\* main has one mount that setupMain made the workspace; the others are the class's.
LEMMA MountFacts ==
    ASSUME NEW ms \in Seq(MountP)
    PROVE  /\ WithSharedMount(ms) \in Seq(MountP)
           /\ \E m \in 1 .. Len(WithSharedMount(ms)) :
                /\ WithSharedMount(ms)[m] = MountAt(Shared, SharedMount)
                /\ \A i \in 1 .. Len(WithSharedMount(ms)) :
                     i # m => i \in 1 .. Len(ms) /\ WithSharedMount(ms)[i] = ms[i]
                /\ m \in 1 .. Len(ms) => ms[m].volume = Shared
                /\ m \notin 1 .. Len(ms) => SharedMounts(ms) = {}
  <1>0. Len(ms) \in Nat /\ DOMAIN ms = 1 .. Len(ms) /\ \A i \in 1 .. Len(ms) : ms[i] \in MountP
    BY LenProperties, ElementOfSeq
  <1>1. MountAt(Shared, SharedMount) \in MountP
    BY DEF MountAt, MountP
  <1>2. CASE SharedMounts(ms) = {}
    <2>1. PICK e \in MountP : e = MountAt(Shared, SharedMount)
      BY <1>1
    <2>2. /\ Append(ms, e) \in Seq(MountP) /\ Len(Append(ms, e)) = Len(ms) + 1
          /\ \A i \in 1 .. Len(ms) : Append(ms, e)[i] = ms[i]
          /\ Append(ms, e)[Len(ms) + 1] = e
      BY AppendProperties
    <2>3. WithSharedMount(ms) = Append(ms, e)
      BY <1>2, <2>1 DEF WithSharedMount
    <2>4. Len(ms) + 1 \in 1 .. Len(ms) + 1 /\ Len(ms) + 1 \notin 1 .. Len(ms)
          /\ \A i \in 1 .. Len(ms) + 1 : i # Len(ms) + 1 => i \in 1 .. Len(ms)
      BY <1>0
    <2> QED
      BY <1>2, <2>1, <2>2, <2>3, <2>4
  <1>3. CASE SharedMounts(ms) # {}
    <2>1. SharedMounts(ms) \subseteq 1 .. Len(ms) /\ SharedMounts(ms) \subseteq Nat
      BY <1>0 DEF SharedMounts
    <2>2. PICK m \in SharedMounts(ms) : m = Min(SharedMounts(ms))
      BY <1>3, <2>1, MinFacts
    <2>3. m \in 1 .. Len(ms) /\ ms[m].volume = Shared
      BY <1>0, <2>2 DEF SharedMounts
    <2>4. PICK e : e = [ms[m] EXCEPT !.path = SharedMount]
      OBVIOUS
    <2>5. e = MountAt(Shared, SharedMount)
      BY <1>0, <2>3, <2>4 DEF MountAt, MountP
    <2>6. WithSharedMount(ms) = [ms EXCEPT ![m] = e]
      BY <1>3, <2>2, <2>4 DEF WithSharedMount
    <2>7. /\ [ms EXCEPT ![m] = e] \in Seq(MountP) /\ Len([ms EXCEPT ![m] = e]) = Len(ms)
          /\ \A i \in 1 .. Len(ms) : [ms EXCEPT ![m] = e][i] = IF i = m THEN e ELSE ms[i]
      <3>1. e \in MountP
        BY <1>1, <2>5
      <3> QED
        BY <2>3, <3>1, ExceptSeq
    <2>8. PICK r : r = [ms EXCEPT ![m] = e]
      OBVIOUS
    <2>9. /\ r \in Seq(MountP) /\ Len(r) = Len(ms) /\ r[m] = e
          /\ \A i \in 1 .. Len(ms) : i # m => r[i] = ms[i]
      BY <2>3, <2>7, <2>8
    <2> QED
      BY <2>3, <2>5, <2>6, <2>8, <2>9
  <1> QED
    BY <1>2, <1>3

\* The mounts of main.
LEMMA BuiltMounts ==
    ASSUME NEW b, Buildable(b)
    PROVE  /\ MainMounts(b.spec) \in Seq(MountP) /\ Mounts(b) \in Seq(MountP)
           /\ MountAt(HelperVolume, HelperMount) \in MountP
           /\ b.spec.mounts \in Seq(MountP)
  <1>1. Mount \subseteq MountP
    BY DEF Mount, MountP
  <1>2. b.spec.mounts \in Seq(Mount)
    BY DEF Buildable, PodSpec
  <1>3. b.spec.mounts \in Seq(MountP)
    BY <1>1, <1>2, SeqMonotonic
  <1>4. MainMounts(b.spec) \in Seq(MountP)
    BY <1>3 DEF MainMounts
  <1>5. Mounts(b) \in Seq(MountP)
    BY <1>4, MountFacts DEF Mounts
  <1> QED
    BY <1>3, <1>4, <1>5 DEF MountAt, MountP

\* The plugin can work with what BuildJob makes: main and its workspace, the helper
\* first and where steps look for it, and the labels that say whose the Job is.
LEMMA BuildIsUsable ==
    ASSUME NEW b, Buildable(b)
    PROVE  LET j == BuildJob(b) IN
           /\ HasMain(j.spec)
           /\ \E i \in DOMAIN j.spec.mounts : j.spec.mounts[i] = MountAt(Shared, SharedMount)
           /\ b.helperImage # "" =>
                /\ j.spec.inits[1] = Helper
                /\ \E i \in DOMAIN j.spec.mounts : j.spec.mounts[i] = MountAt(HelperVolume, HelperMount)
           /\ j.labels.managed = "us" /\ j.labels.envid = b.envID /\ j.labels.instance = b.instance
  <1>1. PICK r : r = BuildJob(b).spec
    OBVIOUS
  <1>2. /\ r.containers = Containers(b)
        /\ r.inits = IF b.helperImage = "" THEN InitNames(b) ELSE <<Helper>> \o InitNames(b)
        /\ r.mounts = IF b.helperImage = "" THEN Mounts(b)
                      ELSE Append(Mounts(b), MountAt(HelperVolume, HelperMount))
    BY <1>1, BuiltFacts
  <1>3. HasMain(r)
    <2>1. CASE HasMain(b.spec)
      BY <1>2, <2>1 DEF HasMain, Containers
    <2>2. CASE ~HasMain(b.spec)
      <3>1. <<Main>> \in Seq(Label) /\ b.spec.containers \in Seq(Label) /\ Len(<<Main>>) = 1 /\ <<Main>>[1] = Main
        BY NamesFacts
      <3>2. PICK c : c = <<Main>> \o b.spec.containers
        OBVIOUS
      <3>3. c \in Seq(Label) /\ Len(c) = 1 + Len(b.spec.containers) /\ c[1] = Main /\ Len(b.spec.containers) \in Nat
        BY <3>1, <3>2, JoinFacts
      <3>4. 1 \in DOMAIN c
        BY <3>3
      <3>5. r.containers = c
        BY <1>2, <2>2, <3>2 DEF Containers
      <3> QED
        BY <3>3, <3>4, <3>5 DEF HasMain
    <2> QED
      BY <2>1, <2>2
  <1>4. PICK ms \in Seq(MountP), e \in MountP : ms = Mounts(b) /\ e = MountAt(HelperVolume, HelperMount)
    BY BuiltMounts
  <1>5. PICK m \in 1 .. Len(ms) : ms[m] = MountAt(Shared, SharedMount)
    BY <1>4, BuiltMounts, MountFacts DEF Mounts
  <1>6. /\ Len(ms) \in Nat /\ Append(ms, e) \in Seq(MountP) /\ Len(Append(ms, e)) = Len(ms) + 1
        /\ \A i \in 1 .. Len(ms) : Append(ms, e)[i] = ms[i]
        /\ Append(ms, e)[Len(ms) + 1] = e
    BY AppendProperties, LenProperties
  <1>7. m \in DOMAIN ms /\ m \in DOMAIN Append(ms, e) /\ Len(ms) + 1 \in DOMAIN Append(ms, e)
    BY <1>6
  <1>8. \E i \in DOMAIN r.mounts : r.mounts[i] = MountAt(Shared, SharedMount)
    BY <1>2, <1>4, <1>5, <1>6, <1>7
  <1>9. ASSUME b.helperImage # ""
        PROVE  /\ r.inits[1] = Helper
               /\ \E i \in DOMAIN r.mounts : r.mounts[i] = MountAt(HelperVolume, HelperMount)
    <2>1. <<Helper>> \in Seq(Label) /\ InitNames(b) \in Seq(Label) /\ Len(<<Helper>>) = 1 /\ <<Helper>>[1] = Helper
      BY NamesFacts
    <2>2. (<<Helper>> \o InitNames(b))[1] = Helper
      BY <2>1, JoinFacts
    <2> QED
      BY <1>2, <1>4, <1>6, <1>7, <1>9, <2>2
  <1>10. LET l == BuildJob(b).labels IN l.managed = "us" /\ l.envid = b.envID /\ l.instance = b.instance
    <2>1. DOMAIN Ownership(b) = {"managed", "instance", "envid"}
      BY DEF Ownership
    <2>2. BuildJob(b).labels = jobLabels(b)
      BY DEF BuildJob
    <2>3. \A k \in DOMAIN Ownership(b) : jobLabels(b)[k] = Ownership(b)[k]
      BY DEF jobLabels
    <2> QED
      BY <2>1, <2>2, <2>3 DEF Ownership
  <1> QED
    BY <1>1, <1>3, <1>8, <1>9, <1>10

---------------------------------------------------------------------------
(* The invariant.                                                          *)

\* What Create keeps is the request's input, checked; what is sent is its Job.
PlanInv ==
    /\ phase \in {"off", "flags", "refused", "serving", "invalid", "created", "accepted", "rejected"}
    /\ phase # "off" => req \in Requests
    /\ phase \in {"created", "accepted", "rejected"} => in = Input /\ Loadable(SpecPath) /\ BuildOk(in)
    /\ Submitted => job = BuildJob(in)
    /\ phase = "rejected" => ~JobValid(job, sentTo)

\* Every step keeps the invariant (run, parseInput, Create).
LEMMA PlanStep == ASSUME PlanInv, [PlanNext]_planVars PROVE PlanInv'
  <1>0. ASSUME UNCHANGED <<flags, req>> PROVE UNCHANGED <<Input, SpecPath>>
    BY <1>0 DEF Input, SpecPath
  <1>1. CASE Serve
    BY <1>0, <1>1 DEF Serve, PlanInv, Submitted
  <1>2. CASE Create
    BY <1>0, <1>2 DEF Create, PlanInv, Submitted
  <1>3. CASE Submit
    BY <1>0, <1>3 DEF Submit, PlanInv, Submitted
  <1>4. CASE UNCHANGED planVars
    BY <1>0, <1>4 DEF planVars, PlanInv, Submitted
  <1> QED
    BY <1>1, <1>2, <1>3, <1>4 DEF PlanNext

\* The invariant holds of the plugin that starts and of every step of it.
LEMMA PlanInductive == PlanSpec => []PlanInv
  <1>1. PlanInit => PlanInv
    BY DEF PlanInit, PlanInv, Submitted
  <1>2. PlanInv /\ [PlanNext]_planVars => PlanInv'
    BY PlanStep
  <1> QED
    BY <1>1, <1>2, PTL DEF PlanSpec

\* The input Create keeps fits BuildJob's types.
LEMMA InputFacts ==
    ASSUME PlanInv, phase \in {"created", "accepted", "rejected"}
    PROVE  /\ Buildable(in) /\ in.envID = newEnvID(req.name) /\ req.name \in Name
           /\ in.helperImage = flags.helperImage
  <1>1. in = Input /\ Loadable(SpecPath) /\ req \in Requests
    BY DEF PlanInv
  <1>2. Classes[SpecPath] \in PodSpec /\ req.name \in Name
        /\ req.services \in Seq([name : Name, ports : SUBSET Ports])
    BY <1>1, PlanAssumption DEF Loadable
  <1>3. /\ in.spec = Classes[SpecPath] /\ in.services = req.services /\ in.envID = newEnvID(req.name)
        /\ in.helperImage = flags.helperImage
    BY <1>1 DEF Input
  <1> QED
    BY <1>2, <1>3 DEF Buildable

\* The invariant makes every Job handed to the API server usable.
LEMMA PlanUsable == ASSUME PlanInv PROVE JobUsable
  <1> SUFFICES ASSUME phase = "accepted" PROVE JobUsable
    BY DEF JobUsable
  <1>1. Buildable(in) /\ in.helperImage = flags.helperImage /\ job = BuildJob(in)
    BY InputFacts DEF PlanInv, Submitted
  <1> QED
    BY <1>1, BuildIsUsable DEF JobUsable

\* Its name is newEnvID's.
LEMMA PlanNamed == ASSUME PlanInv PROVE EnvIdValid
  <1> SUFFICES ASSUME Submitted PROVE EnvIdValid
    BY DEF EnvIdValid
  <1>1. in.envID = newEnvID(req.name) /\ req.name \in Name /\ job = BuildJob(in)
    BY InputFacts DEF PlanInv, Submitted
  <1>2. job.name = newEnvID(req.name)
    BY <1>1 DEF BuildJob
  <1> QED
    BY <1>1, <1>2, EnvIDFacts DEF EnvIdValid

\* And so is the id in the input.
LEMMA PlanTyped == ASSUME PlanInv PROVE PlanTypeOK
  <1>1. phase \in {"created", "accepted", "rejected"} => in.envID \in Seq(Letter \cup Digit \cup {"-"})
    BY InputFacts, EnvIDFacts DEF Safe
  <1> QED
    BY <1>1 DEF PlanInv, PlanTypeOK

\* Every Job handed to the API server can be worked with and found again, whatever
\* class, options and request it was made from (BuildJob, jobLabels, addHelper).
THEOREM JobsAreUsable == PlanSpec => []JobUsable
  <1>1. PlanInv => JobUsable
    BY PlanUsable
  <1> QED
    BY <1>1, PlanInductive, PTL

\* newEnvID: whatever the runner calls the job, the Job's name is a DNS label that
\* begins with a letter and leaves room for the pods' suffix.
THEOREM JobNamesAreValid == PlanSpec => []EnvIdValid
  <1>1. PlanInv => EnvIdValid
    BY PlanNamed
  <1> QED
    BY <1>1, PlanInductive, PTL

\* Create's input always has a well-formed environment id.
THEOREM PlanTypeCorrect == PlanSpec => []PlanTypeOK
  <1>1. PlanInv => PlanTypeOK
    BY PlanTyped
  <1> QED
    BY <1>1, PlanInductive, PTL

---------------------------------------------------------------------------
(* BuildJob adds nothing that clashes.                                     *)

Apart(s, t) == \A i \in DOMAIN s, k \in DOMAIN t : s[i] # t[k]

\* Names are distinct in joined lists if they are in each and between them.
LEMMA DistinctJoin ==
    ASSUME NEW S, NEW s \in Seq(S), NEW t \in Seq(S)
    PROVE  Distinct(s \o t) <=> Distinct(s) /\ Distinct(t) /\ Apart(s, t)
  <1>1. PICK n \in Nat, m \in Nat : n = Len(s) /\ m = Len(t) /\ DOMAIN s = 1 .. n /\ DOMAIN t = 1 .. m
    OBVIOUS
  <1>2. PICK j : j = s \o t
    OBVIOUS
  <1>3. DOMAIN j = 1 .. n + m /\ (\A i \in 1 .. n : j[i] = s[i]) /\ (\A i \in 1 .. m : j[n + i] = t[i])
    BY <1>1, <1>2, JoinFacts
  <1>4. ASSUME Distinct(j) PROVE Distinct(s) /\ Distinct(t) /\ Apart(s, t)
    <2>1. \A a, c \in 1 .. n + m : j[a] = j[c] => a = c
      BY <1>3, <1>4 DEF Distinct
    <2>2. \A i \in 1 .. n : i \in 1 .. n + m
      OBVIOUS
    <2>3. \A i \in 1 .. m : n + i \in 1 .. n + m
      OBVIOUS
    <2>4. \A i, k \in 1 .. n : s[i] = s[k] => i = k
      BY <1>3, <2>1, <2>2
    <2>5. \A i, k \in 1 .. m : t[i] = t[k] => i = k
      <3> SUFFICES ASSUME NEW i \in 1 .. m, NEW k \in 1 .. m, t[i] = t[k] PROVE i = k
        OBVIOUS
      <3>1. n + i = n + k
        BY <1>3, <2>1, <2>3
      <3> QED
        BY <3>1
    <2>6. \A i \in 1 .. n, k \in 1 .. m : s[i] # t[k]
      <3> SUFFICES ASSUME NEW i \in 1 .. n, NEW k \in 1 .. m, s[i] = t[k] PROVE FALSE
        OBVIOUS
      <3>1. i = n + k
        BY <1>3, <2>1, <2>2, <2>3
      <3> QED
        BY <3>1
    <2> QED
      BY <1>1, <2>4, <2>5, <2>6 DEF Distinct, Apart
  <1>5. ASSUME Distinct(s), Distinct(t), Apart(s, t) PROVE Distinct(j)
    <2>1. \A a \in 1 .. n + m : a \in 1 .. n \/ \E i \in 1 .. m : a = n + i
      <3> SUFFICES ASSUME NEW a \in 1 .. n + m, a \notin 1 .. n PROVE \E i \in 1 .. m : a = n + i
        OBVIOUS
      <3>1. a - n \in 1 .. m /\ a = n + (a - n)
        OBVIOUS
      <3> QED
        BY <3>1
    <2> SUFFICES ASSUME NEW a \in 1 .. n + m, NEW c \in 1 .. n + m, j[a] = j[c] PROVE a = c
      BY <1>3 DEF Distinct
    <2>2. CASE a \in 1 .. n /\ c \in 1 .. n
      BY <1>1, <1>3, <1>5, <2>2 DEF Distinct
    <2>3. CASE a \in 1 .. n /\ c \notin 1 .. n
      <3>1. PICK k \in 1 .. m : c = n + k
        BY <2>1, <2>3
      <3>2. s[a] = t[k]
        BY <1>3, <2>3, <3>1
      <3> QED
        BY <1>1, <1>5, <2>3, <3>2 DEF Apart
    <2>4. CASE a \notin 1 .. n /\ c \in 1 .. n
      <3>1. PICK k \in 1 .. m : a = n + k
        BY <2>1, <2>4
      <3>2. s[c] = t[k]
        BY <1>3, <2>4, <3>1
      <3> QED
        BY <1>1, <1>5, <2>4, <3>2 DEF Apart
    <2>5. CASE a \notin 1 .. n /\ c \notin 1 .. n
      <3>1. PICK i \in 1 .. m, k \in 1 .. m : a = n + i /\ c = n + k
        BY <2>1, <2>5
      <3>2. t[i] = t[k]
        BY <1>3, <3>1
      <3>3. i = k
        BY <1>1, <1>5, <3>2 DEF Distinct
      <3> QED
        BY <3>1, <3>3
    <2> QED
      BY <2>2, <2>3, <2>4, <2>5
  <1> QED
    BY <1>2, <1>4, <1>5

\* A list of one.
LEMMA SingleFacts ==
    ASSUME NEW S, NEW x \in S
    PROVE  <<x>> \in Seq(S) /\ Len(<<x>>) = 1 /\ DOMAIN <<x>> = {1} /\ <<x>>[1] = x
  <1>1. <<x>> \in Seq(S) /\ Len(<<x>>) = 1 /\ <<x>>[1] = x
    OBVIOUS
  <1>2. DOMAIN <<x>> = 1 .. 1
    BY <1>1, LenProperties
  <1> QED
    BY <1>1, <1>2

\* What is in joined lists is in one of them.
LEMMA JoinMembers ==
    ASSUME NEW S, NEW s \in Seq(S), NEW t \in Seq(S), NEW k \in DOMAIN (s \o t)
    PROVE  (\E i \in DOMAIN s : (s \o t)[k] = s[i]) \/ (\E i \in DOMAIN t : (s \o t)[k] = t[i])
  <1>1. PICK n \in Nat, m \in Nat : n = Len(s) /\ m = Len(t) /\ DOMAIN s = 1 .. n /\ DOMAIN t = 1 .. m
    OBVIOUS
  <1>2. PICK j : j = s \o t
    OBVIOUS
  <1>3. DOMAIN j = 1 .. n + m /\ (\A i \in 1 .. n : j[i] = s[i]) /\ (\A i \in 1 .. m : j[n + i] = t[i])
    BY <1>1, <1>2, JoinFacts
  <1>4. CASE k \in 1 .. n
    BY <1>1, <1>2, <1>3, <1>4
  <1>5. CASE k \notin 1 .. n
    <2>1. k \in 1 .. n + m
      BY <1>2, <1>3
    <2>2. PICK i \in 1 .. m : k = n + i
      <3>1. k - n \in 1 .. m /\ k = n + (k - n)
        BY <1>5, <2>1
      <3> QED
        BY <3>1
    <2>3. j[k] = t[i]
      BY <1>3, <2>2
    <2> QED
      BY <1>1, <1>2, <2>3
  <1> QED
    BY <1>4, <1>5

\* A name that is not in a list goes before it.
LEMMA DistinctBefore ==
    ASSUME NEW S, NEW x \in S, NEW t \in Seq(S), Distinct(t), \A k \in DOMAIN t : t[k] # x
    PROVE  Distinct(<<x>> \o t)
  <1>1. PICK o \in Seq(S) : o = <<x>>
    BY SingleFacts
  <1>2. DOMAIN o = {1} /\ o[1] = x
    BY <1>1, SingleFacts
  <1>3. Distinct(o) /\ Apart(o, t)
    BY <1>2 DEF Distinct, Apart
  <1> QED
    BY <1>1, <1>3, DistinctJoin

\* A value that is not in a list goes after it.
LEMMA DistinctAfter ==
    ASSUME NEW S, NEW x \in S, NEW s \in Seq(S), Distinct(s), \A k \in DOMAIN s : s[k] # x
    PROVE  Distinct(Append(s, x))
  <1>1. PICK n \in Nat : n = Len(s) /\ DOMAIN s = 1 .. n
    OBVIOUS
  <1>2. PICK a \in Seq(S) : a = Append(s, x)
    BY AppendProperties
  <1>3. DOMAIN a = 1 .. n + 1 /\ (\A i \in 1 .. n : a[i] = s[i]) /\ a[n + 1] = x
    BY <1>1, <1>2, AppendProperties
  <1>4. \A i \in 1 .. n + 1 : i \in 1 .. n \/ i = n + 1
    OBVIOUS
  <1>5. Distinct(a)
    BY <1>1, <1>3, <1>4 DEF Distinct
  <1> QED
    BY <1>2, <1>5

\* What BuildJob checks before it adds the helper.
LEMMA NotReserved ==
    ASSUME NEW b, Buildable(b), BuildOk(b), b.helperImage # ""
    PROVE  /\ \A i \in DOMAIN Containers(b) : Containers(b)[i] # Helper
           /\ \A i \in DOMAIN InitNames(b) : InitNames(b)[i] # Helper
           /\ \A i \in DOMAIN b.spec.volumes : b.spec.volumes[i] # HelperVolume
  <1>1. PICK p1 : p1 = setupMain(b.spec, b)
    OBVIOUS
  <1>2. DOMAIN p1 = Fields /\ p1.containers = Containers(b) /\ p1.inits = b.spec.inits /\ p1.volumes = b.spec.volumes
    <2>1. DOMAIN b.spec = Fields
      BY SpecFields DEF Buildable
    <2> QED
      BY <1>1, <2>1, SetupFacts DEF Containers
  <1>3. PICK sv, p2 : sv = b.services /\ p2 = addServices(p1, sv)
    OBVIOUS
  <1>4. /\ p2.inits = IF sv = <<>> THEN p1.inits ELSE p1.inits \o ServiceNames(sv)
        /\ p2.containers = p1.containers /\ p2.volumes = p1.volumes
    <2>1. DOMAIN p1 = Fields /\ p2 = addServices(p1, sv)
      BY <1>2, <1>3
    <2> QED
      BY <2>1, ServicesFacts
  <1>5. p2.inits = InitNames(b) /\ p2.containers = Containers(b) /\ p2.volumes = b.spec.volumes
    BY <1>2, <1>3, <1>4 DEF InitNames
  <1>6. ~HelperReserved(p2)
    BY <1>1, <1>3 DEF BuildOk
  <1> QED
    BY <1>5, <1>6 DEF HelperReserved

\* Container names are distinct.
LEMMA BuiltNamesDistinct ==
    ASSUME NEW b, Buildable(b), BuildOk(b), ClassFits(b), ServicesValid(b)
    PROVE  Distinct(BuildJob(b).spec.inits \o BuildJob(b).spec.containers)
  <1>1. PICK I, C, N, SN : I = b.spec.inits /\ C = b.spec.containers /\ N = InitNames(b) /\ SN = ServiceNames(b.services)
    OBVIOUS
  <1>2. I \in Seq(Label) /\ C \in Seq(Label) /\ N \in Seq(Label) /\ SN \in Seq(Label) /\ Main \in Label /\ Helper \in Label
    BY <1>1, NamesFacts
  <1>3. Distinct(N \o C)
    <2>1. CASE b.services = <<>>
      BY <1>1, <2>1 DEF ClassFits, InitNames
    <2>2. CASE b.services # <<>>
      BY <1>1, <2>2 DEF ServicesValid, InitNames, ServiceNames
    <2> QED
      BY <2>1, <2>2
  <1>4. Distinct(N) /\ Distinct(C) /\ Apart(N, C)
    BY <1>2, <1>3, DistinctJoin
  <1>5. PICK D : D = Containers(b)
    OBVIOUS
  <1>6. D \in Seq(Label) /\ Distinct(D) /\ Apart(N, D)
    <2>1. CASE HasMain(b.spec)
      BY <1>1, <1>2, <1>4, <1>5, <2>1 DEF Containers
    <2>2. CASE ~HasMain(b.spec)
      <3>1. D = <<Main>> \o C /\ \A k \in DOMAIN C : C[k] # Main
        BY <1>1, <1>5, <2>2 DEF Containers, HasMain
      <3>2. Distinct(D)
        BY <1>2, <1>4, <3>1, DistinctBefore
      <3>3. <<Main>> \in Seq(Label) /\ DOMAIN <<Main>> = {1} /\ <<Main>>[1] = Main
        BY <1>2, SingleFacts
      <3>4. \A i \in DOMAIN N : N[i] # Main
        <4>1. \A i \in DOMAIN I : I[i] # Main
          BY <1>1, <2>2 DEF ClassFits
        <4>2. \A i \in DOMAIN SN : SN[i] # Main
          <5> SUFFICES ASSUME NEW i \in DOMAIN SN PROVE SN[i] # Main
            OBVIOUS
          <5>1. PICK sv \in Seq([name : Name, ports : SUBSET Ports]) : sv = b.services
            BY DEF Buildable
          <5>2. i \in 1 .. Len(sv) /\ SN[i] = Named(dnsLabel(sv[i].name))
            BY <1>1, <5>1 DEF ServiceNames
          <5>3. sv[i] \in [name : Name, ports : SUBSET Ports]
            BY <5>2, ElementOfSeq
          <5>4. PICK l \in Seq(Part) : l = dnsLabel(sv[i].name)
            BY <5>3, LabelFacts
          <5>5. PICK v \in Seq(Part) : v = <<"svc">> /\ Len(v) = 1 /\ v[1] = "svc"
            <6>1. "svc" \in Part
              BY DEF Part
            <6> QED
              BY <6>1, SingleFacts
          <5>6. (v \o l)[1] = "svc"
            BY <5>5, JoinFacts
          <5>7. SN[i][1] = "svc" /\ Main[1] = "main"
            BY <5>2, <5>4, <5>5, <5>6 DEF Named, Main
          <5> QED
            BY <5>7
        <4>3. CASE b.services = <<>>
          BY <1>1, <4>1, <4>3 DEF InitNames
        <4>4. CASE N = I \o SN
          BY <1>2, <4>1, <4>2, <4>4, JoinMembers
        <4> QED
          BY <1>1, <4>3, <4>4 DEF InitNames
      <3>5. \A k \in DOMAIN D : D[k] = Main \/ \E i \in DOMAIN C : D[k] = C[i]
        BY <1>2, <3>1, <3>3, JoinMembers
      <3>6. Apart(N, D)
        BY <1>4, <3>4, <3>5 DEF Apart
      <3> QED
        BY <1>2, <1>5, <3>2, <3>6, NamesFacts
    <2> QED
      BY <2>1, <2>2
  <1>7. Distinct(N \o D)
    BY <1>2, <1>4, <1>6, DistinctJoin
  <1>8. CASE b.helperImage = ""
    BY <1>1, <1>5, <1>7, <1>8, BuiltFacts
  <1>9. CASE b.helperImage # ""
    <2>1. (\A i \in DOMAIN D : D[i] # Helper) /\ (\A i \in DOMAIN N : N[i] # Helper)
      BY <1>1, <1>5, <1>9, NotReserved
    <2>2. PICK H : H = <<Helper>> \o N
      OBVIOUS
    <2>3. H \in Seq(Label) /\ Distinct(H)
      <3>1. <<Helper>> \in Seq(Label)
        BY <1>2
      <3> QED
        BY <1>2, <1>4, <2>1, <2>2, <3>1, JoinFacts, DistinctBefore
    <2>4. Apart(H, D)
      <3>1. <<Helper>> \in Seq(Label) /\ DOMAIN <<Helper>> = {1} /\ <<Helper>>[1] = Helper
        BY <1>2, SingleFacts
      <3>2. \A k \in DOMAIN H : H[k] = Helper \/ \E i \in DOMAIN N : H[k] = N[i]
        BY <1>2, <2>2, <3>1, JoinMembers
      <3> QED
        BY <1>6, <2>1, <3>2 DEF Apart
    <2>5. Distinct(H \o D)
      BY <1>4, <1>6, <2>3, <2>4, DistinctJoin
    <2> QED
      BY <1>1, <1>5, <1>9, <2>2, <2>5, BuiltFacts
  <1> QED
    BY <1>8, <1>9

\* A list and a value after it.
LEMMA AfterFacts ==
    ASSUME NEW S, NEW s \in Seq(S), NEW x \in S
    PROVE  LET a == Append(s, x) IN
           /\ a \in Seq(S) /\ DOMAIN a = 1 .. Len(s) + 1 /\ DOMAIN s = 1 .. Len(s) /\ Len(s) \in Nat
           /\ \A i \in DOMAIN s : i \in DOMAIN a /\ a[i] = s[i]
           /\ Len(s) + 1 \in DOMAIN a /\ a[Len(s) + 1] = x
           /\ \A i \in DOMAIN a : i \in DOMAIN s \/ i = Len(s) + 1
  <1>1. PICK n \in Nat : n = Len(s) /\ DOMAIN s = 1 .. n
    OBVIOUS
  <1>2. PICK a \in Seq(S) : a = Append(s, x)
    BY AppendProperties
  <1>3. DOMAIN a = 1 .. n + 1 /\ (\A i \in 1 .. n : a[i] = s[i]) /\ a[n + 1] = x
    BY <1>1, <1>2, AppendProperties
  <1>4. n + 1 \in 1 .. n + 1 /\ (\A i \in 1 .. n : i \in 1 .. n + 1) /\ \A i \in 1 .. n + 1 : i \in 1 .. n \/ i = n + 1
    OBVIOUS
  <1> QED
    BY <1>1, <1>2, <1>3, <1>4

VolumeP == STRING \cup {Shared, HelperVolume}
Has(s, x) == \E i \in DOMAIN s : s[i] = x

\* The volumes are distinct and include the class's, the shared one and the helper's.
LEMMA BuiltVolumes ==
    ASSUME NEW b, Buildable(b), BuildOk(b), ClassFits(b)
    PROVE  LET vs == BuildJob(b).spec.volumes IN
           /\ Distinct(vs) /\ Has(vs, Shared)
           /\ \A i \in DOMAIN b.spec.volumes : Has(vs, b.spec.volumes[i])
           /\ b.helperImage # "" => Has(vs, HelperVolume)
  <1>1. PICK V \in Seq(VolumeP) : V = b.spec.volumes
    <2>1. b.spec.volumes \in Seq(STRING) /\ STRING \subseteq VolumeP
      BY DEF Buildable, PodSpec, VolumeP
    <2> QED
      BY <2>1, SeqMonotonic
  <1>2. Shared \in VolumeP /\ HelperVolume \in VolumeP
    BY DEF VolumeP
  <1>3. Distinct(V)
    BY <1>1 DEF ClassFits
  <1>4. PICK W : W = Volumes(b)
    OBVIOUS
  <1>5. /\ W \in Seq(VolumeP) /\ Distinct(W) /\ (\A i \in DOMAIN V : Has(W, V[i]))
        /\ b.helperImage # "" => Has(W, HelperVolume)
    <2>1. CASE b.helperImage = ""
      BY <1>1, <1>3, <1>4, <2>1 DEF Volumes, Has
    <2>2. CASE b.helperImage # ""
      <3>1. W = Append(V, HelperVolume)
        BY <1>1, <1>4, <2>2 DEF Volumes
      <3>2. \A i \in DOMAIN V : V[i] # HelperVolume
        BY <1>1, <2>2, NotReserved
      <3>3. Distinct(W)
        BY <1>2, <1>3, <3>1, <3>2, DistinctAfter
      <3>4. /\ W \in Seq(VolumeP) /\ \A i \in DOMAIN V : i \in DOMAIN W /\ W[i] = V[i]
            /\ Len(V) + 1 \in DOMAIN W /\ W[Len(V) + 1] = HelperVolume
        BY <1>2, <3>1, AfterFacts
      <3> QED
        BY <3>3, <3>4 DEF Has
    <2> QED
      BY <2>1, <2>2
  <1>6. PICK F : F = BuildJob(b).spec.volumes
    OBVIOUS
  <1>7. F = IF HasShared(W) THEN W ELSE Append(W, Shared)
    BY <1>4, <1>6, BuiltFacts
  <1>8. CASE HasShared(W)
    BY <1>1, <1>5, <1>6, <1>7, <1>8 DEF HasShared, Has
  <1>9. CASE ~HasShared(W)
    <2>1. F = Append(W, Shared) /\ \A i \in DOMAIN W : W[i] # Shared
      BY <1>7, <1>9 DEF HasShared
    <2>2. Distinct(F)
      BY <1>2, <1>5, <2>1, DistinctAfter
    <2>3. /\ \A i \in DOMAIN W : i \in DOMAIN F /\ F[i] = W[i]
          /\ Len(W) + 1 \in DOMAIN F /\ F[Len(W) + 1] = Shared
      <3>1. PICK x \in VolumeP, w \in Seq(VolumeP) : x = Shared /\ w = W
        BY <1>2, <1>5
      <3>2. F = Append(w, x)
        BY <2>1, <3>1
      <3>3. /\ \A i \in DOMAIN w : i \in DOMAIN F /\ F[i] = w[i]
            /\ Len(w) + 1 \in DOMAIN F /\ F[Len(w) + 1] = x
        BY <3>2, AfterFacts
      <3> QED
        BY <3>1, <3>3
    <2>4. Has(F, Shared) /\ \A x : Has(W, x) => Has(F, x)
      BY <2>3 DEF Has
    <2> QED
      BY <1>1, <1>5, <1>6, <2>2, <2>4
  <1> QED
    BY <1>8, <1>9

\* main's own mounts: the workspace and the class's other ones, at distinct paths.
LEMMA MainMountsFit ==
    ASSUME NEW b, Buildable(b), ClassFits(b)
    PROVE  /\ \A i, k \in DOMAIN Mounts(b) : Mounts(b)[i].path = Mounts(b)[k].path => i = k
           /\ \A i \in DOMAIN Mounts(b) :
                /\ Mounts(b)[i].path # HelperMount
                /\ Mounts(b)[i].volume = Shared \/ Has(b.spec.volumes, Mounts(b)[i].volume)
  <1>1. PICK ms \in Seq(MountP) : ms = MainMounts(b.spec)
    BY BuiltMounts
  <1>2. PICK r \in Seq(MountP) : r = Mounts(b) /\ r = WithSharedMount(ms)
    BY <1>1, BuiltMounts DEF Mounts
  <1>3. DOMAIN r = 1 .. Len(r) /\ DOMAIN ms = 1 .. Len(ms)
    BY LenProperties
  <1>4. PICK m \in 1 .. Len(r) :
          /\ r[m] = MountAt(Shared, SharedMount)
          /\ \A i \in 1 .. Len(r) : i # m => i \in 1 .. Len(ms) /\ r[i] = ms[i]
          /\ m \in 1 .. Len(ms) => ms[m].volume = Shared
          /\ m \notin 1 .. Len(ms) => SharedMounts(ms) = {}
    BY <1>2, MountFacts
  <1>5. /\ \A i, k \in DOMAIN ms : ms[i].path = ms[k].path => i = k
        /\ \A i \in DOMAIN ms :
             \/ ms[i].volume = Shared
             \/ ms[i].path \notin {SharedMount, HelperMount} /\ Has(b.spec.volumes, ms[i].volume)
        /\ \A i, k \in SharedMounts(ms) : i = k
    <2>1. CASE HasMain(b.spec)
      <3>1. ms = b.spec.mounts
        BY <1>1, <2>1 DEF MainMounts
      <3>2. \A i, k \in DOMAIN ms : ms[i].path = ms[k].path => i = k
        <4>1. Distinct([i \in DOMAIN ms |-> ms[i].path])
          BY <3>1 DEF ClassFits
        <4> QED
          BY <4>1 DEF Distinct
      <3>3. /\ \A i \in DOMAIN ms :
                 \/ ms[i].volume = Shared
                 \/ ms[i].path \notin {SharedMount, HelperMount} /\ Has(b.spec.volumes, ms[i].volume)
            /\ \A i, k \in SharedMounts(ms) : i = k
        BY <3>1 DEF ClassFits, Has
      <3> QED
        BY <3>2, <3>3
    <2>2. CASE ~HasMain(b.spec)
      <3>1. ms = <<>>
        BY <1>1, <2>2 DEF MainMounts
      <3>2. DOMAIN ms = {}
        BY <3>1
      <3> QED
        BY <3>2 DEF SharedMounts
    <2> QED
      BY <2>1, <2>2
  <1>6. ASSUME NEW i \in DOMAIN r, i # m
        PROVE  /\ i \in DOMAIN ms /\ r[i] = ms[i] /\ ms[i].path \notin {SharedMount, HelperMount}
               /\ Has(b.spec.volumes, ms[i].volume)
    <2>1. i \in DOMAIN ms /\ r[i] = ms[i]
      BY <1>3, <1>4, <1>6
    <2>2. ms[i].volume # Shared
      <3> SUFFICES ASSUME ms[i].volume = Shared PROVE FALSE
        OBVIOUS
      <3>1. i \in SharedMounts(ms)
        BY <2>1 DEF SharedMounts
      <3>2. m \in SharedMounts(ms)
        BY <1>3, <1>4, <3>1 DEF SharedMounts
      <3> QED
        BY <1>5, <1>6, <3>1, <3>2
    <2> QED
      BY <1>5, <2>1, <2>2
  <1>7. r[m].path = SharedMount /\ r[m].volume = Shared /\ SharedMount # HelperMount
    BY <1>4 DEF MountAt, SharedMount, HelperMount
  <1>8. \A i, k \in DOMAIN r : r[i].path = r[k].path => i = k
    <2> SUFFICES ASSUME NEW i \in DOMAIN r, NEW k \in DOMAIN r, r[i].path = r[k].path, i # k PROVE FALSE
      OBVIOUS
    <2>1. CASE i = m
      BY <1>6, <1>7, <2>1
    <2>2. CASE k = m
      BY <1>6, <1>7, <2>2
    <2>3. CASE i # m /\ k # m
      BY <1>5, <1>6, <2>3
    <2> QED
      BY <2>1, <2>2, <2>3
  <1>9. \A i \in DOMAIN r : r[i].path # HelperMount /\ (r[i].volume = Shared \/ Has(b.spec.volumes, r[i].volume))
    BY <1>6, <1>7
  <1> QED
    BY <1>2, <1>8, <1>9

\* All mounts of main have distinct paths and a volume.
LEMMA BuiltMountsFit ==
    ASSUME NEW b, Buildable(b), BuildOk(b), ClassFits(b)
    PROVE  LET r == BuildJob(b).spec IN
           /\ Distinct([i \in DOMAIN r.mounts |-> r.mounts[i].path])
           /\ \A i \in DOMAIN r.mounts : Has(r.volumes, r.mounts[i].volume)
  <1>1. PICK ms \in Seq(MountP), e \in MountP : ms = Mounts(b) /\ e = MountAt(HelperVolume, HelperMount)
    BY BuiltMounts
  <1>2. PICK f, vs : f = BuildJob(b).spec.mounts /\ vs = BuildJob(b).spec.volumes
    OBVIOUS
  <1>3. f = IF b.helperImage = "" THEN ms ELSE Append(ms, e)
    BY <1>1, <1>2, BuiltFacts
  <1>4. /\ Has(vs, Shared) /\ (\A i \in DOMAIN b.spec.volumes : Has(vs, b.spec.volumes[i]))
        /\ b.helperImage # "" => Has(vs, HelperVolume)
    BY <1>2, BuiltVolumes
  <1>5. /\ \A i, k \in DOMAIN ms : ms[i].path = ms[k].path => i = k
        /\ \A i \in DOMAIN ms : ms[i].path # HelperMount /\ (ms[i].volume = Shared \/ Has(b.spec.volumes, ms[i].volume))
    BY <1>1, MainMountsFit
  <1>6. \A i \in DOMAIN ms : Has(vs, ms[i].volume)
    BY <1>4, <1>5 DEF Has
  <1>7. /\ \A i, k \in DOMAIN f : f[i].path = f[k].path => i = k
        /\ \A i \in DOMAIN f : Has(vs, f[i].volume)
    <2>1. CASE b.helperImage = ""
      BY <1>3, <1>5, <1>6, <2>1
    <2>2. CASE b.helperImage # ""
      <3>1. PICK n : n = Len(ms) + 1
        OBVIOUS
      <3>2. /\ \A i \in DOMAIN ms : i \in DOMAIN f /\ f[i] = ms[i]
            /\ n \in DOMAIN f /\ f[n] = e /\ \A i \in DOMAIN f : i \in DOMAIN ms \/ i = n
        <4>1. f = Append(ms, e)
          BY <1>3, <2>2
        <4>2. /\ \A i \in DOMAIN ms : i \in DOMAIN f /\ f[i] = ms[i]
              /\ Len(ms) + 1 \in DOMAIN f /\ f[Len(ms) + 1] = e
              /\ \A i \in DOMAIN f : i \in DOMAIN ms \/ i = Len(ms) + 1
          BY <4>1, AfterFacts
        <4> QED
          BY <3>1, <4>2
      <3>3. e.path = HelperMount /\ e.volume = HelperVolume
        BY <1>1 DEF MountAt
      <3>4. \A i, k \in DOMAIN f : f[i].path = f[k].path => i = k
        <4> SUFFICES ASSUME NEW i \in DOMAIN f, NEW k \in DOMAIN f, f[i].path = f[k].path PROVE i = k
          OBVIOUS
        <4>1. CASE i \in DOMAIN ms /\ k \in DOMAIN ms
          BY <1>5, <3>2, <4>1
        <4>2. CASE i = n /\ k = n
          BY <4>2
        <4>3. CASE i \in DOMAIN ms /\ k = n
          BY <1>5, <3>2, <3>3, <4>3
        <4>4. CASE i = n /\ k \in DOMAIN ms
          BY <1>5, <3>2, <3>3, <4>4
        <4> QED
          BY <3>2, <4>1, <4>2, <4>3, <4>4
      <3>5. \A i \in DOMAIN f : Has(vs, f[i].volume)
        BY <1>4, <1>6, <2>2, <3>2, <3>3
      <3> QED
        BY <3>4, <3>5
    <2> QED
      BY <2>1, <2>2
  <1>8. Distinct([i \in DOMAIN f |-> f[i].path])
    BY <1>7 DEF Distinct
  <1> QED
    BY <1>2, <1>7, <1>8

\* BuildJob makes a podspec the API server accepts of a class that is one itself,
\* with services that are valid next to it.
LEMMA BuildIsValid ==
    ASSUME NEW b, Buildable(b), BuildOk(b), ClassFits(b), ServicesValid(b)
    PROVE  SpecValid(BuildJob(b).spec)
  <1>1. PICK r : r = BuildJob(b).spec
    OBVIOUS
  <1>2. Distinct(r.inits \o r.containers)
    BY <1>1, BuiltNamesDistinct
  <1>3. Distinct(r.volumes)
    BY <1>1, BuiltVolumes
  <1>4. /\ Distinct([i \in DOMAIN r.mounts |-> r.mounts[i].path])
        /\ \A i \in DOMAIN r.mounts : \E n \in DOMAIN r.volumes : r.volumes[n] = r.mounts[i].volume
    BY <1>1, BuiltMountsFit DEF Has
  <1>5. r.image # ""
    <2>1. r.image = IF b.image # "" THEN b.image ELSE IF HasMain(b.spec) THEN b.spec.image ELSE ""
      BY <1>1, BuiltFacts
    <2> QED
      BY <2>1 DEF BuildOk, ClassFits
  <1>6. \A h \in r.hosts : DNSLabel(h)
    <2>1. r.hosts = IF b.services = <<>> THEN b.spec.hosts ELSE b.spec.hosts \cup HostNames(b.services)
      BY <1>1, BuiltFacts
    <2>2. \A h \in HostNames(b.services) : DNSLabel(h)
      BY DEF ServicesValid, HostNames
    <2>3. \A h \in b.spec.hosts : DNSLabel(h)
      BY DEF ClassFits
    <2> QED
      BY <2>1, <2>2, <2>3
  <1> QED
    BY <1>1, <1>2, <1>3, <1>4, <1>5, <1>6 DEF SpecValid

\* A Job of a fitting class and of valid services is not rejected.
LEMMA PlanKeepsValid == ASSUME PlanInv PROVE BuildKeepsValid
  <1> SUFFICES ASSUME phase = "rejected", ClassFits(in), ServicesValid(in), job.namespace = sentTo PROVE FALSE
    BY DEF BuildKeepsValid
  <1>1. /\ Buildable(in) /\ BuildOk(in) /\ job = BuildJob(in) /\ ~JobValid(job, sentTo)
        /\ in.envID = newEnvID(req.name) /\ req.name \in Name
    BY InputFacts DEF PlanInv, Submitted
  <1>2. SpecValid(job.spec)
    BY <1>1, BuildIsValid
  <1>3. DNSLabel(job.name)
    <2>1. job.name = newEnvID(req.name)
      BY <1>1 DEF BuildJob
    <2> QED
      BY <1>1, <2>1, EnvIDFacts
  <1> QED
    BY <1>1, <1>2, <1>3 DEF JobValid

\* BuildJob never spoils a class: of a fitting class and services that are valid next
\* to it, the API server rejects no Job, unless it went to another namespace than the
\* one it names (setupMain, addServices, addHelper, addSharedVolume, newEnvID).
THEOREM BuildJobAddsNoClash == PlanSpec => []BuildKeepsValid
  <1>1. PlanInv => BuildKeepsValid
    BY PlanKeepsValid
  <1> QED
    BY <1>1, PlanInductive, PTL
===========================================================================
