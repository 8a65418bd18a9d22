------------------------- MODULE StepDeliveryProofs -------------------------
(* Exec keeps its promise: what the supervisor's readers log of the command's *)
(* output, that all of it is delivered before an exit code, and that          *)
(* StepResume implements StepDelivery.                                        *)
EXTENDS StepResumeRefinement, StepResumeProofs

\* The readers log what the command wrote, and the exit code is one it may end
\* with.  Once settle has seen EOF, nobody writes to the pipes any more.
ReaderInv ==
    /\ wrote["stdout"] + wrote["stderr"] <= MaxChunks
    /\ \A k \in Streams : framed[k] <= wrote[k]
    /\ code \in Codes \cup FailCodes \cup {NoCode}
    /\ sup \in {"none", "boot"} => log = <<>> /\ \A k \in Streams : framed[k] = 0
    /\ sup \in {"run", "settle"} => starts > 0
    /\ eof => framed = wrote /\ ~hold /\ cmd # "running" /\ starts > 0
              /\ sup \in {"finish", "record", "drain", "gone"}

\* The frames of the log are numbered per stream in the order of the chunks; a
\* command that was not started has only the message that says so, chunk 0.
OrderInv ==
    /\ \A i \in 1 .. Whole : FrameKind(i) \in Streams =>
         log[2 * i].val <= framed[FrameKind(i)] /\ (starts > 0 => log[2 * i].val > 0)
    /\ \A i, j \in 1 .. Whole : i < j /\ FrameKind(i) \in Streams /\ FrameKind(j) = FrameKind(i) =>
         log[2 * i].val < log[2 * j].val

\* Every chunk of stream k up to n is in the log.
Logged(k, n) == \A v \in 1 .. n : \E i \in 1 .. Whole : FrameKind(i) = k /\ log[2 * i].val = v

\* Every chunk a reader took is in the log as long as it is open and its writes
\* succeed, and in a log with an exit record if the readers were at EOF.
PresentInv ==
    /\ starts > 0 /\ ~lerr /\ LogOpen => \A k \in Streams : Logged(k, framed[k])
    /\ eof /\ ExitLogged => \A k \in Streams : Logged(k, wrote[k])

OutputInv == ReaderInv /\ OrderInv /\ PresentInv

USE ConstantsAssumption

\* The whole frames of the log, by their number.
LEMMA WholeFrames ==
    ASSUME log \in Seq(Unit)
    PROVE  /\ Len(log) \in Nat /\ Whole \in Nat
           /\ Len(log) = 2 * Whole \/ Len(log) = 2 * Whole + 1
           /\ Len(log) % 2 = 0 => Len(log) = 2 * Whole
           /\ \A i \in 1 .. Whole : 2 * i \in 1 .. Len(log) /\ 2 * i - 1 \in 1 .. Len(log)
  <1>1. Len(log) \in Nat
    OBVIOUS
  <1>2. \A n \in Nat : /\ n \div 2 \in Nat /\ (n = 2 * (n \div 2) \/ n = 2 * (n \div 2) + 1)
                       /\ n % 2 = 0 => n = 2 * (n \div 2)
    OBVIOUS
  <1>3. /\ Whole \in Nat /\ (Len(log) = 2 * Whole \/ Len(log) = 2 * Whole + 1)
        /\ Len(log) % 2 = 0 => Len(log) = 2 * Whole
    BY <1>1, <1>2 DEF Whole
  <1> QED
    BY <1>1, <1>3

\* The number of whole frames is determined by the length.
LEMMA WholeIs ==
    ASSUME NEW w \in Nat, Len(log) = 2 * w \/ Len(log) = 2 * w + 1
    PROVE  Whole = w
  <1>1. (2 * w) \div 2 = w /\ (2 * w + 1) \div 2 = w
    OBVIOUS
  <1> QED
    BY <1>1 DEF Whole

\* A step keeps the whole frames of the log, and adds none, or one.
Kept == \A i \in 1 .. Whole : log'[2 * i - 1] = log[2 * i - 1] /\ log'[2 * i] = log[2 * i]
Same == Kept /\ Whole' = Whole
Grown(k, v) ==
    /\ Kept /\ Whole' = Whole + 1 /\ Len(log') = 2 * Whole + 2
    /\ log'[2 * Whole + 1] = Header(k) /\ log'[2 * Whole + 2] = Payload(v)

\* Appending a frame to whole ones adds it.
LEMMA FrameAdded ==
    ASSUME log \in Seq(Unit), Len(log) % 2 = 0, NEW k \in Streams \cup {"exit"}, NEW v \in Nat,
           log' = log \o AppendFrame(k, v)
    PROVE  Grown(k, v) /\ log' \in Seq(Unit)
  <1>1. /\ log' \in Seq(Unit) /\ Len(log') = Len(log) + 2
        /\ \A i \in 1 .. Len(log) : log'[i] = log[i]
        /\ log'[Len(log) + 1] = Header(k) /\ log'[Len(log) + 2] = Payload(v)
    BY LogGrows
  <1>2. /\ Len(log) = 2 * Whole /\ Whole \in Nat
        /\ \A i \in 1 .. Whole : 2 * i \in 1 .. Len(log) /\ 2 * i - 1 \in 1 .. Len(log)
    BY WholeFrames
  <1>3. Whole' = Whole + 1
    <2>1. Len(log') = 2 * (Whole + 1) /\ Whole + 1 \in Nat
      BY <1>1, <1>2
    <2>2. (2 * (Whole + 1)) \div 2 = Whole + 1
      BY <1>2
    <2> QED
      BY <2>1, <2>2 DEF Whole
  <1> QED
    BY <1>1, <1>2, <1>3 DEF Grown, Kept

\* Every write of frameLog adds its frame, or fails and adds no whole one.
LEMMA WriteLogCases ==
    ASSUME TypeOK, LogInv, NEW k \in Streams \cup {"exit"}, NEW v \in Nat, WriteLog(AppendFrame(k, v))
    PROVE  \/ ~lerr /\ ~lerr' /\ Grown(k, v)
           \/ lerr' /\ Same /\ (log' = log \/ (Len(log) = 2 * Whole /\ log' = Append(log, Header(k))))
  <1>0. log \in Seq(Unit) /\ Header(k) \in Unit
    BY FrameType DEF TypeOK, DirType
  <1>1. CASE lerr' /\ UNCHANGED log
    <2>1. Same
      BY <1>1 DEF Same, Kept, Whole
    <2> QED
      BY <1>1, <2>1
  <1>2. CASE ~lerr /\ ~lerr' /\ log' = log \o AppendFrame(k, v)
    BY <1>0, <1>2, FrameAdded DEF LogInv
  <1>3. CASE ~lerr /\ lerr' /\ log' = Append(log, Header(k))
    <2>1. Len(log) = 2 * Whole /\ Whole \in Nat
      BY <1>0, <1>3, WholeFrames DEF LogInv
    <2>2. Len(log') = 2 * Whole + 1
      BY <1>0, <1>3, <2>1
    <2>3. Whole' = Whole
      <3>1. (2 * Whole + 1) \div 2 = Whole
        BY <2>1
      <3> QED
        BY <2>2, <3>1 DEF Whole
    <2>4. Kept
      BY <1>0, <1>3, <2>1 DEF Kept
    <2> QED
      BY <1>3, <2>1, <2>3, <2>4 DEF Same
  <1> QED
    BY <1>1, <1>2, <1>3 DEF WriteLog, AppendFrame


\* What is known of the log and of the readers' counters.
LEMMA LogFacts ==
    ASSUME TypeOK
    PROVE  /\ log \in Seq(Unit) /\ Whole \in Nat /\ framed \in [Streams -> Nat] /\ wrote \in [Streams -> Nat]
           /\ starts \in Nat
           /\ \A i \in 1 .. Whole : log[2 * i].val \in Nat
  <1>1. log \in Seq(Unit) /\ framed \in [Streams -> Nat] /\ wrote \in [Streams -> Nat] /\ starts \in Nat
    BY DEF TypeOK, DirType, SupervisorType
  <1>2. \A i \in 1 .. Whole : 2 * i \in 1 .. Len(log)
    BY <1>1, WholeFrames
  <1>3. Whole \in Nat
    BY <1>1, WholeFrames
  <1>4. \A i \in 1 .. Len(log) : log[i].val \in Nat
    <2>1. \A i \in 1 .. Len(log) : log[i] \in Unit
      BY <1>1
    <2>2. \A u \in Unit : u.val \in Nat
      BY DEF Unit
    <2> QED
      BY <2>1, <2>2
  <1> QED
    BY <1>1, <1>2, <1>3, <1>4

\* The order of the frames stays when none is added and no count shrinks.
LEMMA OrderSame ==
    ASSUME TypeOK, OrderInv, Same, framed' \in [Streams -> Nat], starts' > 0 => starts > 0 \/ Whole = 0,
           \A k \in Streams : framed[k] <= framed'[k]
    PROVE  OrderInv'
  <1>1. /\ Whole' = Whole
        /\ \A i \in 1 .. Whole : log'[2 * i - 1] = log[2 * i - 1] /\ log'[2 * i] = log[2 * i]
    BY DEF Same, Kept
  <1>2. ASSUME NEW i \in 1 .. Whole, log[2 * i - 1].kind \in Streams
        PROVE  log[2 * i].val <= framed'[log[2 * i - 1].kind] /\ (starts' > 0 => log[2 * i].val > 0)
    <2>1. PICK k \in Streams : k = log[2 * i - 1].kind
      BY <1>2
    <2>2. log[2 * i].val <= framed[k] /\ (starts > 0 => log[2 * i].val > 0)
      BY <2>1 DEF OrderInv, FrameKind
    <2>3. framed[k] \in Nat /\ framed'[k] \in Nat /\ framed[k] <= framed'[k] /\ log[2 * i].val \in Nat
          /\ Whole # 0
      BY LogFacts
    <2> QED
      BY <2>1, <2>2, <2>3
  <1> QED
    BY <1>1, <1>2 DEF OrderInv, FrameKind

\* A reader's chunk, which has the next number of its stream, keeps the order.
LEMMA OrderGrows ==
    ASSUME TypeOK, OrderInv, NEW k \in Streams, Grown(k, framed[k] + 1), starts' = starts,
           framed' = [framed EXCEPT ![k] = @ + 1]
    PROVE  OrderInv'
  <1>1. /\ Whole \in Nat /\ Whole' = Whole + 1 /\ framed'[k] = framed[k] + 1 /\ framed[k] \in Nat
        /\ \A j \in Streams : j # k => framed'[j] = framed[j]
        /\ \A j \in Streams : framed[j] \in Nat
    BY LogFacts DEF Grown
  <1>2. log'[2 * (Whole + 1) - 1].kind = k /\ log'[2 * (Whole + 1)].val = framed[k] + 1
    <2>1. 2 * (Whole + 1) - 1 = 2 * Whole + 1 /\ 2 * (Whole + 1) = 2 * Whole + 2
      BY <1>1
    <2> QED
      BY <2>1 DEF Grown, Header, Payload
  <1>3. \A i \in 1 .. Whole' : i \in 1 .. Whole \/ i = Whole + 1
    BY <1>1
  <1>4. \A i \in 1 .. Whole : log'[2 * i - 1] = log[2 * i - 1] /\ log'[2 * i] = log[2 * i]
    BY DEF Grown, Kept
  <1>5. \A i \in 1 .. Whole' : log'[2 * i - 1].kind \in Streams =>
          log'[2 * i].val <= framed'[log'[2 * i - 1].kind] /\ (starts' > 0 => log'[2 * i].val > 0)
    <2> SUFFICES ASSUME NEW i \in 1 .. Whole', NEW j \in Streams, j = log'[2 * i - 1].kind
                 PROVE  log'[2 * i].val <= framed'[j] /\ (starts' > 0 => log'[2 * i].val > 0)
      OBVIOUS
    <2>1. CASE i \in 1 .. Whole
      <3>1. log[2 * i].val <= framed[j] /\ (starts > 0 => log[2 * i].val > 0) /\ log'[2 * i] = log[2 * i]
        BY <1>4, <2>1 DEF OrderInv, FrameKind
      <3>2. log[2 * i].val \in Nat /\ framed[j] \in Nat /\ framed'[j] \in {framed[j], framed[j] + 1}
        BY <1>1, <2>1, LogFacts
      <3> QED
        BY <3>1, <3>2
    <2>2. CASE i = Whole + 1
      BY <1>1, <1>2, <2>2
    <2> QED
      BY <1>3, <2>1, <2>2
  <1>6. \A i, j \in 1 .. Whole' :
          i < j /\ log'[2 * i - 1].kind \in Streams /\ log'[2 * j - 1].kind = log'[2 * i - 1].kind =>
            log'[2 * i].val < log'[2 * j].val
    <2> SUFFICES ASSUME NEW i \in 1 .. Whole', NEW j \in 1 .. Whole', i < j,
                        log'[2 * i - 1].kind \in Streams, log'[2 * j - 1].kind = log'[2 * i - 1].kind
                 PROVE  log'[2 * i].val < log'[2 * j].val
      OBVIOUS
    <2>1. i \in 1 .. Whole
      BY <1>1, <1>3
    <2>2. CASE j \in 1 .. Whole
      BY <1>4, <2>1, <2>2 DEF OrderInv, FrameKind
    <2>3. CASE j = Whole + 1
      <3>1. log'[2 * i - 1].kind = k /\ log'[2 * j].val = framed[k] + 1
        BY <1>2, <2>3
      <3>2. log[2 * i].val <= framed[k] /\ log[2 * i].val \in Nat
        BY <1>4, <2>1, <3>1, LogFacts DEF OrderInv, FrameKind
      <3> QED
        BY <1>1, <1>4, <2>1, <3>1, <3>2
    <2> QED
      BY <1>3, <2>2, <2>3
  <1> QED
    BY <1>5, <1>6 DEF OrderInv, FrameKind

\* A frame that is no stream's keeps the order.
LEMMA OrderExit ==
    ASSUME TypeOK, OrderInv, NEW v \in Nat, Grown("exit", v), UNCHANGED <<framed, starts>>
    PROVE  OrderInv'
  <1>1. Whole \in Nat /\ Whole' = Whole + 1
    BY LogFacts DEF Grown
  <1>2. log'[2 * (Whole + 1) - 1].kind \notin Streams
    <2>1. 2 * (Whole + 1) - 1 = 2 * Whole + 1
      BY <1>1
    <2> QED
      BY <2>1 DEF Grown, Header, Streams
  <1>3. \A i \in 1 .. Whole' : log'[2 * i - 1].kind \in Streams => i \in 1 .. Whole
    BY <1>1, <1>2
  <1> QED
    BY <1>1, <1>3 DEF OrderInv, FrameKind, Grown, Kept

\* What is logged stays logged.
LEMMA LoggedStays ==
    ASSUME TypeOK, Kept, Whole' = Whole \/ Whole' = Whole + 1, NEW k \in Streams, NEW n \in Nat, Logged(k, n)
    PROVE  \A v \in 1 .. n : \E i \in 1 .. Whole' : log'[2 * i - 1].kind = k /\ log'[2 * i].val = v
  <1> SUFFICES ASSUME NEW v \in 1 .. n
               PROVE  \E i \in 1 .. Whole' : log'[2 * i - 1].kind = k /\ log'[2 * i].val = v
    OBVIOUS
  <1>1. PICK i \in 1 .. Whole : log[2 * i - 1].kind = k /\ log[2 * i].val = v
    BY DEF Logged, FrameKind
  <1>2. i \in 1 .. Whole'
    BY LogFacts
  <1> QED
    BY <1>1, <1>2 DEF Kept


\* The variables OutputInv is about but where the supervisor and the command stand.
outputVars == <<log, lerr, wrote, framed, starts, eof, code>>

\* A step that lets the supervisor end, or only begin, and the command end, keeps
\* OutputInv, and so does one that leaves both alone.
LEMMA OutputUnchanged ==
    ASSUME TypeOK, OutputInv, UNCHANGED outputVars, hold' => hold, cmd' = "running" => cmd = "running",
           sup' \in {sup, "drain", "gone"} \/ (sup = "none" /\ sup' = "boot")
    PROVE  OutputInv'
  <1> USE DEF outputVars
  <1>1. ReaderInv'
    BY DEF OutputInv, ReaderInv
  <1>2. OrderInv'
    BY DEF OutputInv, OrderInv, Whole, FrameKind
  <1>3. PresentInv'
    BY DEF OutputInv, PresentInv, LogOpen, ExitLogged, Logged, Whole, FrameKind
  <1> QED
    BY <1>1, <1>2, <1>3 DEF OutputInv

\* The supervisor's log has no exit record while it is open (LogInv).
LEMMA NoExitYet == ASSUME TypeOK, LogInv, ~LogClosed PROVE \A i \in 1 .. Len(log) : log[i].kind # "exit"
  BY DEF LogInv

\* The command cannot be started: a single frame, chunk 0.
LEMMA OutputStartFails == ASSUME Inv, OutputInv, StartFails PROVE OutputInv'
  <1>1. /\ TypeOK /\ LogInv /\ sup = "boot" /\ sup' = "finish" /\ code' \in FailCodes /\ starts = 0
        /\ UNCHANGED <<cmd, hold, wrote, framed, starts, eof>> /\ ~eof /\ log = <<>>
        /\ WriteLog(AppendFrame("stderr", 0))
    BY DEF Inv, StartInv, OutputInv, ReaderInv, StartFails
  <1>2. Len(log) = 0 /\ Whole = 0
    <2>1. Len(log) = 2 * 0
      BY <1>1
    <2> QED
      BY <2>1, WholeIs
  <1>3. ReaderInv'
    BY <1>1 DEF OutputInv, ReaderInv
  <1>4. PresentInv'
    BY <1>1 DEF PresentInv
  <1>5. OrderInv'
    <2>1. CASE Same
      BY <1>1, <1>2, <2>1 DEF OrderInv, Same
    <2>2. CASE Grown("stderr", 0)
      <3>1. Whole' = 1 /\ log'[1] = Header("stderr") /\ log'[2] = Payload(0)
        BY <1>2, <2>2 DEF Grown
      <3>2. \A i \in 1 .. Whole' : i = 1 /\ log'[2 * i - 1].kind = "stderr" /\ log'[2 * i].val = 0
        BY <3>1 DEF Header, Payload
      <3>3. framed["stderr"] \in Nat
        BY <1>1, LogFacts DEF Streams
      <3> QED
        BY <1>1, <3>2, <3>3 DEF OrderInv, FrameKind
    <2>3. Same \/ Grown("stderr", 0)
      BY <1>1, WriteLogCases DEF Streams
    <2> QED
      BY <2>1, <2>2, <2>3
  <1> QED
    BY <1>3, <1>4, <1>5 DEF OutputInv

\* The command starts with an empty log.
LEMMA OutputStartCommand == ASSUME Inv, OutputInv, StartCommand PROVE OutputInv'
  <1>1. /\ TypeOK /\ sup = "boot" /\ sup' = "run" /\ starts' = 1 /\ starts = 0 /\ ~eof
        /\ UNCHANGED <<log, code, lerr, hold, wrote, framed, eof>> /\ log = <<>>
        /\ \A k \in Streams : framed[k] = 0
    BY DEF Inv, StartInv, OutputInv, ReaderInv, StartCommand
  <1>2. Whole = 0 /\ Whole' = 0
    <2>1. Len(log) = 2 * 0
      BY <1>1
    <2>2. Whole = 0
      BY <2>1, WholeIs
    <2> QED
      BY <1>1, <2>2 DEF Whole
  <1>3. ReaderInv'
    BY <1>1 DEF OutputInv, ReaderInv
  <1>4. OrderInv'
    BY <1>2 DEF OrderInv
  <1>5. PresentInv'
    BY <1>1 DEF PresentInv, Logged
  <1> QED
    BY <1>3, <1>4, <1>5 DEF OutputInv

\* The command, or what it left behind, writes: the readers have yet to see it.
LEMMA OutputCommandWrites == ASSUME Inv, OutputInv, NEW k \in Streams, CommandWrites(k) PROVE OutputInv'
  <1>1. /\ TypeOK /\ ~eof /\ wrote["stdout"] + wrote["stderr"] < MaxChunks
        /\ wrote' = [wrote EXCEPT ![k] = @ + 1]
        /\ UNCHANGED <<log, sup, code, lerr, cmd, hold, framed, starts, eof>>
    BY DEF Inv, OutputInv, ReaderInv, CommandWrites
  <1>2. /\ wrote["stdout"] \in Nat /\ wrote["stderr"] \in Nat
        /\ \A j \in Streams : wrote[j] \in Nat /\ framed[j] \in Nat /\ wrote'[j] \in {wrote[j], wrote[j] + 1}
    BY <1>1, LogFacts DEF Streams
  <1>3. wrote'["stdout"] + wrote'["stderr"] <= MaxChunks
    <2>1. CASE k = "stdout"
      BY <1>1, <1>2, <2>1, LogFacts DEF Streams
    <2>2. CASE k = "stderr"
      BY <1>1, <1>2, <2>2, LogFacts DEF Streams
    <2> QED
      BY <2>1, <2>2 DEF Streams
  <1>4. \A j \in Streams : framed[j] <= wrote'[j]
    BY <1>2 DEF OutputInv, ReaderInv
  <1>5. ReaderInv'
    BY <1>1, <1>3, <1>4 DEF OutputInv, ReaderInv
  <1>6. OrderInv'
    BY <1>1 DEF OutputInv, OrderInv, Whole, FrameKind
  <1>7. PresentInv'
    BY <1>1 DEF OutputInv, PresentInv, LogOpen, Logged, Whole, FrameKind
  <1> QED
    BY <1>5, <1>6, <1>7 DEF OutputInv

\* A reader logs the next chunk of its stream, or discards it when the log is closed.
LEMMA OutputCopyChunk == ASSUME Inv, OutputInv, NEW k \in Streams, CopyChunk(k) PROVE OutputInv'
  <1>1. /\ TypeOK /\ LogInv /\ framed[k] < wrote[k] /\ framed' = [framed EXCEPT ![k] = @ + 1]
        /\ sup \in {"run", "settle", "finish", "record", "drain"}
        /\ UNCHANGED <<sup, code, cmd, hold, wrote, starts, eof>>
    BY DEF Inv, CopyChunk
  <1>2. /\ framed[k] \in Nat /\ wrote[k] \in Nat /\ framed'[k] = framed[k] + 1 /\ framed[k] + 1 \in Nat
        /\ \A j \in Streams : j # k => framed'[j] = framed[j]
        /\ framed' \in [Streams -> Nat]
    BY <1>1, LogFacts
  <1>3. ~eof
    BY <1>1, <1>2 DEF OutputInv, ReaderInv
  <1>4. ReaderInv'
    <2>1. \A j \in Streams : framed'[j] <= wrote[j]
      BY <1>1, <1>2 DEF OutputInv, ReaderInv
    <2> QED
      BY <1>1, <1>3, <2>1 DEF OutputInv, ReaderInv
  <1>5. CASE Same /\ (lerr' \/ ~LogOpen)
    <2>1. \A j \in Streams : framed[j] <= framed'[j]
      BY <1>2, LogFacts
    <2>2. OrderInv'
      BY <1>1, <1>2, <1>5, <2>1, OrderSame DEF OutputInv
    <2>3. PresentInv'
      BY <1>1, <1>3, <1>5 DEF PresentInv, LogOpen
    <2> QED
      BY <1>4, <2>2, <2>3 DEF OutputInv
  <1>6. CASE LogOpen /\ ~lerr /\ ~lerr' /\ Grown(k, framed[k] + 1)
    <2>1. OrderInv'
      BY <1>1, <1>6, OrderGrows DEF OutputInv
    <2>2. ASSUME starts > 0, NEW j \in Streams
          PROVE  \A v \in 1 .. framed'[j] : \E i \in 1 .. Whole' : log'[2 * i - 1].kind = j /\ log'[2 * i].val = v
      <3>1. Logged(j, framed[j]) /\ framed[j] \in Nat
        BY <1>1, <1>6, <2>2, LogFacts DEF OutputInv, PresentInv
      <3>2. \A v \in 1 .. framed[j] : \E i \in 1 .. Whole' : log'[2 * i - 1].kind = j /\ log'[2 * i].val = v
        BY <1>1, <1>6, <3>1, LoggedStays DEF Grown
      <3>3. ASSUME j = k
            PROVE  \E i \in 1 .. Whole' : log'[2 * i - 1].kind = j /\ log'[2 * i].val = framed[k] + 1
        <4>1. Whole \in Nat /\ Whole' = Whole + 1 /\ Whole + 1 \in 1 .. Whole'
          BY <1>1, <1>6, LogFacts DEF Grown
        <4>2. 2 * (Whole + 1) - 1 = 2 * Whole + 1 /\ 2 * (Whole + 1) = 2 * Whole + 2
          BY <4>1
        <4>3. log'[2 * (Whole + 1) - 1].kind = k /\ log'[2 * (Whole + 1)].val = framed[k] + 1
          BY <1>6, <4>2 DEF Grown, Header, Payload
        <4> QED
          BY <3>3, <4>1, <4>3
      <3> QED
        BY <1>2, <3>1, <3>2, <3>3
    <2>3. PresentInv'
      BY <1>1, <1>3, <2>2 DEF PresentInv, Logged, FrameKind
    <2> QED
      BY <1>4, <2>1, <2>3 DEF OutputInv
  <1>7. CASE LogOpen
    BY <1>1, <1>2, <1>5, <1>6, <1>7, WriteLogCases DEF CopyChunk
  <1>8. CASE ~LogOpen
    <2>1. Same
      BY <1>8 DEF CopyChunk, Same, Kept, Whole
    <2> QED
      BY <1>5, <1>8, <2>1
  <1> QED
    BY <1>7, <1>8


\* The command exits: its readers have not been seen at EOF.
LEMMA OutputCommandExits == ASSUME Inv, OutputInv, CommandExits PROVE OutputInv'
  <1>1. /\ ~eof /\ code' \in Codes /\ UNCHANGED <<log, sup, lerr, wrote, framed, starts, eof>>
    BY DEF OutputInv, ReaderInv, CommandExits
  <1>2. ReaderInv'
    BY <1>1 DEF OutputInv, ReaderInv
  <1>3. OrderInv'
    BY <1>1 DEF OutputInv, OrderInv, Whole, FrameKind
  <1>4. PresentInv'
    BY <1>1 DEF OutputInv, PresentInv, LogOpen, Logged, Whole, FrameKind
  <1> QED
    BY <1>2, <1>3, <1>4 DEF OutputInv

\* Wait returns and settle decides whether the readers are at EOF; the log stays open.
LEMMA OutputSettle == ASSUME Inv, OutputInv, WaitReturns \/ Settle PROVE OutputInv'
  <1>1. /\ TypeOK /\ LogInv /\ sup \in {"run", "settle"} /\ sup' \in {"settle", "finish"}
        /\ UNCHANGED <<log, code, lerr, cmd, hold, wrote, framed, starts>>
    BY DEF Inv, WaitReturns, Settle
  <1>2. starts > 0 /\ ~eof
    BY <1>1 DEF OutputInv, ReaderInv
  <1>3. eof' => framed = wrote /\ ~hold /\ cmd # "running" /\ sup' = "finish"
    BY <1>2 DEF WaitReturns, Settle, PipesAtEOF
  <1>4. sup' = "settle" => starts > 0
    BY <1>2
  <1>5. ReaderInv'
    BY <1>1, <1>2, <1>3, <1>4 DEF OutputInv, ReaderInv
  <1>6. OrderInv'
    BY <1>1 DEF OutputInv, OrderInv, Whole, FrameKind
  <1>7. ~ExitLogged'
    <2>1. \A i \in 1 .. Len(log) : log[i].kind # "exit"
      BY <1>1, NoExitYet DEF LogClosed
    <2>2. Len(log) \in Nat
      BY <1>1 DEF TypeOK, DirType
    <2> QED
      BY <1>1, <2>1, <2>2 DEF ExitLogged
  <1>8. PresentInv'
    BY <1>1, <1>7 DEF OutputInv, PresentInv, LogOpen, Logged, Whole, FrameKind
  <1> QED
    BY <1>5, <1>6, <1>8 DEF OutputInv

\* finish writes the exit record, or not all of it.
LEMMA FinishCases ==
    ASSUME Inv, Finish
    PROVE  \/ ~lerr /\ Grown("exit", code)
           \/ Same /\ (log' = log \/ log' = Append(log, Header("exit")))
  <1>1. TypeOK /\ LogInv /\ code \in Nat /\ "exit" \in Streams \cup {"exit"} /\ log \in Seq(Unit)
    BY DEF Inv, Finish, LogInv, TypeOK, DirType
  <1>2. CASE WriteLog(ExitFrame(code))
    BY <1>1, <1>2, WriteLogCases DEF ExitFrame
  <1>3. CASE ~lerr /\ log' = log \o ExitFrame(code)
    BY <1>1, <1>3, FrameAdded DEF ExitFrame, LogInv
  <1> QED
    BY <1>2, <1>3 DEF Finish

\* A log with a whole exit record had all its readers' chunks before.
LEMMA OutputFinish == ASSUME Inv, OutputInv, Finish PROVE OutputInv'
  <1>1. /\ TypeOK /\ LogInv /\ sup = "finish" /\ sup' = "record" /\ code \in Nat
        /\ UNCHANGED <<code, cmd, hold, wrote, framed, starts, eof>>
    BY DEF Inv, LogInv, Finish
  <1>2. ReaderInv'
    BY <1>1 DEF OutputInv, ReaderInv
  <1>3. framed \in [Streams -> Nat] /\ \A k \in Streams : framed[k] <= framed[k]
    BY <1>1, LogFacts
  <1>4. OrderInv'
    <2>1. CASE Grown("exit", code)
      BY <1>1, <2>1, OrderExit DEF OutputInv
    <2>2. CASE Same
      <3>1. framed' \in [Streams -> Nat] /\ \A k \in Streams : framed[k] <= framed'[k]
        BY <1>1, <1>3
      <3>2. starts' > 0 => starts > 0 \/ Whole = 0
        BY <1>1
      <3> QED
        BY <1>1, <2>2, <3>1, <3>2, OrderSame DEF OutputInv
    <2> QED
      BY <2>1, <2>2, FinishCases
  <1>5. PresentInv'
    <2>1. ~LogOpen'
      BY <1>1 DEF LogOpen
    <2>2. ASSUME eof, ExitLogged', NEW k \in Streams
          PROVE  \A v \in 1 .. wrote[k] : \E i \in 1 .. Whole' : log'[2 * i - 1].kind = k /\ log'[2 * i].val = v
      <3>1. CASE ~lerr /\ Grown("exit", code)
        <4>1. Logged(k, wrote[k]) /\ wrote[k] \in Nat
          BY <1>1, <2>2, <3>1, LogFacts DEF OutputInv, ReaderInv, PresentInv, LogOpen
        <4> QED
          BY <1>1, <3>1, <4>1, LoggedStays DEF Grown
      <3>2. CASE log' = log \/ log' = Append(log, Header("exit"))
        <4>1. \A i \in 1 .. Len(log) : log[i].kind # "exit"
          BY <1>1, NoExitYet DEF LogClosed
        <4>2. log \in Seq(Unit) /\ Header("exit") \in Unit
          BY <1>1, FrameType DEF TypeOK, DirType
        <4>3. Len(log') >= 2 /\ log'[Len(log') - 1].kind = "exit"
          BY <2>2 DEF ExitLogged
        <4>4. Len(log') - 1 \in 1 .. Len(log) /\ log'[Len(log') - 1] = log[Len(log') - 1]
          <5>1. CASE log' = log
            BY <4>2, <4>3, <5>1
          <5>2. CASE log' = Append(log, Header("exit"))
            BY <4>2, <4>3, <5>2
          <5> QED
            BY <3>2, <5>1, <5>2
        <4> QED
          BY <4>1, <4>3, <4>4
      <3> QED
        BY <3>1, <3>2, FinishCases
    <2> QED
      BY <1>1, <2>1, <2>2 DEF PresentInv, Logged, FrameKind
  <1> QED
    BY <1>2, <1>4, <1>5 DEF OutputInv

\* Every step keeps the invariant of the readers and the log.
LEMMA OutputInductive == ASSUME Inv, OutputInv, Next PROVE OutputInv'
  <1>1. TypeOK
    BY DEF Inv
  <1>2. CASE UNCHANGED <<outputVars, hold, cmd, sup>>
    BY <1>1, <1>2, OutputUnchanged
  <1>3. CASE Kill \/ PodDown
    BY <1>1, <1>3, OutputUnchanged DEF Kill, KillTree, PodDown, outputVars, dirVars
  <1>4. CASE Plugin /\ ~Kill
    BY <1>2, <1>4 DEF Plugin, ExecStart, ExecRefused, StreamBreaks, ExecReturns, Judge, Reattach,
       BackoffCancelled, ExecDone, KillFails, Deliver, podVars, dirVars, supVars, outputVars
  <1>5. ASSUME NEW p \in Procs, Run(p) PROVE OutputInv'
    <2>1. CASE StartSupervisor(p)
      <3>1. sup = "none"
        BY <2>1 DEF Inv, StartInv, StartSupervisor
      <3> QED
        BY <1>1, <2>1, <3>1, OutputUnchanged DEF StartSupervisor, outputVars, dirVars
    <2> QED
      BY <1>2, <1>5, <2>1 DEF Run, CreateLog, RecordSupervisor, RecordPid, RunFails, dirVars, supVars,
                              outputVars
  <1>6. CASE Follow
    BY <1>2, <1>6 DEF Follow, FollowOpen, Drain, CheckDone, CheckAlive, RecheckDone, FollowFails,
       PodUnchanged, podVars, dirVars, supVars, outputVars
  <1>7. CASE OpenLogFails \/ WriteDone \/ SupervisorExits \/ SupervisorDies \/ LeftoverExits
    BY <1>1, <1>7, OutputUnchanged DEF OpenLogFails, WriteDone, SupervisorExits, SupervisorDies,
       LeftoverExits, outputVars
  <1>8. CASE Supervise
    BY <1>7, <1>8, OutputStartFails, OutputStartCommand, OutputCopyChunk, OutputSettle, OutputFinish
       DEF Supervise
  <1>9. CASE Command
    BY <1>7, <1>9, OutputCommandWrites, OutputCommandExits DEF Command
  <1>10. CASE Environment /\ ~PodDown
    BY <1>2, <1>10 DEF Environment, Cancel, PodDeleting, DeadlinePasses, podVars, dirVars, supVars,
       outputVars
  <1>11. CASE Terminated
    BY <1>2, <1>11 DEF Terminated, vars, podVars, dirVars, supVars, outputVars
  <1> QED
    BY <1>3, <1>4, <1>5, <1>6, <1>8, <1>9, <1>10, <1>11 DEF Next, Environment

\* Before the step nothing is written or logged.
LEMMA InitOutput == ASSUME Init PROVE OutputInv
  <1>1. Len(log) = 2 * 0
    BY DEF Init
  <1>2. Whole = 0
    BY <1>1, WholeIs
  <1>3. ReaderInv
    BY DEF Init, ReaderInv, Streams
  <1>4. OrderInv
    BY <1>2 DEF OrderInv
  <1>5. PresentInv
    BY DEF Init, PresentInv
  <1> QED
    BY <1>3, <1>4, <1>5 DEF OutputInv

\* The readers' invariant holds throughout: the log numbers the chunks the command
\* wrote in order and, once finish closed it after EOF, misses none.
THEOREM OutputInvariance == Spec => [](Inv /\ OutputInv)
  <1>1. Init => OutputInv
    BY InitOutput
  <1>2. Inv /\ OutputInv /\ [Next]_vars => OutputInv'
    <2>1. ASSUME Inv, OutputInv, UNCHANGED vars PROVE OutputInv'
      BY <2>1, OutputUnchanged DEF Inv, vars, podVars, dirVars, supVars, outputVars
    <2> QED
      BY <2>1, OutputInductive
  <1> QED
    BY <1>1, <1>2, Invariance, PTL DEF Spec

\* A decoder that has the exit code has every frame before it.
LEMMA AllDelivered ==
    ASSUME Inv, exit # NoCode
    PROVE  /\ Len(out) \in Nat /\ Whole = Len(out) + 1 /\ ExitLogged /\ FrameKind(Whole) = "exit"
           /\ Len(log) = 2 * Whole /\ log[Len(log)].val = exit
           /\ \A i \in 1 .. Len(out) :
                FrameKind(i) = out[i].kind /\ log[2 * i].val = out[i].val
  <1>1. /\ out \in Seq([kind : Kinds, val : Nat]) /\ Len(out) \in Nat /\ log \in Seq(Unit) /\ Len(log) \in Nat
    BY DEF Inv, TypeOK, DecoderType, DirType
  <1>2. /\ ~decErr /\ offset = Len(log) /\ pending = <<>> /\ ExitLogged
        /\ log[Len(log)].val = exit
    BY DEF Inv, DecodeInv, ExitLogged
  <1>3. Len(log) = 2 * Len(out) + 2
    BY <1>1, <1>2 DEF Inv, DecodeInv, ExactlyOnce
  <1>4. Whole = Len(out) + 1
    <2>1. Len(log) = 2 * (Len(out) + 1) /\ Len(out) + 1 \in Nat
      BY <1>1, <1>3
    <2> QED
      BY <2>1, WholeIs
  <1>5. FrameKind(Whole) = "exit"
    BY <1>1, <1>2, <1>3, <1>4 DEF ExitLogged, FrameKind
  <1>6. \A i \in 1 .. Len(out) : log[2 * i - 1] = Header(out[i].kind) /\ log[2 * i] = Payload(out[i].val)
    BY <1>2 DEF Inv, DecodeInv, ExactlyOnce
  <1>7. \A i \in 1 .. Len(out) : FrameKind(i) = out[i].kind /\ log[2 * i].val = out[i].val
    <2>1. \A k : Header(k).kind = k
      BY DEF Header
    <2>2. \A v : Payload(v).val = v
      BY DEF Payload
    <2> QED
      BY <1>6, <2>1, <2>2 DEF FrameKind
  <1> QED
    BY <1>1, <1>2, <1>3, <1>4, <1>5, <1>7

\* End to end, from the command's pipes to the runner's stream: if the readers were
\* at EOF when settle returned, a step that reports its exit code has delivered,
\* per stream, every chunk the command wrote, once and in order, whatever broke on
\* the way (frameLog.copy, settle, finish, follow, runStep, Decoder.Write).
THEOREM OutputIsComplete == Spec => []CompleteOutput
  <1>1. ASSUME Inv, OutputInv PROVE CompleteOutput
    <2> SUFFICES ASSUME result.kind = "exit", eof, NEW k \in Streams PROVE Received(k, wrote[k])
      BY DEF CompleteOutput
    <2>0. TypeOK /\ exit # NoCode
      BY <1>1 DEF Inv, ResultInv
    <2>1. /\ Len(out) \in Nat /\ Whole = Len(out) + 1 /\ ExitLogged /\ FrameKind(Whole) = "exit"
          /\ \A i \in 1 .. Len(out) : FrameKind(i) = out[i].kind /\ log[2 * i].val = out[i].val
      BY <1>1, <2>0, AllDelivered
    <2>2. /\ starts > 0 /\ framed[k] = wrote[k] /\ wrote[k] \in Nat
      BY <1>1, <2>0, LogFacts DEF OutputInv, ReaderInv
    <2>3. out \in Seq([kind : Kinds, val : Nat])
      BY <2>0 DEF TypeOK, DecoderType
    <2>4. \A i \in 1 .. Len(out) : out[i].kind = k => out[i].val \in 1 .. wrote[k]
      <3> SUFFICES ASSUME NEW i \in 1 .. Len(out), out[i].kind = k PROVE out[i].val \in 1 .. wrote[k]
        OBVIOUS
      <3>1. i \in 1 .. Whole /\ FrameKind(i) = k /\ log[2 * i].val = out[i].val
        BY <2>1
      <3>2. log[2 * i].val <= framed[k] /\ log[2 * i].val > 0 /\ log[2 * i].val \in Nat
        BY <1>1, <2>0, <2>2, <3>1, LogFacts DEF OutputInv, OrderInv
      <3> QED
        BY <2>2, <3>1, <3>2
    <2>5. \A v \in 1 .. wrote[k] : \E i \in 1 .. Len(out) : out[i] = [kind |-> k, val |-> v]
      <3> SUFFICES ASSUME NEW v \in 1 .. wrote[k]
                   PROVE  \E i \in 1 .. Len(out) : out[i] = [kind |-> k, val |-> v]
        OBVIOUS
      <3>1. PICK i \in 1 .. Whole : FrameKind(i) = k /\ log[2 * i].val = v
        BY <1>1, <2>1 DEF OutputInv, PresentInv, Logged
      <3>2. i # Whole
        BY <2>1, <3>1 DEF Streams
      <3>3. i \in 1 .. Len(out)
        BY <2>1, <3>2
      <3>4. out[i].kind = k /\ out[i].val = v
        BY <2>1, <3>1, <3>3
      <3>5. out[i] \in [kind : Kinds, val : Nat]
        BY <2>3, <3>3, ElementOfSeq
      <3> QED
        BY <3>3, <3>4, <3>5
    <2>6. \A i, j \in 1 .. Len(out) :
            i < j /\ out[i].kind = k /\ out[j].kind = k => out[i].val < out[j].val
      <3> SUFFICES ASSUME NEW i \in 1 .. Len(out), NEW j \in 1 .. Len(out), i < j,
                          out[i].kind = k, out[j].kind = k
                   PROVE  out[i].val < out[j].val
        OBVIOUS
      <3>1. i \in 1 .. Whole /\ j \in 1 .. Whole /\ FrameKind(i) = k /\ FrameKind(j) = k
            /\ log[2 * i].val = out[i].val /\ log[2 * j].val = out[j].val
        BY <2>1
      <3>2. log[2 * i].val < log[2 * j].val
        BY <1>1, <3>1 DEF OutputInv, OrderInv
      <3> QED
        BY <3>1, <3>2
    <2> QED
      BY <2>4, <2>5, <2>6 DEF Received
  <1> QED
    BY <1>1, OutputInvariance, PTL

---------------------------------------------------------------------------
(* The refinement: every step of StepResume is one of StepDelivery.        *)

\* f is a function on 1 .. n, and g extends it by one value.
Extended(n, f, g) ==
    /\ f = [i \in 1 .. n |-> f[i]] /\ g = [i \in 1 .. n + 1 |-> g[i]]
    /\ \A i \in 1 .. n : f[i] = g[i]

\* Such functions are sequences, and the value is appended.
LEMMA TableAppend == ASSUME NEW n \in Nat, NEW f, NEW g, Extended(n, f, g) PROVE g = Append(f, g[n + 1])
  <1>0. /\ f = [i \in 1 .. n |-> f[i]] /\ g = [i \in 1 .. n + 1 |-> g[i]]
        /\ \A i \in 1 .. n : f[i] = g[i]
    BY Zenon DEF Extended
  <1> DEFINE S == {g[i] : i \in 1 .. n + 1}
  <1>1. /\ \A i \in 1 .. n + 1 : g[i] \in S
        /\ \A i \in 1 .. n : i \in 1 .. n + 1
        /\ n + 1 \in 1 .. n + 1 /\ n + 1 \in Nat
    OBVIOUS
  <1> HIDE DEF S
  <1>2. /\ [i \in 1 .. n |-> f[i]] \in [1 .. n -> S]
        /\ [i \in 1 .. n + 1 |-> g[i]] \in [1 .. n + 1 -> S]
    BY <1>0, <1>1
  <1>3. f \in [1 .. n -> S] /\ g \in [1 .. n + 1 -> S]
    BY <1>0, <1>2, Zenon
  <1>4. \A m \in Nat : [1 .. m -> S] \subseteq Seq(S)
    <2> SUFFICES ASSUME NEW m \in Nat PROVE [1 .. m -> S] \subseteq UNION {[1 .. j -> S] : j \in Nat}
      BY SeqDef
    <2>1. [1 .. m -> S] \in {[1 .. j -> S] : j \in Nat}
      BY Zenon
    <2> QED
      BY <2>1, Zenon
  <1>5. f \in Seq(S) /\ g \in Seq(S) /\ g[n + 1] \in S
    BY <1>1, <1>3, <1>4
  <1>6. Len(f) = n /\ Len(g) = n + 1
    BY <1>1, <1>3, <1>5, LenProperties
  <1>7. PICK e \in S : e = g[n + 1]
    BY <1>5
  <1>8. /\ Append(f, e) \in Seq(S) /\ Len(Append(f, e)) = n + 1
        /\ \A i \in 1 .. n : Append(f, e)[i] = f[i]
        /\ Append(f, e)[n + 1] = e
    BY <1>5, <1>6, AppendProperties
  <1>9. \A i \in 1 .. n + 1 : Append(f, e)[i] = g[i]
    <2>1. \A i \in 1 .. n + 1 : i \in 1 .. n \/ i = n + 1
      OBVIOUS
    <2> QED
      BY <1>0, <1>7, <1>8, <2>1
  <1>10. PICK a \in Seq(S) : a = Append(f, e)
    BY <1>8
  <1>11. g = a
    BY <1>5, <1>6, <1>8, <1>9, <1>10, SeqEqual
  <1> QED
    BY <1>7, <1>10, <1>11

\* A sequence is the function on its indices.
LEMMA SeqTable ==
    ASSUME NEW S, NEW s \in Seq(S), NEW n \in Nat, NEW f, f = [i \in 1 .. n |-> f[i]]
    PROVE  Len(s) = n /\ (\A i \in 1 .. n : s[i] = f[i]) => s = f
  OBVIOUS

\* The log has no exit record while the supervisor may write to it.
LEMMA NotExited == ASSUME Inv, ~LogClosed PROVE ~Exited /\ Frames = Whole /\ Recorded = NoCode
  <1>1. TypeOK /\ LogInv /\ log \in Seq(Unit)
    BY DEF Inv, TypeOK, DirType
  <1>2. Whole \in Nat /\ \A i \in 1 .. Whole : 2 * i - 1 \in 1 .. Len(log)
    BY <1>1, WholeFrames
  <1>3. Whole > 0 => Whole \in 1 .. Whole
    BY <1>2
  <1>4. \A i \in 1 .. Len(log) : log[i].kind # "exit"
    BY <1>1, NoExitYet
  <1>5. ~Exited
    BY <1>2, <1>3, <1>4 DEF Exited, FrameKind
  <1> QED
    BY <1>5 DEF Frames, Recorded

\* Nothing is produced or recorded when no whole frame is added to the log.
LEMMA LogQuiet ==
    ASSUME Inv, Same, log' = log \/ ~LogClosed
    PROVE  UNCHANGED <<Produced, Recorded>>
  <1>1. CASE log' = log
    BY <1>1 DEF Produced, Recorded, Frames, Exited, Whole, FrameKind
  <1>2. CASE ~LogClosed
    <2>1. ~Exited /\ Frames = Whole /\ Recorded = NoCode /\ Whole \in Nat
      BY <1>2, NotExited, LogFacts DEF Inv
    <2>2. Whole' = Whole
      BY DEF Same
    <2>3. \A i \in 1 .. Whole : log'[2 * i - 1] = log[2 * i - 1] /\ log'[2 * i] = log[2 * i]
      BY DEF Same, Kept
    <2>4. ~Exited'
      <3>1. Whole > 0 => Whole \in 1 .. Whole
        BY <2>1
      <3> QED
        BY <2>1, <2>2, <2>3, <3>1 DEF Exited, FrameKind
    <2>5. Frames' = Whole /\ Recorded' = NoCode
      BY <2>2, <2>4 DEF Frames, Recorded
    <2>6. Produced' = Produced
      BY <2>1, <2>3, <2>5 DEF Produced, FrameKind
    <2> QED
      BY <2>1, <2>5, <2>6
  <1> QED
    BY <1>1, <1>2

\* A frame of a stream in the log is output the step produced.
LEMMA LogProduces ==
    ASSUME Inv, ~LogClosed, NEW k \in Streams, NEW v \in Nat, Grown(k, v)
    PROVE  Recorded = NoCode /\ Recorded' = NoCode /\ Produced' = Append(Produced, [kind |-> k, val |-> v])
  <1>1. ~Exited /\ Frames = Whole /\ Recorded = NoCode /\ Whole \in Nat
    BY NotExited, LogFacts DEF Inv
  <1>2. /\ Whole' = Whole + 1 /\ log'[2 * Whole + 1] = Header(k) /\ log'[2 * Whole + 2] = Payload(v)
        /\ \A i \in 1 .. Whole : log'[2 * i - 1] = log[2 * i - 1] /\ log'[2 * i] = log[2 * i]
    BY DEF Grown, Kept
  <1>3. 2 * (Whole + 1) - 1 = 2 * Whole + 1 /\ 2 * (Whole + 1) = 2 * Whole + 2
    BY <1>1
  <1>4. log'[2 * (Whole + 1) - 1].kind = k /\ log'[2 * (Whole + 1)].val = v
    BY <1>2, <1>3 DEF Header, Payload
  <1>5. ~Exited'
    BY <1>2, <1>4 DEF Exited, FrameKind, Streams
  <1>6. Frames' = Whole + 1 /\ Recorded' = NoCode
    BY <1>2, <1>5 DEF Frames, Recorded
  <1>7. /\ Produced = [i \in 1 .. Whole |-> Produced[i]] /\ Produced' = [i \in 1 .. Whole + 1 |-> Produced'[i]]
        /\ \A i \in 1 .. Whole : Produced[i] = [kind |-> log[2 * i - 1].kind, val |-> log[2 * i].val]
        /\ \A i \in 1 .. Whole + 1 : Produced'[i] = [kind |-> log'[2 * i - 1].kind, val |-> log'[2 * i].val]
    BY <1>1, <1>6 DEF Produced, FrameKind
  <1>8. Whole + 1 \in 1 .. Whole + 1 /\ \A i \in 1 .. Whole : i \in 1 .. Whole + 1
    BY <1>1
  <1>9. Produced'[Whole + 1] = [kind |-> k, val |-> v]
    BY <1>4, <1>7, <1>8
  <1>10. \A i \in 1 .. Whole : Produced[i] = Produced'[i]
    <2> SUFFICES ASSUME NEW i \in 1 .. Whole PROVE Produced[i] = Produced'[i]
      OBVIOUS
    <2>1. i \in 1 .. Whole + 1
      BY <1>8
    <2>2. log'[2 * i - 1] = log[2 * i - 1] /\ log'[2 * i] = log[2 * i]
      BY <1>2
    <2>3. /\ Produced[i] = [kind |-> log[2 * i - 1].kind, val |-> log[2 * i].val]
          /\ Produced'[i] = [kind |-> log'[2 * i - 1].kind, val |-> log'[2 * i].val]
      BY <1>7, <2>1
    <2> QED
      BY <2>2, <2>3
  <1>11. Produced' = Append(Produced, Produced'[Whole + 1])
    <2>1. PICK f, g : f = Produced /\ g = Produced'
      OBVIOUS
    <2>2. /\ f = [i \in 1 .. Whole |-> f[i]] /\ g = [i \in 1 .. Whole + 1 |-> g[i]]
          /\ \A i \in 1 .. Whole : f[i] = g[i]
      BY <1>7, <1>10, <2>1
    <2>3. PICK n \in Nat : n = Whole
      BY <1>1
    <2>4. g = Append(f, g[n + 1])
      <3>1. Extended(n, f, g)
        BY <2>2, <2>3, Zenon DEF Extended
      <3> QED
        BY <3>1, TableAppend
    <2> QED
      BY <2>1, <2>3, <2>4
  <1> QED
    BY <1>1, <1>6, <1>9, <1>11

\* The exit frame records the exit code and is no output.
LEMMA LogRecords ==
    ASSUME Inv, ~LogClosed, NEW c \in Nat, Grown("exit", c)
    PROVE  Recorded = NoCode /\ Recorded' = c /\ Produced' = Produced
  <1>1. ~Exited /\ Frames = Whole /\ Recorded = NoCode /\ Whole \in Nat
    BY NotExited, LogFacts DEF Inv
  <1>2. /\ Whole' = Whole + 1 /\ Len(log') = 2 * Whole + 2
        /\ log'[2 * Whole + 1] = Header("exit") /\ log'[2 * Whole + 2] = Payload(c)
        /\ \A i \in 1 .. Whole : log'[2 * i - 1] = log[2 * i - 1] /\ log'[2 * i] = log[2 * i]
    BY DEF Grown, Kept
  <1>3. 2 * (Whole + 1) - 1 = 2 * Whole + 1
    BY <1>1
  <1>4. log'[2 * (Whole + 1) - 1].kind = "exit" /\ log'[Len(log')].val = c
    BY <1>2, <1>3 DEF Header, Payload
  <1>5. Exited'
    BY <1>1, <1>2, <1>4 DEF Exited, FrameKind
  <1>6. Frames' = Whole /\ Recorded' = c
    BY <1>1, <1>2, <1>4, <1>5 DEF Frames, Recorded
  <1>7. Produced' = Produced
    BY <1>1, <1>2, <1>6 DEF Produced, FrameKind
  <1> QED
    BY <1>1, <1>6, <1>7

\* The decoder sends on only the next chunk of what was produced, and holds back
\* the exit record.
LEMMA DeliverDelivers ==
    ASSUME Inv, Deliver, out' # out
    PROVE  /\ Len(out) < Frames
           /\ out' = Append(out, [kind |-> FrameKind(Len(out) + 1), val |-> log[2 * (Len(out) + 1)].val])
  <1>1. /\ log \in Seq(Unit) /\ Len(log) \in Nat /\ out \in Seq([kind : Kinds, val : Nat]) /\ Len(out) \in Nat
        /\ pending \in Seq(Unit) /\ Len(pending) <= 1 /\ offset \in Nat /\ dpos \in Nat /\ fpos \in Nat
    BY DEF Inv, TypeOK, DecoderType, DirType, StreamType
  <1>2. PICK sent \in BOOLEAN : ~decErr /\ Decode(log[dpos + 1], sent)
    BY DEF Deliver, decVars
  <1>3. pending # <<>> /\ pending[1].kind # "exit"
        /\ out' = Append(out, [kind |-> pending[1].kind, val |-> log[dpos + 1].val])
    BY <1>2 DEF Decode
  <1>4. fst # "open" /\ ppc = "exec" /\ dpos < fpos
    BY <1>1 DEF Deliver, Inv, StreamInv
  <1>5. dpos = offset /\ fpos <= Len(log)
    BY <1>2, <1>4 DEF Inv, StreamInv
  <1>6. Len(pending) = 1 /\ exit = NoCode
    <2>1. Len(pending) # 0 /\ Len(pending) \in Nat
      BY <1>1, <1>3
    <2>2. exit = NoCode
      BY <1>3 DEF Inv, DecodeInv
    <2>3. Len(pending) <= 1
      BY <1>1
    <2>4. \A n \in Nat : n <= 1 /\ n # 0 => n = 1
      OBVIOUS
    <2> QED
      BY <2>1, <2>2, <2>3, <2>4, Zenon
  <1>7. offset = 2 * Len(out) + 1 /\ pending[1] = log[offset]
    BY <1>1, <1>2, <1>3, <1>6 DEF Inv, DecodeInv, ExactlyOnce
  <1>8. /\ dpos + 1 = 2 * (Len(out) + 1) /\ offset = 2 * (Len(out) + 1) - 1
        /\ 2 * (Len(out) + 1) <= Len(log)
    BY <1>1, <1>4, <1>5, <1>7
  <1>9. /\ FrameKind(Len(out) + 1) = pending[1].kind
        /\ out' = Append(out, [kind |-> FrameKind(Len(out) + 1), val |-> log[2 * (Len(out) + 1)].val])
    BY <1>3, <1>7, <1>8 DEF FrameKind
  <1>10. Whole \in Nat /\ (Len(log) = 2 * Whole \/ Len(log) = 2 * Whole + 1)
    BY <1>1, WholeFrames
  <1>11. Len(out) + 1 <= Whole
    BY <1>1, <1>8, <1>10
  <1>12. Exited => Len(out) + 1 # Whole
    BY <1>3, <1>9 DEF Exited
  <1>13. Len(out) < Frames
    BY <1>1, <1>10, <1>11, <1>12 DEF Frames
  <1> QED
    BY <1>9, <1>13

\* When the decoder has the exit code, all that was produced has been delivered and
\* that code is the recorded one.
LEMMA ExitDelivered ==
    ASSUME Inv, exit # NoCode
    PROVE  Recorded = exit /\ out = Produced
  <1>1. /\ Len(out) \in Nat /\ Whole = Len(out) + 1 /\ FrameKind(Whole) = "exit"
        /\ log[Len(log)].val = exit
        /\ \A i \in 1 .. Len(out) : FrameKind(i) = out[i].kind /\ log[2 * i].val = out[i].val
    BY AllDelivered
  <1>2. Exited
    BY <1>1 DEF Exited
  <1>3. Recorded = exit /\ Frames = Len(out)
    BY <1>1, <1>2 DEF Recorded, Frames
  <1>4. out \in Seq([kind : Kinds, val : Nat])
    BY DEF Inv, TypeOK, DecoderType
  <1>5. \A i \in 1 .. Len(out) : out[i] \in [kind : Kinds, val : Nat]
    BY <1>4, ElementOfSeq
  <1>6. \A i \in 1 .. Len(out) : out[i] = [kind |-> out[i].kind, val |-> out[i].val]
    BY <1>5
  <1>7. /\ Produced = [i \in 1 .. Len(out) |-> Produced[i]]
        /\ \A i \in 1 .. Len(out) : Produced[i] = [kind |-> FrameKind(i), val |-> log[2 * i].val]
    BY <1>3 DEF Produced
  <1>8. \A i \in 1 .. Len(out) : out[i] = Produced[i]
    BY <1>1, <1>6, <1>7
  <1>9. out = Produced
    <2>0. PICK n \in Nat : n = Len(out)
      BY <1>1
    <2>1. PICK f, S : f = Produced /\ S = [kind : Kinds, val : Nat]
      OBVIOUS
    <2>2. out \in Seq(S) /\ f = [i \in 1 .. n |-> f[i]] /\ Len(out) = n /\ \A i \in 1 .. n : out[i] = f[i]
      BY <1>4, <1>7, <1>8, <2>0, <2>1
    <2>3. out = f
      BY <2>2, SeqTable
    <2> QED
      BY <2>1, <2>3
  <1> QED
    BY <1>3, <1>9

\* A supervisor's step adds to what was produced or recorded, or nothing.
LEMMA SupervisorRefines ==
    ASSUME Inv, OutputInv, UNCHANGED <<ppc, result, out>>,
           StartFails \/ Finish \/ \E k \in Streams : CopyChunk(k)
    PROVE  Delivery!Next \/ UNCHANGED Delivery!vars
  <1>1. TypeOK /\ LogInv /\ Reported' = Reported
    BY DEF Inv, Reported
  <1>2. CASE UNCHANGED <<Produced, Recorded>>
    BY <1>1, <1>2 DEF Delivery!vars
  <1>3. ASSUME NEW k \in Streams, NEW v \in Nat, v <= MaxChunks, Grown(k, v), ~LogClosed
        PROVE  Delivery!Produce
    <2>1. Recorded = NoCode /\ Recorded' = NoCode /\ Produced' = Append(Produced, [kind |-> k, val |-> v])
      BY <1>3, LogProduces
    <2>2. [kind |-> k, val |-> v] \in [kind : Streams, val : 0 .. MaxChunks]
      BY <1>3
    <2> QED
      BY <1>1, <2>1, <2>2 DEF Delivery!Produce
  <1>4. CASE StartFails
    <2>1. WriteLog(AppendFrame("stderr", 0)) /\ ~LogClosed /\ "stderr" \in Streams
      BY <1>4 DEF StartFails, LogClosed, Streams
    <2>2. Same \/ Grown("stderr", 0)
      BY <1>1, <2>1, WriteLogCases
    <2>3. CASE Same
      BY <1>2, <2>1, <2>3, LogQuiet
    <2>4. CASE Grown("stderr", 0)
      BY <1>3, <2>1, <2>4 DEF Delivery!Next
    <2> QED
      BY <2>2, <2>3, <2>4
  <1>5. CASE Finish
    <2>1. sup = "finish" /\ ~LogClosed /\ code \in Nat /\ code \in Codes \cup FailCodes
      BY <1>1, <1>5 DEF Finish, LogClosed, LogInv, OutputInv, ReaderInv, NoCode
    <2>2. CASE Same
      BY <1>2, <2>1, <2>2, LogQuiet
    <2>3. CASE Grown("exit", code)
      <3>1. Recorded = NoCode /\ Recorded' = code /\ Produced' = Produced
        BY <2>1, <2>3, LogRecords
      <3>2. Delivery!RecordExit
        BY <1>1, <2>1, <3>1 DEF Delivery!RecordExit
      <3> QED
        BY <3>2 DEF Delivery!Next
    <2> QED
      BY <1>5, <2>2, <2>3, FinishCases
  <1>6. ASSUME NEW k \in Streams, CopyChunk(k) PROVE Delivery!Next \/ UNCHANGED Delivery!vars
    <2>1. CASE LogOpen
      <3>1. /\ framed[k] \in Nat /\ framed[k] + 1 \in Nat /\ framed[k] + 1 <= MaxChunks /\ ~LogClosed
            /\ WriteLog(AppendFrame(k, framed[k] + 1))
        <4>1. framed[k] \in Nat /\ wrote["stdout"] \in Nat /\ wrote["stderr"] \in Nat
              /\ framed[k] < wrote[k] /\ wrote["stdout"] + wrote["stderr"] <= MaxChunks
          BY <1>1, <1>6, LogFacts DEF Streams, OutputInv, ReaderInv, CopyChunk
        <4>2. wrote[k] = wrote["stdout"] \/ wrote[k] = wrote["stderr"]
          BY DEF Streams
        <4> QED
          BY <1>6, <2>1, <4>1, <4>2 DEF CopyChunk, LogOpen, LogClosed
      <3>2. Same \/ Grown(k, framed[k] + 1)
        BY <1>1, <3>1, WriteLogCases
      <3>3. CASE Same
        BY <1>2, <3>1, <3>3, LogQuiet
      <3>4. CASE Grown(k, framed[k] + 1)
        BY <1>3, <3>1, <3>4 DEF Delivery!Next
      <3> QED
        BY <3>2, <3>3, <3>4
    <2>2. CASE ~LogOpen
      BY <1>2, <1>6, <2>2 DEF CopyChunk, Produced, Recorded, Frames, Exited, Whole, FrameKind
    <2> QED
      BY <2>1, <2>2
  <1> QED
    BY <1>4, <1>5, <1>6

\* Exec returning is the outcome the runner sees.
LEMMA ReturnRefines ==
    ASSUME Inv, ppc # "done", ppc' = "done", UNCHANGED <<log, out>>,
           result' = result \/ result'.kind = "cancelled"
    PROVE  Delivery!Next
  <1>1. UNCHANGED <<Produced, Recorded>>
    BY DEF Produced, Recorded, Frames, Exited, Whole, FrameKind
  <1>2. Reported = [kind |-> "pending", code |-> NoCode]
    BY DEF Reported
  <1>3. CASE result' = result /\ result.kind = "exit"
    <2>1. exit # NoCode /\ result.code = exit
      BY <1>3 DEF Inv, ResultInv
    <2>2. Recorded = exit /\ out = Produced
      BY <2>1, ExitDelivered
    <2>3. result = [kind |-> "exit", code |-> Recorded]
      <3>1. PICK K, C : result \in [kind : K, code : C]
        BY DEF Inv, TypeOK, PluginType
      <3> QED
        BY <1>3, <2>1, <2>2, <3>1
    <2>4. Reported' = [kind |-> "exit", code |-> Recorded]
      BY <1>3, <2>3 DEF Reported
    <2>5. Delivery!ReportExit
      BY <1>1, <1>2, <2>1, <2>2, <2>4 DEF Delivery!ReportExit, Delivery!Pending, Delivery!Outcome
    <2> QED
      BY <2>5 DEF Delivery!Next
  <1>4. CASE result'.kind # "exit"
    <2>1. Reported' = [kind |-> "error", code |-> NoCode]
      BY <1>4 DEF Reported
    <2>2. Delivery!ReportError
      BY <1>1, <1>2, <2>1 DEF Delivery!ReportError, Delivery!Pending, Delivery!Outcome
    <2> QED
      BY <2>2 DEF Delivery!Next
  <1> QED
    BY <1>3, <1>4

\* Every step of StepResume is a step of StepDelivery or leaves it alone.
LEMMA StepRefines ==
    ASSUME Inv, OutputInv, Next
    PROVE  Delivery!Next \/ UNCHANGED Delivery!vars
  <1>1. CASE UNCHANGED <<log, out>> /\ (UNCHANGED <<ppc, result>> \/ (ppc # "done" /\ ppc' # "done"))
    <2>1. UNCHANGED <<Produced, Recorded>>
      BY <1>1 DEF Produced, Recorded, Frames, Exited, Whole, FrameKind
    <2>2. Reported' = Reported
      BY <1>1 DEF Reported
    <2> QED
      BY <1>1, <2>1, <2>2 DEF Delivery!vars
  <1>2. CASE Deliver
    <2>1. CASE out' # out
      <3>1. /\ Len(out) < Frames
            /\ out' = Append(out, [kind |-> FrameKind(Len(out) + 1), val |-> log[2 * (Len(out) + 1)].val])
        BY <1>2, <2>1, DeliverDelivers
      <3>2. Len(out) \in Nat /\ Whole \in Nat /\ Frames \in Int
        BY LogFacts DEF Inv, TypeOK, DecoderType, Frames
      <3>3. Len(out) + 1 \in 1 .. Frames /\ Frames \in Nat
        BY <3>1, <3>2
      <3>4. Produced[Len(out) + 1] = [kind |-> FrameKind(Len(out) + 1), val |-> log[2 * (Len(out) + 1)].val]
        BY <3>3 DEF Produced
      <3>5. Len(Produced) = Frames
        BY <3>3 DEF Produced
      <3>6. UNCHANGED <<ppc, result, log>> /\ ppc = "exec"
        BY <1>2 DEF Deliver, podVars, dirVars
      <3>7. UNCHANGED <<Produced, Recorded>>
        BY <3>6 DEF Produced, Recorded, Frames, Exited, Whole, FrameKind
      <3>8. Reported = [kind |-> "pending", code |-> NoCode] /\ Reported' = Reported
        BY <3>6 DEF Reported
      <3>9. Delivery!Deliver
        BY <3>1, <3>4, <3>5, <3>7, <3>8 DEF Delivery!Deliver, Delivery!Pending, Delivery!Outcome
      <3> QED
        BY <3>9 DEF Delivery!Next
    <2> QED
      BY <1>1, <1>2, <2>1 DEF Deliver, podVars, dirVars
  <1>3. CASE ExecDone
    <2>1. CASE ppc' = "done"
      BY <1>3, <2>1, ReturnRefines DEF ExecDone, podVars, dirVars, decVars
    <2> QED
      BY <1>1, <1>3, <2>1 DEF ExecDone, podVars, dirVars, decVars
  <1>4. CASE Kill \/ KillFails
    BY <1>4, ReturnRefines DEF Kill, KillFails, Verdict, podVars, dirVars, decVars
  <1>5. CASE Judge \/ BackoffCancelled
    BY <1>1, <1>5 DEF Judge, BackoffCancelled, Return, Again, podVars, dirVars, decVars
  <1>6. CASE Plugin /\ ~Deliver /\ ~ExecDone /\ ~Kill /\ ~KillFails /\ ~Judge /\ ~BackoffCancelled
    BY <1>1, <1>6 DEF Plugin, ExecStart, ExecRefused, StreamBreaks, ExecReturns, Reattach,
       podVars, dirVars, decVars
  <1>7. CASE (\E p \in Procs : Run(p)) \/ Follow
    BY <1>1, <1>7 DEF Run, CreateLog, StartSupervisor, RecordSupervisor, RecordPid, RunFails, Follow,
       FollowOpen, Drain, CheckDone, CheckAlive, RecheckDone, FollowFails, PodUnchanged,
       pluginVars, podVars, dirVars, decVars
  <1>8. CASE StartFails \/ Finish \/ \E k \in Streams : CopyChunk(k)
    <2>1. UNCHANGED <<ppc, result, out>>
      BY <1>8 DEF StartFails, Finish, CopyChunk, OutsideSup, pluginVars, decVars
    <2> QED
      BY <1>8, <2>1, SupervisorRefines
  <1>9. CASE Supervise \/ Command
    BY <1>1, <1>8, <1>9 DEF Supervise, Command, OpenLogFails, StartCommand, WaitReturns, Settle,
       WriteDone, SupervisorExits, SupervisorDies, CommandWrites, CommandExits, LeftoverExits,
       OutsideSup, pluginVars, decVars
  <1>10. CASE Environment \/ Terminated
    BY <1>1, <1>10 DEF Environment, Cancel, PodDeleting, PodDown, DeadlinePasses, Terminated, vars,
       pluginVars, podVars, dirVars, decVars
  <1> QED
    BY <1>2, <1>3, <1>4, <1>5, <1>6, <1>7, <1>9, <1>10 DEF Next

\* Exec keeps its promise to the runner (plugin.proto's Exec): under broken and
\* resumed streams, retries, failing disks, dying processes and cancellation it
\* behaves like StepDelivery, which delivers the step's output in order, each chunk
\* once, and reports an exit code only if the step recorded it and after all output.
THEOREM ExecKeepsItsPromise == Spec => ImplementsDelivery
  <1>1. Init => Delivery!Init
    <2> SUFFICES ASSUME Init PROVE Delivery!Init
      OBVIOUS
    <2>1. Len(log) = 2 * 0
      BY DEF Init
    <2>2. Whole = 0
      BY <2>1, WholeIs
    <2>3. ~Exited
      BY <2>2 DEF Exited
    <2>4. Frames = 0 /\ Recorded = NoCode
      BY <2>2, <2>3 DEF Frames, Recorded
    <2>5. Produced = <<>>
      BY <2>4 DEF Produced
    <2>6. Reported = [kind |-> "pending", code |-> NoCode] /\ out = <<>>
      BY DEF Init, Reported
    <2> QED
      BY <2>4, <2>5, <2>6 DEF Delivery!Init, Delivery!Pending, Delivery!Outcome
  <1>2. Inv /\ OutputInv /\ [Next]_vars => [Delivery!Next]_(Delivery!vars)
    <2>1. ASSUME UNCHANGED vars PROVE UNCHANGED Delivery!vars
      <3>1. UNCHANGED <<log, out, ppc, result>>
        BY <2>1 DEF vars, pluginVars, decVars, podVars, dirVars
      <3>2. UNCHANGED <<Produced, Recorded>>
        BY <3>1 DEF Produced, Recorded, Frames, Exited, Whole, FrameKind
      <3>3. Reported' = Reported
        BY <3>1 DEF Reported
      <3> QED
        BY <3>1, <3>2, <3>3 DEF Delivery!vars
    <2> QED
      BY <2>1, StepRefines
  <1> QED
    BY <1>1, <1>2, OutputInvariance, PTL DEF Spec, ImplementsDelivery, Delivery!Spec
=============================================================================
