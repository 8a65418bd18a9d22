---------------------------- MODULE CallsProofs ----------------------------
(* The inductive invariants of PodPrepare and FileCopy, and those of all the *)
(* components of Calls together.                                             *)
EXTENDS Calls, JobPlanProofs, StepDirsProofs, StepWireProofs, SequenceTheorems, TLAPS

HIDE DirsAssumption

---------------------------------------------------------------------------
(* The end of Start, for any container, any number of attempts and any     *)
(* scripts left running beside each other.                                 *)

\* The image's own tool cache can be linked: nothing was mounted in its place.
MayLink == Target = "usable" /\ ~box.mounted

\* What a script that is past its tests saw is still true of toolCachePath.
SeenInv ==
    /\ box.mounted => tool = "dir"
    /\ tool = "link" => MayLink /\ box.links # "no"
    /\ \A a \in Attempts :
         /\ script[a] = "link" => MayLink
         /\ script[a] = "target" => MayLink /\ tool # "none" /\ box.links # "no"
         /\ script[a] = "default" => tool # "none"

\* Where ln always works no script makes a directory that another would link over.
LinkInv ==
    box.links = "yes" /\ MayLink =>
        /\ tool # "dir"
        /\ \A a \in Attempts : /\ script[a] = "look" => tool = "link"
                               /\ script[a] \notin {"make", "default"}

\* One exec of each attempt but the running one has failed.
ProbeInv ==
    /\ start = "exec" => broken = attempt
    /\ start = "wait" => broken = attempt + 1 /\ attempt < LastAttempt
    /\ FewBreaksForgiven

PrepareInv == PrepareTypeOK /\ SeenInv /\ LinkInv /\ ProbeInv /\ CacheInUse

USE PrepareAssumption DEF Attempts

\* The steps that only the script of one attempt takes, and the rest.
ScriptStep == \E a \in Attempts : ExecScript(a) \/ Script(a)
StartStep == PrepareReturns \/ ExecBroken \/ TryAgain \/ WaitExpired \/ Expire \/ ReadEnv \/ ReadEnvFails

\* What is at toolCachePath never changes once there is something.
LEMMA ToolStays == ASSUME PrepareNext, tool # "none" PROVE tool' = tool
  <1>1. CASE ScriptStep
    <2>1. PICK a \in Attempts : ExecScript(a) \/ Script(a)
      BY <1>1 DEF ScriptStep
    <2> QED
      BY <2>1 DEF ExecScript, Script, MakeLayout, TestTarget, LinkTool, LookAtTool, MakeTool, Linked
  <1>2. CASE StartStep
    BY <1>2 DEF StartStep, PrepareReturns, ScriptOk, ScriptFailed, NoShell, ExecBroken, TryAgain,
                WaitExpired, Expire, ReadEnv, ReadEnvFails
  <1> QED
    BY <1>1, <1>2 DEF PrepareNext, ScriptStep, StartStep

\* A script changes only where it stands and what is at toolCachePath.
LEMMA ScriptMoves ==
    ASSUME PrepareTypeOK, NEW a \in Attempts, ExecScript(a) \/ Script(a)
    PROVE  /\ UNCHANGED <<box, start, attempt, expired, broken, why, cache, imageEnv>>
           /\ \A b \in Attempts : b # a => script'[b] = script[b]
           /\ script' \in [Attempts -> ScriptOver \cup {"layout", "test", "link", "look", "make"}]
           /\ tool' \in {"none", "dir", "link"}
  <1> USE DEF PrepareTypeOK, ScriptAt, scriptFrame, ScriptOver
  <1>1. CASE ExecScript(a)
    BY <1>1 DEF ExecScript
  <1>2. CASE MakeLayout(a)
    BY <1>2 DEF MakeLayout
  <1>3. CASE TestTarget(a)
    BY <1>3 DEF TestTarget
  <1>4. CASE LinkTool(a)
    BY <1>4 DEF LinkTool, Linked
  <1>5. CASE LookAtTool(a)
    BY <1>5 DEF LookAtTool
  <1>6. CASE MakeTool(a)
    BY <1>6 DEF MakeTool
  <1> QED
    BY <1>1, <1>2, <1>3, <1>4, <1>5, <1>6 DEF Script

\* Every step keeps the types.
LEMMA PrepareTypeInductive == ASSUME PrepareTypeOK, ProbeInv, PrepareNext PROVE PrepareTypeOK'
  <1>1. CASE ScriptStep
    <2>1. PICK a \in Attempts : ExecScript(a) \/ Script(a)
      BY <1>1 DEF ScriptStep
    <2> QED
      BY <2>1, ScriptMoves DEF PrepareTypeOK
  <1>2. CASE ScriptOk
    BY <1>2 DEF PrepareTypeOK, ScriptOk, resolvedToolCache
  <1>3. CASE ExecBroken
    BY <1>3 DEF PrepareTypeOK, ExecBroken, PrepareFails, ScriptOver
  <1>4. CASE TryAgain
    BY <1>4 DEF PrepareTypeOK, TryAgain, NextAttempt, ProbeInv
  <1>5. CASE ScriptFailed \/ NoShell
    BY <1>5 DEF PrepareTypeOK, ScriptFailed, NoShell, PrepareFails
  <1>6. CASE WaitExpired \/ Expire
    BY <1>6 DEF PrepareTypeOK, WaitExpired, Expire, PrepareFails
  <1>7. CASE ReadEnv \/ ReadEnvFails
    BY <1>7 DEF PrepareTypeOK, ReadEnv, ReadEnvFails
  <1> QED
    BY <1>1, <1>2, <1>3, <1>4, <1>5, <1>6, <1>7 DEF PrepareNext, PrepareReturns, ScriptStep

\* A script's step keeps SeenInv and LinkInv.
LEMMA ScriptInductive ==
    ASSUME PrepareTypeOK, SeenInv, LinkInv, NEW a \in Attempts, ExecScript(a) \/ Script(a)
    PROVE  SeenInv' /\ LinkInv'
  <1> USE DEF ScriptAt, scriptFrame, SeenInv, LinkInv, MayLink, Target
  <1>0. /\ box \in Box /\ tool \in {"none", "dir", "link"}
        /\ script \in [Attempts -> ScriptOver \cup {"layout", "test", "link", "look", "make"}]
    BY DEF PrepareTypeOK
  <1>1. CASE ExecScript(a)
    BY <1>0, <1>1 DEF ExecScript
  <1>2. CASE MakeLayout(a)
    BY <1>0, <1>2 DEF MakeLayout
  <1>3. CASE TestTarget(a)
    BY <1>0, <1>3 DEF TestTarget, Linkable
  <1>4. CASE LinkTool(a)
    BY <1>0, <1>4 DEF LinkTool, Linked
  <1>5. CASE LookAtTool(a)
    BY <1>0, <1>5 DEF LookAtTool
  <1>6. CASE MakeTool(a)
    BY <1>0, <1>6 DEF MakeTool
  <1> QED
    BY <1>1, <1>2, <1>3, <1>4, <1>5, <1>6 DEF Script

\* The steps of Start keep SeenInv and LinkInv: at most they lose a script.
LEMMA StartInductive == ASSUME PrepareTypeOK, SeenInv, LinkInv, StartStep PROVE SeenInv' /\ LinkInv'
  <1>1. UNCHANGED <<box, tool>>
    BY DEF StartStep, PrepareReturns, ScriptOk, ScriptFailed, NoShell, ExecBroken, TryAgain, WaitExpired,
           Expire, ReadEnv, ReadEnvFails
  <1>2. \A a \in Attempts : script'[a] \in {script[a], "lost"}
    BY DEF PrepareTypeOK, StartStep, PrepareReturns, ScriptOk, ScriptFailed, NoShell, ExecBroken, TryAgain,
           WaitExpired, Expire, ReadEnv, ReadEnvFails
  <1> QED
    BY <1>1, <1>2 DEF SeenInv, LinkInv, MayLink, Target

\* Every step keeps the count of failed execs.
LEMMA ProbeInductive == ASSUME PrepareTypeOK, ProbeInv, PrepareNext PROVE ProbeInv'
  <1> USE DEF ProbeInv, FewBreaksForgiven
  <1>0. attempt \in Nat /\ broken \in Nat /\ attempt <= LastAttempt /\ LastAttempt \in Nat
    BY DEF PrepareTypeOK
  <1>1. CASE ScriptStep
    <2>1. PICK a \in Attempts : ExecScript(a) \/ Script(a)
      BY <1>1 DEF ScriptStep
    <2> QED
      BY <2>1, ScriptMoves
  <1>2. CASE ScriptOk
    BY <1>2 DEF ScriptOk
  <1>3. CASE ScriptFailed \/ NoShell
    BY <1>3 DEF ScriptFailed, NoShell, PrepareFails
  <1>4. CASE ExecBroken
    BY <1>0, <1>4 DEF ExecBroken, PrepareFails, Stops
  <1>5. CASE TryAgain
    BY <1>0, <1>5 DEF TryAgain, NextAttempt
  <1>6. CASE WaitExpired
    BY <1>6 DEF WaitExpired, PrepareFails
  <1>7. CASE Expire
    BY <1>7 DEF Expire
  <1>8. CASE ReadEnv \/ ReadEnvFails
    BY <1>8 DEF ReadEnv, ReadEnvFails
  <1> QED
    BY <1>1, <1>2, <1>3, <1>4, <1>5, <1>6, <1>7, <1>8 DEF PrepareNext, PrepareReturns, ScriptStep

\* The script that prepare hears from has settled what is at toolCachePath.
LEMMA ScriptOkSettles == ASSUME PrepareTypeOK, SeenInv, LinkInv, ScriptOk PROVE CacheInUse'
  <1>1. /\ attempt \in Attempts /\ script[attempt] \in {"target", "default"} /\ UNCHANGED <<box, tool>>
        /\ cache' = script[attempt] /\ box \in Box /\ tool \in {"none", "dir", "link"}
    BY DEF PrepareTypeOK, ScriptOk, resolvedToolCache
  <1>2. tool # "none" /\ (tool = "link" => MayLink)
    BY <1>1 DEF SeenInv
  <1>3. ASSUME box.links = "yes" PROVE cache' = "target" <=> tool = "link"
    BY <1>1, <1>2, <1>3 DEF SeenInv, LinkInv
  <1>4. ASSUME box.links = "no" PROVE cache' = "default" /\ tool # "link"
    BY <1>1, <1>4 DEF SeenInv
  <1>5. box.links \in {"yes", "no", "flaky"}
    BY <1>1 DEF Box
  <1> QED
    BY <1>1, <1>2, <1>3, <1>4, <1>5 DEF CacheInUse, MayLink, Target

\* No step takes back what prepare announced.
LEMMA CacheInductive ==
    ASSUME PrepareTypeOK, SeenInv, LinkInv, CacheInUse, PrepareNext PROVE CacheInUse'
  <1>1. CASE ScriptOk
    BY <1>1, ScriptOkSettles
  <1>2. CASE ~ScriptOk
    <2>1. Prepared' => Prepared
      <3>1. CASE ScriptStep
        <4>1. PICK a \in Attempts : ExecScript(a) \/ Script(a)
          BY <3>1 DEF ScriptStep
        <4> QED
          BY <4>1, ScriptMoves DEF Prepared
      <3> QED
        BY <1>2, <3>1 DEF Prepared, PrepareNext, ScriptStep, PrepareReturns, ScriptFailed, NoShell, ExecBroken,
              TryAgain, WaitExpired, Expire, ReadEnv, ReadEnvFails, PrepareFails
    <2>2. UNCHANGED <<box, cache>>
      <3>1. CASE ScriptStep
        <4>1. PICK a \in Attempts : ExecScript(a) \/ Script(a)
          BY <3>1 DEF ScriptStep
        <4> QED
          BY <4>1, ScriptMoves
      <3> QED
        BY <1>2, <3>1 DEF PrepareNext, ScriptStep, PrepareReturns, ScriptFailed, NoShell, ExecBroken,
              TryAgain, WaitExpired, Expire, ReadEnv, ReadEnvFails
    <2> QED
      BY <2>1, <2>2, ToolStays DEF CacheInUse, Target
  <1> QED
    BY <1>1, <1>2

\* Start begins with the invariant, and so does an environment that is not being
\* started.
LEMMA PrepareStarts ==
    ASSUME box \in Boxes, tool = (IF box.mounted THEN "dir" ELSE "none"),
           script = [a \in Attempts |-> "none"], start \in {"exec", "idle"}, attempt = 0, expired = FALSE,
           broken = 0, why = "none", cache = "default", imageEnv = "none"
    PROVE  PrepareInv
  <1>1. PrepareTypeOK
    <2>1. expired \in BOOLEAN
      BY Zenon
    <2>2. script \in [Attempts -> ScriptOver] /\ tool \in {"none", "dir", "link"}
      BY DEF ScriptOver
    <2> QED
      BY <2>1, <2>2 DEF PrepareTypeOK
  <1>2. SeenInv /\ LinkInv
    BY DEF SeenInv, LinkInv, MayLink
  <1>3. ProbeInv /\ CacheInUse
    BY DEF ProbeInv, FewBreaksForgiven, CacheInUse, Prepared
  <1> QED
    BY <1>1, <1>2, <1>3 DEF PrepareInv

\* Every step keeps the invariant.
LEMMA PrepareStep == ASSUME PrepareInv, [PrepareNext]_prepareVars PROVE PrepareInv'
  <1>1. CASE PrepareNext
    <2>1. SeenInv' /\ LinkInv'
      <3>1. CASE ScriptStep
        BY <3>1, ScriptInductive DEF PrepareInv, ScriptStep
      <3>2. CASE StartStep
        BY <3>2, StartInductive DEF PrepareInv
      <3> QED
        BY <1>1, <3>1, <3>2 DEF PrepareNext, ScriptStep, StartStep
    <2> QED
      BY <1>1, <2>1, PrepareTypeInductive, ProbeInductive, CacheInductive DEF PrepareInv
  <1>2. CASE UNCHANGED prepareVars
    <2> USE <1>2 DEF PrepareInv, prepareVars
    <2>1. PrepareTypeOK'
      BY DEF PrepareTypeOK
    <2>2. SeenInv' /\ LinkInv'
      BY DEF SeenInv, LinkInv, MayLink, Target
    <2>3. ProbeInv'
      BY DEF ProbeInv, FewBreaksForgiven
    <2>4. CacheInUse'
      BY DEF CacheInUse, Prepared, Target
    <2> QED
      BY <2>1, <2>2, <2>3, <2>4
  <1> QED
    BY <1>1, <1>2

\* Once the cache is announced no step touches toolCachePath.
LEMMA ToolSettled ==
    ASSUME PrepareInv, [PrepareNext]_prepareVars PROVE [Prepared => tool' = tool]_prepareVars
  <1>1. ASSUME PrepareNext, Prepared PROVE tool' = tool
    <2>1. tool # "none"
      BY <1>1 DEF PrepareInv, CacheInUse
    <2> QED
      BY <1>1, <2>1, ToolStays
  <1> QED
    BY <1>1

\* What the invariant says of Start.
LEMMA PrepareSays == ASSUME PrepareInv PROVE PrepareTypeOK /\ CacheInUse /\ FewBreaksForgiven
  BY DEF PrepareInv, ProbeInv

\* Whatever becomes of its execs, and whatever their scripts still do, Start is
\* in a state of the invariant (prepare, prepareScript, imageEnv).
THEOREM PrepareInvariance == PrepareSpec => []PrepareInv
  <1>1. PrepareInit => PrepareInv
    BY PrepareStarts DEF PrepareInit
  <1>2. PrepareInv /\ [PrepareNext]_prepareVars => PrepareInv'
    BY PrepareStep
  <1> QED
    BY <1>1, <1>2, PTL DEF PrepareSpec

\* Start's locals and the container keep their types.
THEOREM PrepareTypeCorrect == PrepareSpec => []PrepareTypeOK
  <1>1. PrepareInv => PrepareTypeOK
    BY PrepareSays
  <1> QED
    BY <1>1, PrepareInvariance, PTL

\* The tool cache path Start announces is the one in use, it leads to a directory
\* steps can write, and no mounted cache was replaced, whatever scripts of broken
\* execs still do beside it (prepareScript, resolvedToolCache).
THEOREM AnnouncedCacheIsInUse == PrepareSpec => []CacheInUse
  <1>1. PrepareInv => CacheInUse
    BY PrepareSays
  <1> QED
    BY <1>1, PrepareInvariance, PTL

\* A script that comes late changes nothing at toolCachePath under the steps.
THEOREM LateScriptsAreHarmless == PrepareSpec => CacheSettled
  <1>1. PrepareInv /\ [PrepareNext]_prepareVars => [Prepared => tool' = tool]_prepareVars
    BY ToolSettled
  <1> QED
    BY <1>1, PrepareInvariance, PTL DEF PrepareSpec, CacheSettled

\* prepare gives up on a container before its time is over only when
\* LastAttempt + 1 execs failed, for every LastAttempt, zero included (prepare).
THEOREM BreaksAreForgiven == PrepareSpec => []FewBreaksForgiven
  <1>1. PrepareInv => FewBreaksForgiven
    BY PrepareSays
  <1> QED
    BY <1>1, PrepareInvariance, PTL

HIDE PrepareAssumption DEF Attempts

---------------------------------------------------------------------------
(* File copies: why a copy that reports success moved the whole archive,   *)
(* for archives, chunks and windows of any size.                           *)

\* What the handler, the goroutine and the exec have done bounds one another.
OrderInv ==
    /\ handler \in {"none", "first", "exec"} => ended = "none"
    /\ handler # "done" => answer = "none"
    /\ answer # "none" => reader \in {"none", "done"}
    /\ handler = "first" => reader = "none" /\ tar = "none"
    /\ ended = "exit0" => tar = "exit0"
    /\ client = "ok" => answer = "ok"

\* CopyIn: the goroutine passes chunks on in order and none is left out; the
\* pipe ends without an error only after the whole archive; when tar stopped
\* short of the mark, the goroutine or the runner knows.
InInv ==
    way = "in" =>
      /\ mark \in 1 .. archive
      /\ handler = "first" => taken = 0
      /\ taken = 0 => stdin = 0
      /\ reader = "recv" => stdin = taken
      /\ reader = "write" => stdin + 1 = taken
      /\ reader = "none" => handler \in {"first", "done"}
      /\ halfClosed => sent = archive \/ answer # "none"
      /\ pipe = "eof" => stdin = archive
      /\ pipe = "failed" => protoErr \/ cancelled
      /\ ~stdinOpen => pipe # "open"
      /\ moved <= stdin /\ moved <= mark
      /\ tar = "exit0" => moved = mark \/ (~stdinOpen /\ moved = stdin)
      /\ answer = "ok" => ended = "exit0" /\ ~protoErr
      /\ CopiedWhole

\* The units of a sequence of chunks of which only the last may not be full.
Units(w) == IF w = <<>> THEN 0 ELSE (Len(w) - 1) * ChunkSize + w[Len(w)]
InFlight == Units(wire)

\* CopyOut: nothing is lost between tar and the runner unless the call fails.
OutInv ==
    way = "out" =>
      /\ \A i \in 1 .. Len(wire) : i < Len(wire) \/ handler # "done" => wire[i] = ChunkSize
      /\ received + InFlight + buf + unwritten <= moved
      /\ handler \in {"first", "exec"} \/ (handler = "joining" /\ ended = "exit0") =>
           cancelled \/ received + InFlight + buf + unwritten = moved
      /\ tar = "exit0" => moved = archive
      /\ ended = "exit0" => unwritten = 0
      /\ answer = "ok" => received + InFlight = archive
      /\ client = "ok" => received = archive

\* An idle half keeps out of the other's way.
WayInv ==
    /\ way # "in" => reader = "none"
    /\ way # "out" => received = 0 /\ wire = <<>> /\ buf = 0 /\ unwritten = 0

CopyInv == CopyTypeOK /\ OrderInv /\ InInv /\ OutInv /\ WayInv

USE CopyAssumption

---------------------------------------------------------------------------
(* Chunks.                                                                 *)

\* A product of sizes is a size.
LEMMA ProductNat == ASSUME NEW n \in Nat PROVE n * ChunkSize \in Nat
  OBVIOUS

\* Units counts from nothing up.
LEMMA UnitsNat == ASSUME NEW w \in Seq(1 .. ChunkSize) PROVE Units(w) \in Nat
  <1>1. CASE w # <<>>
    <2>1. Len(w) - 1 \in Nat /\ w[Len(w)] \in Nat
      BY <1>1
    <2>2. (Len(w) - 1) * ChunkSize \in Nat
      BY <2>1, ProductNat
    <2> QED
      BY <1>1, <2>1, <2>2 DEF Units
  <1> QED
    BY <1>1 DEF Units

\* A chunk sent after full ones adds its units (ChunkWriter.Write, Flush).
LEMMA UnitsAppend ==
    ASSUME NEW w \in Seq(1 .. ChunkSize), \A i \in 1 .. Len(w) : w[i] = ChunkSize,
           NEW n \in 1 .. ChunkSize
    PROVE  Units(Append(w, n)) = Units(w) + n
  <1> DEFINE a == Append(w, n)
  <1>1. Len(a) = Len(w) + 1 /\ a[Len(a)] = n /\ a # <<>>
    OBVIOUS
  <1>2. Units(a) = Len(w) * ChunkSize + n
    BY <1>1 DEF Units
  <1>3. CASE w = <<>>
    BY <1>2, <1>3 DEF Units
  <1>4. CASE w # <<>>
    <2>1. Len(w) \in Nat \ {0}
      BY <1>4
    <2>2. Units(w) = (Len(w) - 1) * ChunkSize + ChunkSize
      BY <1>4, <2>1 DEF Units
    <2>3. ASSUME NEW k \in Nat \ {0} PROVE (k - 1) * ChunkSize + ChunkSize = k * ChunkSize
      OBVIOUS
    <2> QED
      BY <1>2, <2>1, <2>2, <2>3
  <1> QED
    BY <1>3, <1>4

\* The chunk received first takes its units with it (archiveReader).
LEMMA UnitsTail ==
    ASSUME NEW w \in Seq(1 .. ChunkSize), w # <<>>,
           \A i \in 1 .. Len(w) : i < Len(w) => w[i] = ChunkSize
    PROVE  Units(w) = Head(w) + Units(Tail(w))
  <1> DEFINE t == Tail(w)
  <1>1. /\ t \in Seq(1 .. ChunkSize) /\ Len(t) = Len(w) - 1
        /\ \A i \in 1 .. Len(t) : t[i] = w[i + 1]
        /\ Head(w) = w[1] /\ Len(w) \in Nat \ {0}
    BY HeadTailProperties, EmptySeq
  <1>2. CASE Len(w) = 1
    <2>1. \A s \in Seq(1 .. ChunkSize) : s # <<>> => Len(s) \in Nat \ {0}
      BY EmptySeq
    <2>2. t = <<>>
      <3> HIDE DEF t
      <3> QED
        BY <1>1, <1>2, <2>1
    <2> QED
      BY <1>1, <1>2, <2>2 DEF Units
  <1>3. CASE Len(w) # 1
    <2>1. Len(w) >= 2 /\ Head(w) = ChunkSize
      BY <1>1, <1>3
    <2>2. t[Len(t)] = w[Len(w)] /\ t # <<>>
      <3> HIDE DEF t
      <3>1. Len(t) \in 1 .. Len(t) /\ Len(t) + 1 = Len(w)
        BY <1>1, <2>1
      <3> QED
        BY <1>1, <3>1
    <2>3. Units(t) = (Len(w) - 2) * ChunkSize + w[Len(w)]
      BY <1>1, <2>1, <2>2 DEF Units
    <2>4. Units(w) = (Len(w) - 1) * ChunkSize + w[Len(w)]
      BY DEF Units
    <2>5. ASSUME NEW k \in Nat, k >= 2 PROVE (k - 1) * ChunkSize = (k - 2) * ChunkSize + ChunkSize
      BY <2>5
    <2>6. (Len(w) - 1) * ChunkSize = (Len(w) - 2) * ChunkSize + ChunkSize
      BY <1>1, <2>1, <2>5
    <2>7. PICK x \in Nat : x = (Len(w) - 2) * ChunkSize
      BY <1>1, <2>1, ProductNat
    <2>8. Units(t) = x + w[Len(w)] /\ Units(w) = x + ChunkSize + w[Len(w)] /\ w[Len(w)] \in Nat
      BY <1>1, <2>3, <2>4, <2>6, <2>7
    <2>9. ASSUME NEW c \in Nat, NEW l \in Nat PROVE x + c + l = c + (x + l)
      OBVIOUS
    <2>10. x + ChunkSize + w[Len(w)] = ChunkSize + (x + w[Len(w)])
      BY <2>8, <2>9
    <2> QED
      BY <2>1, <2>8, <2>10
  <1> QED
    BY <1>2, <1>3

---------------------------------------------------------------------------
(* The invariant.                                                          *)

\* The steps of CopyIn's four parties, of CopyOut's, and of either.
InStep == \/ SendChunk \/ HalfClose \/ FillFails \/ CopyInReturns \/ FirstChunk \/ PipeWrite
          \/ ReaderRecv \/ DrainStream \/ StdinEnds \/ Extract \/ CopyInExecEnds \/ CopyInAnswer
OutStep == OpenArchive \/ Produce \/ ChunkWrite \/ CopyOutExecEnds \/ CopyOutAnswer \/ ReceiveChunk

\* Every step is one of these.
LEMMA StepCases == CopyNext <=> InStep \/ OutStep \/ TarFails \/ CancelCopy
  BY DEF CopyNext, CopyClient, CopyReader, CopyHandler, CopyExec, InStep, OutStep

USE DEF fixedVars, clientVars, handlerVars, readerVars, podVars, outVars, inFrame, outFrame

\* Every step keeps the types of the flags.
LEMMA FlagInductive == ASSUME FlagType, CopyNext PROVE FlagType'
  <1>1. CASE InStep
    BY <1>1, Zenon DEF FlagType, InStep, SendChunk, HalfClose, FillFails, CopyInReturns, FirstChunk,
         PipeWrite, ReaderRecv, DrainStream, StdinEnds, Extract, CopyInExecEnds, CopyInAnswer
  <1>2. CASE OutStep \/ TarFails \/ CancelCopy
    BY <1>2, Zenon DEF FlagType, OutStep, OpenArchive, Produce, ChunkWrite, CopyOutExecEnds,
         CopyOutAnswer, ReceiveChunk, TarFails, CancelCopy
  <1> QED
    BY <1>1, <1>2, StepCases

\* Every step keeps everyone in a place of theirs.
LEMMA ControlInductive == ASSUME ControlType, CopyNext PROVE ControlType'
  <1> USE DEF ControlType
  <1>1. CASE SendChunk \/ HalfClose \/ FillFails \/ CopyInReturns \/ FirstChunk
    BY <1>1 DEF SendChunk, HalfClose, FillFails, CopyInReturns, FirstChunk
  <1>2. CASE PipeWrite \/ ReaderRecv \/ DrainStream \/ StdinEnds
    BY <1>2 DEF PipeWrite, ReaderRecv, DrainStream, StdinEnds
  <1>3. CASE Extract \/ CopyInExecEnds \/ CopyInAnswer
    BY <1>3 DEF Extract, CopyInExecEnds, CopyInAnswer, CopyInVerdict
  <1>4. CASE OutStep
    BY <1>4 DEF OutStep, OpenArchive, Produce, ChunkWrite, CopyOutExecEnds, CopyOutAnswer, ReceiveChunk
  <1>5. CASE TarFails \/ CancelCopy
    BY <1>5 DEF TarFails, CancelCopy
  <1> QED
    BY <1>1, <1>2, <1>3, <1>4, <1>5, StepCases DEF InStep

\* CopyIn's steps keep the counts in order: sent, taken, passed on, extracted.
LEMMA InCounts == ASSUME CopyInv, InStep PROVE CountType'
  <1>0. CountType /\ InInv /\ WayInv
    BY DEF CopyInv, CopyTypeOK
  <1>1. CASE SendChunk
    BY <1>0, <1>1 DEF CountType, SendChunk
  <1>2. CASE HalfClose
    BY <1>0, <1>2 DEF CountType, HalfClose
  <1>3. CASE FillFails
    BY <1>0, <1>3 DEF CountType, FillFails
  <1>4. CASE CopyInReturns
    BY <1>0, <1>4 DEF CountType, CopyInReturns
  <1>5. CASE FirstChunk
    BY <1>0, <1>5 DEF CountType, FirstChunk
  <1>6. CASE PipeWrite
    <2>1. way = "in" => stdin + 1 = taken
      BY <1>0, <1>6 DEF InInv, PipeWrite
    <2>2. way # "in" => FALSE
      BY <1>0, <1>6 DEF WayInv, PipeWrite
    <2> QED
      BY <1>0, <1>6, <2>1, <2>2 DEF CountType, PipeWrite
  <1>7. CASE ReaderRecv
    BY <1>0, <1>7 DEF CountType, ReaderRecv
  <1>8. CASE DrainStream
    BY <1>0, <1>8 DEF CountType, DrainStream
  <1>9. CASE StdinEnds
    BY <1>0, <1>9 DEF CountType, StdinEnds
  <1>10. CASE Extract
    BY <1>0, <1>10 DEF CountType, Extract, InInv
  <1>11. CASE CopyInExecEnds
    BY <1>0, <1>11 DEF CountType, CopyInExecEnds
  <1>12. CASE CopyInAnswer
    BY <1>0, <1>12 DEF CountType, CopyInAnswer
  <1> QED
    BY <1>1, <1>2, <1>3, <1>4, <1>5, <1>6, <1>7, <1>8, <1>9, <1>10, <1>11, <1>12 DEF InStep

\* The units in the stream are a number, and those of the first chunk are among
\* them.
LEMMA FlightFacts ==
    ASSUME CopyInv
    PROVE  /\ InFlight \in Nat
           /\ way = "out" /\ wire # <<>> =>
                /\ Head(wire) \in 1 .. ChunkSize /\ Tail(wire) \in Seq(1 .. ChunkSize)
                /\ Len(Tail(wire)) = Len(wire) - 1
                /\ InFlight = Head(wire) + Units(Tail(wire)) /\ Units(Tail(wire)) \in Nat
  <1>1. wire \in Seq(1 .. ChunkSize)
    BY DEF CopyInv, CopyTypeOK, CountType
  <1>2. InFlight \in Nat
    BY <1>1, UnitsNat DEF InFlight
  <1>3. ASSUME way = "out", wire # <<>>
        PROVE  /\ Head(wire) \in 1 .. ChunkSize /\ Tail(wire) \in Seq(1 .. ChunkSize)
               /\ Len(Tail(wire)) = Len(wire) - 1
    BY <1>1, <1>3, HeadTailProperties
  <1>4. ASSUME way = "out", wire # <<>>
        PROVE  InFlight = Head(wire) + Units(Tail(wire)) /\ Units(Tail(wire)) \in Nat
    <2>1. \A i \in 1 .. Len(wire) : i < Len(wire) => wire[i] = ChunkSize
      BY <1>4 DEF CopyInv, OutInv
    <2> QED
      BY <1>1, <1>3, <1>4, <2>1, UnitsTail, UnitsNat DEF InFlight
  <1> QED
    BY <1>2, <1>3, <1>4

\* Flush sends what is in the buffer, or nothing.
LEMMA LeftoverAppends ==
    ASSUME NEW w \in Seq(1 .. ChunkSize), buf \in 0 .. ChunkSize - 1
    PROVE  w \o Leftover = IF buf = 0 THEN w ELSE Append(w, buf)
  <1>1. CASE buf = 0
    BY <1>1, ConcatEmptySeq DEF Leftover
  <1>2. CASE buf # 0
    BY <1>2 DEF Leftover
  <1> QED
    BY <1>1, <1>2

\* CopyOut's steps keep the counts in order: the runner never receives more than
\* tar wrote.
LEMMA OutCounts == ASSUME CopyInv, OutStep PROVE CountType'
  <1>0. CountType
    BY DEF CopyInv, CopyTypeOK
  <1>1. CASE OpenArchive
    BY <1>0, <1>1 DEF CountType, OpenArchive
  <1>2. CASE Produce
    BY <1>0, <1>2 DEF CountType, Produce
  <1>3. CASE ChunkWrite
    <2>1. wire' = wire \/ (wire' = Append(wire, ChunkSize) /\ Len(wire) < Window)
      BY <1>3 DEF ChunkWrite, Room
    <2>2. wire' \in Seq(1 .. ChunkSize) /\ Len(wire') <= Window
      BY <1>0, <2>1, SMTT(20) DEF CountType
    <2>3. buf' \in 0 .. ChunkSize - 1 /\ unwritten' \in 0 .. MaxWrite
      BY <1>0, <1>3 DEF CountType, ChunkWrite
    <2> QED
      BY <1>0, <1>3, <2>2, <2>3 DEF CountType, ChunkWrite
  <1>4. CASE CopyOutExecEnds
    BY <1>0, <1>4 DEF CountType, CopyOutExecEnds
  <1>5. CASE CopyOutAnswer
    <2>1. wire' = wire \/ (wire' = Append(wire, buf) /\ buf # 0 /\ Len(wire) < Window)
      BY <1>0, <1>5, LeftoverAppends DEF CountType, CopyOutAnswer, Room
    <2>2. wire' \in Seq(1 .. ChunkSize) /\ Len(wire') <= Window
      BY <1>0, <2>1, SMTT(20) DEF CountType
    <2> QED
      BY <1>0, <1>5, <2>2 DEF CountType, CopyOutAnswer
  <1>6. CASE ReceiveChunk
    <2>1. CASE wire # <<>> /\ received' = received + Head(wire) /\ wire' = Tail(wire)
      <3>1. /\ Head(wire) \in Nat /\ Head(wire) <= InFlight /\ InFlight \in Nat
            /\ wire' \in Seq(1 .. ChunkSize) /\ Len(wire') = Len(wire) - 1
        <4>1. way = "out"
          BY <1>6 DEF ReceiveChunk
        <4> QED
          BY <2>1, <4>1, FlightFacts
      <3>2. received + InFlight + buf + unwritten <= moved
        BY <1>6 DEF CopyInv, OutInv, ReceiveChunk
      <3>3. received' \in 0 .. archive
        BY <1>0, <2>1, <3>1, <3>2 DEF CountType
      <3>4. Len(wire) \in Nat
        BY <1>0 DEF CountType
      <3> QED
        BY <1>0, <1>6, <3>1, <3>3, <3>4 DEF CountType, ReceiveChunk
    <2>2. CASE UNCHANGED <<received, wire>>
      BY <1>0, <1>6, <2>2 DEF CountType, ReceiveChunk
    <2> QED
      BY <1>6, <2>1, <2>2 DEF ReceiveChunk
  <1> QED
    BY <1>1, <1>2, <1>3, <1>4, <1>5, <1>6 DEF OutStep

\* Every step keeps the types.
LEMMA CopyTypeInductive == ASSUME CopyInv, CopyNext PROVE CopyTypeOK'
  <1>1. CASE TarFails \/ CancelCopy
    BY <1>1, FlagInductive, ControlInductive DEF CopyInv, CopyTypeOK, CountType, TarFails, CancelCopy
  <1> QED
    BY <1>1, FlagInductive, ControlInductive, InCounts, OutCounts, StepCases DEF CopyInv, CopyTypeOK

\* Every step keeps OrderInv.
LEMMA OrderInductive == ASSUME CopyInv, CopyNext PROVE OrderInv'
  <1> USE DEF CopyInv, CopyTypeOK, ControlType, OrderInv
  <1>1. CASE InStep
    <2>1. CASE SendChunk \/ HalfClose \/ FillFails \/ CopyInReturns
      BY <2>1 DEF SendChunk, HalfClose, FillFails, CopyInReturns
    <2>2. CASE FirstChunk
      BY <2>2 DEF FirstChunk, InInv
    <2>3. CASE PipeWrite \/ ReaderRecv \/ DrainStream
      BY <2>3 DEF PipeWrite, ReaderRecv, DrainStream
    <2>4. CASE StdinEnds \/ Extract \/ CopyInExecEnds \/ CopyInAnswer
      BY <2>4 DEF StdinEnds, Extract, CopyInExecEnds, CopyInAnswer
    <2> QED
      BY <1>1, <2>1, <2>2, <2>3, <2>4 DEF InStep
  <1>2. CASE OutStep
    BY <1>2 DEF WayInv, OutStep, OpenArchive, Produce, ChunkWrite, CopyOutExecEnds, CopyOutAnswer,
                ReceiveChunk
  <1>3. CASE TarFails \/ CancelCopy
    BY <1>3 DEF TarFails, CancelCopy
  <1> QED
    BY <1>1, <1>2, <1>3, StepCases

\* Every step keeps InInv: a pipe that ends without an error carried the whole
\* archive, and any other end is one the handler or the runner sees.
LEMMA InInductive == ASSUME CopyInv, CopyNext PROVE InInv'
  <1> SUFFICES ASSUME way = "in" PROVE InInv'
    BY StepCases DEF InInv, InStep, OutStep, SendChunk, HalfClose, FillFails, CopyInReturns, FirstChunk,
         PipeWrite, ReaderRecv, DrainStream, StdinEnds, Extract, CopyInExecEnds, CopyInAnswer,
         OpenArchive, Produce, ChunkWrite, CopyOutExecEnds, CopyOutAnswer, ReceiveChunk, TarFails,
         CancelCopy
  <1> USE DEF CopyInv, CopyTypeOK, ControlType, CountType, OrderInv, InInv, CopiedWhole
  <1>1. CASE SendChunk \/ HalfClose \/ FillFails
    <2>1. CASE SendChunk
      BY <2>1 DEF SendChunk
    <2>2. CASE HalfClose
      BY <2>2 DEF HalfClose
    <2>3. CASE FillFails
      BY <2>3 DEF FillFails
    <2> QED
      BY <1>1, <2>1, <2>2, <2>3
  <1>2. CASE CopyInReturns
    BY <1>2 DEF CopyInReturns
  <1>3. CASE FirstChunk
    BY <1>3 DEF FirstChunk
  <1>4. CASE PipeWrite
    BY <1>4 DEF PipeWrite
  <1>5. CASE ReaderRecv
    BY <1>5 DEF ReaderRecv
  <1>6. CASE DrainStream
    BY <1>6 DEF DrainStream
  <1>11. CASE StdinEnds
    BY <1>11 DEF StdinEnds
  <1>7. CASE Extract
    BY <1>7 DEF Extract
  <1>8. CASE CopyInExecEnds \/ CopyInAnswer
    BY <1>8 DEF CopyInExecEnds, CopyInAnswer, CopyInVerdict
  <1>9. CASE OutStep
    BY <1>9 DEF WayInv, OutStep, OpenArchive, Produce, ChunkWrite, CopyOutExecEnds, CopyOutAnswer,
                ReceiveChunk
  <1>10. CASE TarFails \/ CancelCopy
    BY <1>10 DEF TarFails, CancelCopy
  <1> QED
    BY <1>1, <1>2, <1>3, <1>4, <1>5, <1>6, <1>7, <1>8, <1>9, <1>10, <1>11, StepCases DEF InStep

\* Every step keeps OutInv: what tar wrote is in the writer's hands, in its
\* buffer, in the stream or with the runner.
LEMMA OutInductive == ASSUME CopyInv, CopyNext PROVE OutInv'
  <1> USE DEF CopyInv, CopyTypeOK, ControlType, CountType, OrderInv
  <1>1. CASE InStep
    <2>1. UNCHANGED <<way, received, wire, buf, unwritten, archive>>
      BY <1>1 DEF InStep, SendChunk, HalfClose, FillFails, CopyInReturns, FirstChunk, PipeWrite,
                  ReaderRecv, DrainStream, StdinEnds, Extract, CopyInExecEnds, CopyInAnswer
    <2>2. ASSUME way = "out"
          PROVE  UNCHANGED <<handler, ended, answer, tar, moved>> /\ (cancelled => cancelled')
                 /\ client' # "ok"
      BY <1>1, <2>2 DEF WayInv, InStep, SendChunk, HalfClose, FillFails, CopyInReturns, FirstChunk,
                  PipeWrite, ReaderRecv, DrainStream, StdinEnds, Extract, CopyInExecEnds, CopyInAnswer
    <2> QED
      BY <2>1, <2>2 DEF OutInv, InFlight
  <1>2. CASE TarFails \/ CancelCopy
    BY <1>2 DEF OutInv, InFlight, TarFails, CancelCopy
  <1>3. CASE OpenArchive
    BY <1>3 DEF OutInv, InFlight, OpenArchive
  <1>4. CASE Produce
    BY <1>4, FlightFacts DEF OutInv, InFlight, Produce
  <1>5. CASE ChunkWrite
    <2>1. /\ way = "out" /\ handler = "exec"
          /\ UNCHANGED <<way, archive, client, cancelled, handler, ended, answer, tar, moved, received>>
      BY <1>5 DEF WayInv, ChunkWrite
    <2>2. CASE UNCHANGED wire
      BY <1>5, <2>1, <2>2, FlightFacts DEF OutInv, InFlight, ChunkWrite
    <2>3. CASE wire' = Append(wire, ChunkSize) /\ ~cancelled
      <3>1. \A i \in 1 .. Len(wire) : wire[i] = ChunkSize
        BY <2>1 DEF OutInv
      <3>2. InFlight' = InFlight + ChunkSize
        BY <2>3, <3>1, UnitsAppend DEF InFlight
      <3>3. \A i \in 1 .. Len(wire') : wire'[i] = ChunkSize
        BY <2>3, <3>1
      <3>4. buf' = 0 /\ unwritten' + ChunkSize = buf + unwritten
        BY <1>5, <2>3 DEF ChunkWrite
      <3>5. InFlight \in Nat /\ unwritten' \in Nat
        BY <1>5, FlightFacts, OutCounts DEF OutStep
      <3>6. received' + InFlight' + buf' + unwritten' = received + InFlight + buf + unwritten
        <4>1. received \in Nat /\ buf \in Nat /\ unwritten \in Nat /\ ChunkSize \in Nat
          OBVIOUS
        <4> HIDE DEF CopyInv, InFlight, CopyTypeOK, ControlType, CountType, OrderInv
        <4>2. PICK r \in Nat, f \in Nat, c \in Nat, b \in Nat, u \in Nat, v \in Nat :
                r = received /\ f = InFlight /\ c = ChunkSize /\ b = buf /\ u = unwritten /\ v = unwritten'
          BY <3>5, <4>1, Zenon
        <4>3. v + c = b + u
          BY <3>4, <4>2, Zenon
        <4>4. r + (f + c) + 0 + v = r + f + b + u
          BY <4>3
        <4>5. received + (InFlight + ChunkSize) + 0 + unwritten' = received + InFlight + buf + unwritten
          BY <4>2, <4>4, Zenon
        <4>6. received' = received /\ InFlight' = InFlight + ChunkSize /\ buf' = 0
          BY <2>1, <3>2, <3>4
        <4> QED
          BY <4>5, <4>6
      <3>7. answer # "ok" /\ ended # "exit0" /\ client # "ok"
        BY <2>1
      <3> QED
        BY <2>1, <2>3, <3>3, <3>6, <3>7 DEF OutInv
    <2> QED
      BY <1>5, <2>2, <2>3 DEF ChunkWrite
  <1>6. CASE CopyOutExecEnds
    BY <1>6, FlightFacts DEF OutInv, InFlight, CopyOutExecEnds
  <1>7. CASE CopyOutAnswer
    <2>1. /\ way = "out" /\ handler = "joining" /\ handler' = "done" /\ answer = "none" /\ client # "ok"
          /\ buf' = 0 /\ UNCHANGED <<way, client, cancelled, ended, tar, moved, unwritten, received, archive>>
      BY <1>7 DEF CopyOutAnswer
    <2>2. \A i \in 1 .. Len(wire) : wire[i] = ChunkSize
      BY <2>1 DEF OutInv
    <2>3. CASE answer' = "err" /\ UNCHANGED wire
      BY <2>1, <2>2, <2>3, FlightFacts DEF OutInv, InFlight
    <2>4. CASE ended = "exit0" /\ ~cancelled /\ wire' = wire \o Leftover /\ answer' = "ok"
      <3>1. wire' = IF buf = 0 THEN wire ELSE Append(wire, buf)
        BY <2>4, LeftoverAppends
      <3>2. InFlight' = InFlight + buf
        <4>1. CASE buf = 0
          BY <3>1, <4>1, FlightFacts DEF InFlight
        <4>2. CASE buf # 0
          <5>1. buf \in 1 .. ChunkSize
            BY <4>2
          <5> QED
            BY <2>2, <3>1, <4>2, <5>1, UnitsAppend DEF InFlight
        <4> QED
          BY <4>1, <4>2
      <3>3. \A i \in 1 .. Len(wire') : i < Len(wire') => wire'[i] = ChunkSize
        BY <2>2, <3>1
      <3>4. unwritten = 0 /\ moved = archive /\ received + InFlight + buf = archive
        BY <2>1, <2>4, FlightFacts DEF OutInv
      <3> QED
        BY <2>1, <2>4, <3>2, <3>3, <3>4, FlightFacts DEF OutInv
    <2> QED
      BY <1>7, <2>3, <2>4 DEF CopyOutAnswer
  <1>8. CASE ReceiveChunk
    <2>1. /\ way = "out" /\ client = "receiving"
          /\ UNCHANGED <<way, handler, cancelled, ended, answer, tar, moved, unwritten, buf, archive>>
      BY <1>8 DEF ReceiveChunk
    <2>2. CASE wire # <<>> /\ received' = received + Head(wire) /\ wire' = Tail(wire) /\ UNCHANGED client
      <3>1. received' + InFlight' = received + InFlight /\ InFlight' \in Nat
        BY <2>1, <2>2, FlightFacts DEF InFlight
      <3>2. \A i \in 1 .. Len(wire') : i + 1 \in 1 .. Len(wire) /\ wire'[i] = wire[i + 1]
                                        /\ Len(wire') = Len(wire) - 1
        BY <2>2, HeadTailProperties
      <3>3. \A i \in 1 .. Len(wire') : i < Len(wire') \/ handler' # "done" => wire'[i] = ChunkSize
        <4>1. \A i \in 1 .. Len(wire) : i < Len(wire) \/ handler # "done" => wire[i] = ChunkSize
          BY <2>1 DEF OutInv
        <4>2. ASSUME NEW i \in 1 .. Len(wire'), i < Len(wire') PROVE i + 1 < Len(wire)
          BY <3>2, <4>2, FlightFacts
        <4> QED
          BY <2>1, <3>2, <4>1, <4>2
      <3>4. received' \in Nat
        BY <2>1, <2>2, FlightFacts
      <3> QED
        BY <2>1, <2>2, <3>1, <3>3, <3>4, FlightFacts DEF OutInv
    <2>3. CASE wire = <<>> /\ client' # "ok" /\ UNCHANGED <<received, wire>>
      BY <2>1, <2>3 DEF OutInv, InFlight
    <2>4. CASE wire = <<>> /\ answer = "ok" /\ UNCHANGED <<received, wire>>
      <3>1. InFlight = 0
        BY <2>4 DEF InFlight, Units
      <3> QED
        BY <2>1, <2>4, <3>1 DEF OutInv, InFlight
    <2> QED
      BY <1>8, <2>2, <2>3, <2>4 DEF ReceiveChunk
  <1> QED
    BY <1>1, <1>2, <1>3, <1>4, <1>5, <1>6, <1>7, <1>8, StepCases DEF OutStep

\* Every step keeps WayInv.
LEMMA WayInductive == ASSUME CopyInv, CopyNext PROVE WayInv'
  <1> USE DEF CopyInv, WayInv
  <1>1. CASE InStep
    BY <1>1 DEF InStep, SendChunk, HalfClose, FillFails, CopyInReturns, FirstChunk, PipeWrite,
                ReaderRecv, DrainStream, StdinEnds, Extract, CopyInExecEnds, CopyInAnswer
  <1>2. CASE OutStep
    BY <1>2 DEF OutStep, OpenArchive, Produce, ChunkWrite, CopyOutExecEnds, CopyOutAnswer, ReceiveChunk
  <1>3. CASE TarFails \/ CancelCopy
    BY <1>3 DEF TarFails, CancelCopy
  <1> QED
    BY <1>1, <1>2, <1>3, StepCases

\* A call begins with the invariant, and so does an environment no file is copied in.
LEMMA CopyStarts ==
    ASSUME CopyInInit \/ CopyOutInit \/ (way = "idle" /\ archive = 0 /\ mark = 0 /\ badChunk = 0
                                         /\ client = "none" /\ handler = "none" /\ CopyStart)
    PROVE  CopyInv
  <1> USE DEF CopyInInit, CopyOutInit, CopyStart
  <1>1. FlagType
    BY DEF FlagType
  <1>2. ControlType
    BY DEF ControlType
  <1>3. CountType
    <2>1. wire = <<>> /\ <<>> \in Seq(1 .. ChunkSize) /\ Len(<<>>) <= Window
      OBVIOUS
    <2>2. CASE CopyInInit
      BY <2>1, <2>2 DEF CountType
    <2>3. CASE ~CopyInInit
      BY <2>1, <2>3 DEF CountType
    <2> QED
      BY <2>2, <2>3
  <1>4. OrderInv /\ WayInv
    BY DEF OrderInv, WayInv
  <1>5. InInv
    BY DEF InInv, CopiedWhole
  <1>6. OutInv
    BY DEF OutInv, InFlight, Units
  <1> QED
    BY <1>1, <1>2, <1>3, <1>4, <1>5, <1>6 DEF CopyInv, CopyTypeOK

\* Every step keeps the invariant.
LEMMA CopyStep == ASSUME CopyInv, [CopyNext]_copyVars PROVE CopyInv'
  <1>1. CASE CopyNext
    BY <1>1, CopyTypeInductive, OrderInductive, InInductive, OutInductive, WayInductive DEF CopyInv
  <1>2. CASE UNCHANGED copyVars
    <2>1. FlagType'
      BY <1>2 DEF CopyInv, CopyTypeOK, FlagType, copyVars
    <2>2. ControlType' /\ CountType'
      BY <1>2 DEF CopyInv, CopyTypeOK, ControlType, CountType, copyVars
    <2>3. OrderInv' /\ WayInv'
      BY <1>2 DEF CopyInv, OrderInv, WayInv, copyVars
    <2>4. InInv'
      BY <1>2 DEF CopyInv, InInv, CopiedWhole, copyVars
    <2>5. OutInv'
      BY <1>2 DEF CopyInv, OutInv, InFlight, copyVars
    <2> QED
      BY <2>1, <2>2, <2>3, <2>4, <2>5 DEF CopyInv, CopyTypeOK
  <1> QED
    BY <1>1, <1>2

\* What the invariant says of both copies.
LEMMA CopySays == ASSUME CopyInv PROVE CopyTypeOK /\ CopiedWhole /\ OutWhole
  <1>1. CopyTypeOK /\ CopiedWhole
    BY DEF CopyInv, InInv, CopiedWhole
  <1>2. OutWhole
    BY FlightFacts DEF CopyInv, CopyTypeOK, CountType, OutInv, OutWhole
  <1> QED
    BY <1>1, <1>2

\* The invariant is inductive, for archives of any size, any chunk size and any
\* window of the stream.
THEOREM CopyInvariance == CopySpec => []CopyInv
  <1>1. CopyInit => CopyInv
    BY CopyStarts DEF CopyInit
  <1>2. CopyInv /\ [CopyNext]_copyVars => CopyInv'
    BY CopyStep
  <1> QED
    BY <1>1, <1>2, PTL DEF CopySpec

\* When the runner's copyIn reports success, tar extracted the whole archive: no
\* early exit of tar, broken pipe, cancelled context or refused chunk is taken for
\* success (CopyIn).
THEOREM CopyInIsWhole == CopySpec => []CopiedWhole
  <1>1. CopyInv => CopiedWhole
    BY CopySays
  <1> QED
    BY <1>1, CopyInvariance, PTL

\* The runner reads a prefix of what tar wrote, and all of it when it sees the end
\* of the archive without an error (CopyOut, ChunkWriter, archiveReader).
THEOREM CopyOutIsWhole == CopySpec => []OutWhole
  <1>1. CopyInv => OutWhole
    BY CopySays
  <1> QED
    BY <1>1, CopyInvariance, PTL

HIDE CopyAssumption DEF fixedVars, clientVars, handlerVars, readerVars, podVars, outVars, inFrame, outFrame

---------------------------------------------------------------------------
(* The calls of an environment together.                                   *)

\* The invariants of the components at once.  That of the step directories holds
\* as a whole only where no `run` outlives its step.
CallsInv == PlanInv /\ PrepareInv /\ CopyInv /\ DirsTypeOK /\ ExecInv /\ WireInv

\* A component that no call is at work in is in a state of its invariant, and can
\* stay there.
LEMMA IdleFacts ==
    /\ NoPlan => PlanInv
    /\ NoPrepare => PrepareInv
    /\ NoCopy => CopyInv
    /\ NoSteps => DirsTypeOK /\ ExecInv /\ DirsInv
    /\ NoWire => WireInv
  <1>1. NoPlan => PlanInv
    BY DEF NoPlan, PlanInv, Submitted
  <1>2. NoPrepare => PrepareInv
    <2>1. (CHOOSE b \in Boxes : TRUE) \in Boxes
      BY PrepareAssumption
    <2> QED
      BY <2>1, PrepareStarts DEF NoPrepare
  <1>3. NoCopy => CopyInv
    BY CopyStarts DEF NoCopy
  <1>4. NoSteps => DirsTypeOK /\ ExecInv /\ DirsInv
    <2>1. NoSteps => helper \in BOOLEAN
      BY Zenon DEF NoSteps
    <2> QED
      BY <2>1, DirsStarts DEF NoSteps, DirsInv
  <1>5. NoWire => WireInv
    <2> SUFFICES ASSUME NoWire PROVE WireInv
      OBVIOUS
    <2>1. log \in Seq(Frames) /\ DecoderStart
      BY DEF NoWire
    <2>2. DecodeInv
      BY <2>1, DecodeStarts
    <2> QED
      BY <2>2 DEF NoWire, DecoderStart, WireInv, WireKinds, CallInv
  <1> QED
    BY <1>1, <1>2, <1>3, <1>4, <1>5

\* The first call finds every component in its invariant.
LEMMA CallsStart == ASSUME CallsInit PROVE CallsInv /\ DirsInv
  <1>1. PlanInit => PlanInv
    BY DEF PlanInit, PlanInv, Submitted
  <1>2. PrepareInit => PrepareInv
    BY PrepareStarts DEF PrepareInit
  <1>3. CopyInit => CopyInv
    BY CopyStarts DEF CopyInit
  <1>4. DirsInit => DirsTypeOK /\ ExecInv /\ DirsInv
    BY DirsStarts DEF DirsInit, DirsInv
  <1>5. WireInit => WireInv
    BY WireStarts
  <1> QED
    BY <1>1, <1>2, <1>3, <1>4, <1>5, IdleFacts DEF CallsInit, CallsInv

\* A step of the calls is a step of each component or leaves it alone: no call
\* moves what belongs to another.
LEMMA CallsSteps ==
    ASSUME [CallsNext]_callsVars
    PROVE  /\ [PlanNext]_planVars /\ [PrepareNext]_prepareVars /\ [CopyNext]_copyVars
           /\ [DirsNext]_dirsVars /\ [WireNext]_wireVars
  BY DEF CallsNext, callsVars

\* Every step of a call keeps the invariants of all of them.
LEMMA CallsStep == ASSUME CallsInv, [CallsNext]_callsVars PROVE CallsInv'
  BY CallsSteps, PlanStep, PrepareStep, CopyStep, BaseInductive, WireStep DEF CallsInv

\* In every order of the calls of an environment, each component is in a state of
\* its invariant.
THEOREM CallsInvariance == CallsSpec => []CallsInv
  <1>1. CallsInit => CallsInv
    BY CallsStart
  <1>2. CallsInv /\ [CallsNext]_callsVars => CallsInv'
    BY CallsStep
  <1> QED
    BY <1>1, <1>2, PTL DEF CallsSpec

\* Every variable of an environment's calls keeps its type: Create's input, Start's
\* locals, the copies' counters, the steps' records and the frames on the wire.
THEOREM CallsTypeCorrect == CallsSpec => []CallsTypeOK
  <1>1. CallsInv => CallsTypeOK
    BY PlanTyped, PrepareSays, CopySays, WireInvTypes DEF CallsInv, CallsTypeOK
  <1> QED
    BY <1>1, CallsInvariance, PTL

\* Whatever call an environment is in: a Job handed to the API server has a valid
\* name, can be worked with and was not spoilt by BuildJob; the announced tool cache
\* is the one in use and broken execs are forgiven; a copy that reports success is
\* whole; and the wire format loses and invents nothing, in output and in commands.
THEOREM CallsSafe ==
    CallsSpec => [](/\ EnvIdValid /\ BuildKeepsValid /\ JobUsable
                    /\ CacheInUse /\ FewBreaksForgiven
                    /\ CopiedWhole /\ OutWhole
                    /\ DecodesPrefix /\ CallArrives)
  <1>1. CallsInv => /\ EnvIdValid /\ BuildKeepsValid /\ JobUsable
                    /\ CacheInUse /\ FewBreaksForgiven
                    /\ CopiedWhole /\ OutWhole
                    /\ DecodesPrefix /\ CallArrives
    BY PlanNamed, PlanKeepsValid, PlanUsable, PrepareSays, CopySays, DecodeInvPrefix, CallInvArrives
       DEF CallsInv, WireInv
  <1> QED
    BY <1>1, CallsInvariance, PTL

\* Where no `run` outlives its step, no other call of the environment disturbs its
\* steps: a command starts once, and collect keeps what lives and removes what is over.
THEOREM CallsStepsSafe ==
    ASSUME ~LateRuns PROVE CallsSpec => [](RunsOnce /\ LiveKept /\ OldCollected)
  <1>1. CallsInit => DirsInv
    BY CallsStart
  <1>2. DirsInv /\ [CallsNext]_callsVars => DirsInv'
    BY CallsSteps, DirsStep
  <1>3. DirsInv => RunsOnce /\ LiveKept /\ OldCollected
    BY DirsInvSays
  <1> QED
    BY <1>1, <1>2, <1>3, PTL DEF CallsSpec

\* No call of the environment moves the tool cache once it is announced
\* (prepareScript).
THEOREM CallsActionsSafe == CallsSpec => CacheSettled
  <1>1. CallsInv /\ [CallsNext]_callsVars => [Prepared => tool' = tool]_prepareVars
    BY CallsSteps, ToolSettled DEF CallsInv
  <1> QED
    BY <1>1, CallsInvariance, PTL DEF CallsSpec, CacheSettled

\* Where no `run` outlives its step, a step that is cancelled takes no other step
\* with it, whatever calls come between (killStep, execwrap.Kill).
THEOREM CallsKillsOwnStep ==
    ASSUME ~LateRuns PROVE CallsSpec => KillsOwnStep
  <1>1. CallsInit => DirsInv
    BY CallsStart
  <1>2. DirsInv /\ [CallsNext]_callsVars => DirsInv'
    BY CallsSteps, DirsStep
  <1>3. DirsInv /\ [CallsNext]_callsVars =>
          [\A r \in Run : exec = "kill" /\ exec' = "over" /\ Lives(r) /\ r[1] # step => Lives(r)']_dirsVars
    BY CallsSteps, KillIsLocal
  <1> QED
    BY <1>1, <1>2, <1>3, PTL DEF CallsSpec, KillsOwnStep

===========================================================================
