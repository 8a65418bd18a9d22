---------------------------- MODULE StepResume ----------------------------
(***************************************************************************)
(* One Exec RPC run under the step helper: the plugin's runStep loop, the  *)
(* exec stream, the helper's run and follow processes and the supervisor   *)
(* inside the job pod.                                                     *)
(*                                                                         *)
(* A frame of the step log is two units, its header and its payload, so    *)
(* that a stream may break inside a frame.  The log only grows, so bytes   *)
(* in flight are the interval dpos+1 .. fpos of it.                        *)
(***************************************************************************)
EXTENDS Integers, Sequences

CONSTANTS
    Procs,            \* identities of `run`/`follow` processes alive at once
    Codes,            \* exit codes the command may end with
    FailCodes,        \* exit codes of a command that could not be started
    MaxChunks,        \* bound: chunks the command writes
    Faults,           \* bound: the kinds of fault an instance explores
    LivenessEvery,    \* idle polls between two supervisor checks
    NoProc            \* no exec stream is connected

ASSUME ConstantsAssumption ==
    /\ NoProc \notin Procs
    /\ Codes \subseteq Nat
    /\ FailCodes \subseteq Nat
    /\ MaxChunks \in Nat
    /\ Faults \subseteq {"disk", "leftover", "pod", "process"}
    /\ LivenessEvery \in Nat \ {0}

VARIABLES
    \* the plugin: Exec and runStep
    ppc,        \* where Exec stands
    before,     \* dec.Offset() when the attempt began; 0 sends `run`, n > 0 `follow n`
    late,       \* deadline (the last progress noted plus ReattachTimeout) has passed
    err,        \* how backend.Exec returned
    cancelled,  \* the RPC's context is done
    result,     \* what runStep, then Exec, returns
    retried,    \* history: a reattach was tried since the last unit arrived
    \* the plugin's Decoder
    offset, pending, out, exit, decErr,
    \* the exec stream and the helper process at its far end
    cur, dpos, fpos, fst, idle, hstat,
    \* the pod: run processes and the step directory
    pod, pc, logged, log, supFile, pidFile, doneFile,
    \* the pod: the supervisor and the command
    sup, code, lerr, cmd, hold, wrote, framed,
    starts,     \* history: how often the command was started
    eof,        \* history: settle saw both pipes at EOF
    killed      \* history: the Kill exec ran

pluginVars == <<ppc, before, late, err, cancelled, result, retried>>
decVars    == <<offset, pending, out, exit, decErr>>
streamVars == <<cur, dpos, fpos, fst, idle, hstat>>
dirVars    == <<logged, log, supFile, pidFile, doneFile>>
supVars    == <<sup, code, lerr, cmd, hold, wrote, framed, starts, eof>>
podVars    == <<pod, pc, dirVars, supVars, killed>>
vars == <<pluginVars, decVars, streamVars, podVars>>

Streams == {"stdout", "stderr"}
NoCode  == -1

\* Exit statuses of a helper process (stepio.go).
ExitSupervisorGone == 3
ExitNoLog          == 4
ExitIncomplete     == 5
HelperStatus == {0, 1, ExitSupervisorGone, ExitNoLog, ExitIncomplete}

Header(kind) == [part |-> "header", kind |-> kind, val |-> 0]
Payload(v)   == [part |-> "payload", kind |-> "data", val |-> v]
AppendFrame(kind, v) == <<Header(kind), Payload(v)>>
ExitFrame(c) == AppendFrame("exit", c)

Verdict(kind, c) == [kind |-> kind, code |-> c]

Running == pod # "down"

SupLive == sup \notin {"none", "gone"}

\* The process recorded in the supervisor file still runs (helper.go).  Seeded
\* fault: the file is enough.
supervisorKnown == supFile
supervisorAlive == supFile /\ SupLive

Init ==
    /\ ppc = "connect" /\ before = 0 /\ late = FALSE /\ err = "nil"
    /\ cancelled = FALSE /\ result = Verdict("none", 0) /\ retried = FALSE
    /\ offset = 0 /\ pending = <<>> /\ out = <<>> /\ exit = NoCode /\ decErr = FALSE
    /\ cur = NoProc /\ dpos = 0 /\ fpos = 0 /\ fst = "open" /\ idle = 0 /\ hstat = NoCode
    /\ pod = "up" /\ pc = [p \in Procs |-> "none"]
    /\ logged = FALSE /\ log = <<>> /\ supFile = FALSE /\ pidFile = FALSE /\ doneFile = "none"
    /\ sup = "none" /\ code = NoCode /\ lerr = FALSE /\ cmd = "none" /\ hold = FALSE
    /\ wrote = [k \in Streams |-> 0] /\ framed = [k \in Streams |-> 0]
    /\ starts = 0 /\ eof = FALSE /\ killed = FALSE

---------------------------------------------------------------------------
(* The plugin: backend.Exec, runStep and the tail of Exec.                 *)

\* The exec stream is gone.  A `run` that has not become a follower goes on
\* without it; a follower has nobody to write to.
Disconnect ==
    /\ cur' = NoProc /\ dpos' = 0 /\ fpos' = 0 /\ fst' = "open" /\ idle' = 0
    /\ pc' = [p \in Procs |-> IF p = cur /\ pc[p] = "follow" THEN "none" ELSE pc[p]]

\* backend.Exec reaches the pod: `run` until output has arrived, else `follow`.
ExecStart(p) ==
    /\ ppc = "connect" /\ Running /\ pc[p] = "none"
    /\ ppc' = "exec" /\ cur' = p
    /\ pc' = [pc EXCEPT ![p] = IF before = 0 THEN "run" ELSE "follow"]
    /\ hstat' = NoCode
    /\ UNCHANGED <<before, late, err, cancelled, result, retried, decVars,
                   dpos, fpos, fst, idle, pod, dirVars, supVars, killed>>

\* What podState makes of a broken stream: the pod finished (deleted or being
\* deleted), or, also when that cannot be learned, just an error.
BreakErrors == IF pod = "up" THEN {"broken"} ELSE {"broken", "finished"}

\* backend.Exec fails before a process runs: connection refused, context done,
\* or the helper binary is missing.
ExecRefused ==
    /\ ppc = "connect"
    /\ err' \in BreakErrors \cup {"missing"}
    /\ ppc' = "judge"
    /\ UNCHANGED <<before, late, cancelled, result, retried, decVars, streamVars, podVars>>

\* The stream breaks, or its context is done; what is in flight is lost.
StreamBreaks ==
    /\ ppc = "exec"
    /\ err' \in BreakErrors
    /\ ppc' = "judge"
    /\ Disconnect
    /\ hstat' = NoCode
    /\ UNCHANGED <<before, late, cancelled, result, retried, decVars,
                   pod, dirVars, supVars, killed>>

\* The helper exited and everything it wrote has been delivered.
ExecReturns ==
    /\ ppc = "exec" /\ hstat # NoCode /\ dpos = fpos
    /\ err' = "nil"
    /\ ppc' = "judge"
    /\ Disconnect
    /\ UNCHANGED <<before, late, cancelled, result, retried, decVars, hstat,
                   pod, dirVars, supVars, killed>>

\* runStep returns; its locals end with it.
Return(verdict) ==
    /\ result' = verdict /\ ppc' = "ret"
    /\ before' = 0 /\ late' = FALSE

\* Progress moves the deadline; without progress Again is not reached late.
Again ==
    /\ late' = FALSE /\ ppc' = "backoff"
    /\ UNCHANGED <<result, before>>

\* A helper that exited without the step's exit record is an error.
\* Seeded fault: its own exit status is taken for the step's.
NoRecordBug == Verdict("exit", hstat)
NoRecord == Verdict("helper", hstat)

\* runStep after backend.Exec returned: only the exit record ends the step.
Judge ==
    /\ ppc = "judge"
    /\ \/ exit # NoCode /\ Return(Verdict("exit", exit))
       \/ exit = NoCode /\ cancelled /\ Return(Verdict("context", 0))
       \/ exit = NoCode /\ ~cancelled /\ decErr /\ Return(Verdict("corrupt", 0))
       \/ /\ exit = NoCode /\ ~cancelled /\ ~decErr
          /\ \/ err = "nil" /\ Return(NoRecord)
             \/ err \in {"finished", "missing"} /\ Return(Verdict(err, 0))
             \/ err = "broken" /\ (offset > before \/ ~late) /\ Again
             \/ err = "broken" /\ offset <= before /\ late /\ Return(Verdict("gaveup", 0))
    /\ err' = "nil" /\ hstat' = NoCode
    /\ UNCHANGED <<cancelled, retried, decVars, cur, dpos, fpos, fst, idle, podVars>>

\* The next attempt resumes from dec.Offset().
\* Seeded faults: resume at the start of the incomplete frame, which the decoder
\* still holds; always run again, which follows from the start.
ResumeAtFrame == offset - Len(pending)
ResumeAtStart == 0
ResumeAt == offset

\* The wait between attempts ends.
Reattach ==
    /\ ppc = "backoff"
    /\ before' = ResumeAt /\ retried' = TRUE /\ ppc' = "connect"
    /\ UNCHANGED <<late, err, cancelled, result, decVars, streamVars, podVars>>

BackoffCancelled ==
    /\ ppc = "backoff" /\ cancelled
    /\ Return(Verdict("context", 0))
    /\ UNCHANGED <<err, cancelled, retried, decVars, streamVars, podVars>>

\* The tail of Exec: report runStep's outcome unless the context is done.
ExecDone ==
    /\ ppc = "ret"
    /\ ppc' = IF cancelled THEN "kill" ELSE "done"
    /\ UNCHANGED <<before, late, err, cancelled, result, retried, decVars, streamVars, podVars>>

\* The Kill exec: the process tree below the recorded pid dies, or there is no
\* pid file and nothing happens.
KillTree ==
    IF pidFile
    THEN /\ sup' = IF SupLive THEN "gone" ELSE sup
         /\ cmd' = IF SupLive /\ cmd = "running" THEN "killed" ELSE cmd
         /\ pidFile' = FALSE
    ELSE UNCHANGED <<sup, cmd, pidFile>>

Kill ==
    /\ ppc = "kill" /\ Running
    /\ KillTree
    /\ killed' = TRUE
    /\ result' = Verdict("cancelled", 0) /\ ppc' = "done"
    /\ UNCHANGED <<before, late, err, cancelled, retried, decVars, streamVars, pod, pc,
                   logged, log, supFile, doneFile, code, lerr, hold, wrote, framed, starts, eof>>

\* The Kill exec does not reach the pod; its error is ignored.
KillFails ==
    /\ ppc = "kill"
    /\ result' = Verdict("cancelled", 0) /\ ppc' = "done"
    /\ UNCHANGED <<before, late, err, cancelled, retried, decVars, streamVars, podVars>>

---------------------------------------------------------------------------
(* The Decoder, fed one unit at a time: any chunking of the same units has *)
(* the same effect.                                                        *)

\* Decoder.Write of the next unit in flight u.  sent is whether the runner's
\* gRPC stream took the output.
Decode(u, sent) ==
    /\ offset' = offset + 1
    /\ IF pending = <<>>
       THEN /\ pending' = <<u>>
            /\ decErr' = (exit # NoCode \/ u.part # "header")
            /\ UNCHANGED <<out, exit>>
       ELSE /\ pending' = <<>>
            /\ LET kind == pending[1].kind IN
               /\ out' = IF kind # "exit" /\ sent
                         THEN Append(out, [kind |-> kind, val |-> u.val]) ELSE out
               /\ exit' = IF kind = "exit" THEN u.val ELSE exit
               /\ decErr' = (kind # "exit" /\ ~sent)

\* A unit arrives.  After an error the rest of the stream is discarded.
Deliver ==
    /\ ppc = "exec" /\ dpos < fpos
    /\ dpos' = dpos + 1
    /\ \/ /\ ~decErr
          /\ \E sent \in IF cancelled THEN BOOLEAN ELSE {TRUE} : Decode(log[dpos + 1], sent)
          /\ retried' = FALSE
       \/ /\ decErr
          /\ UNCHANGED <<decVars, retried>>
    /\ UNCHANGED <<ppc, before, late, err, cancelled, result, cur, fpos, fst, idle, hstat, podVars>>

---------------------------------------------------------------------------
(* The helper's `run`.                                                     *)

\* becomeFollower: p goes on as a follower; without a stream nobody notices.
BecomeFollower(p) == pc' = [pc EXCEPT ![p] = IF p = cur THEN "follow" ELSE "none"]

\* os.OpenFile with O_EXCL finds the log.  Seeded fault: O_EXCL is missing.
LogShared == FALSE
LogTaken == logged

\* Creating the log with O_EXCL decides who starts the step.
CreateLog(p) ==
    /\ Running /\ pc[p] = "run"
    /\ logged' = TRUE
    /\ IF LogTaken THEN BecomeFollower(p) ELSE pc' = [pc EXCEPT ![p] = "created"]
    /\ UNCHANGED <<pluginVars, decVars, streamVars, pod, log, supFile, pidFile, doneFile,
                   supVars, killed>>

StartSupervisor(p) ==
    /\ Running /\ pc[p] = "created"
    /\ sup' = "boot"
    /\ pc' = [pc EXCEPT ![p] = "spawned"]
    /\ UNCHANGED <<pluginVars, decVars, streamVars, pod, dirVars,
                   code, lerr, cmd, hold, wrote, framed, starts, eof, killed>>

RecordSupervisor(p) ==
    /\ Running /\ pc[p] = "spawned"
    /\ supFile' = TRUE
    /\ pc' = [pc EXCEPT ![p] = "recorded"]
    /\ UNCHANGED <<pluginVars, decVars, streamVars, pod, logged, log, pidFile, doneFile,
                   supVars, killed>>

\* The pid file; failing to write it is ignored.
RecordPid(p) ==
    /\ Running /\ pc[p] = "recorded"
    /\ pidFile' \in {TRUE} \cup (IF "disk" \in Faults THEN {FALSE} ELSE {})
    /\ BecomeFollower(p)
    /\ UNCHANGED <<pluginVars, decVars, streamVars, pod, logged, log, supFile, doneFile,
                   supVars, killed>>

\* An error return of run (after the supervisor file, only that of the exec of
\* follow), or the process is killed.
RunFails(p) ==
    /\ Running /\ pc[p] \in {"run", "created", "spawned", "recorded"} /\ "process" \in Faults
    /\ pc' = [pc EXCEPT ![p] = "none"]
    /\ hstat' = IF p = cur THEN 1 ELSE hstat
    /\ UNCHANGED <<pluginVars, decVars, cur, dpos, fpos, fst, idle, pod, dirVars, supVars, killed>>

---------------------------------------------------------------------------
(* The helper's `follow`, at the far end of the connected stream.          *)

Following == Running /\ cur # NoProc /\ pc[cur] = "follow" /\ hstat = NoCode

Move(to) == fst' = to /\ UNCHANGED <<cur, dpos, fpos, idle, hstat>>
Leave(status) == hstat' = status /\ UNCHANGED <<cur, dpos, fpos, fst, idle>>
PodUnchanged == UNCHANGED <<pluginVars, decVars, podVars>>

\* Open the log and seek to the offset asked for.
FollowOpen ==
    /\ Following /\ fst = "open"
    /\ IF logged /\ before <= Len(log)
       THEN /\ dpos' = before /\ fpos' = before /\ fst' = "drain"
            /\ UNCHANGED <<cur, idle, hstat>>
       ELSE Leave(ExitNoLog)
    /\ PodUnchanged

\* Where a drain ends.  Seeded fault: no drain after the done file was seen.
NoLastDrain == IF fst = "drain" THEN Len(log) ELSE fpos
DrainedTo == Len(log)

\* drain copies the log up to its end, reached when this step happens; what
\* follow does next depends on which drain it is.
Drain ==
    /\ Following
    /\ fpos' = DrainedTo
    /\ \/ fst = "drain" /\ fst' = "check" /\ UNCHANGED hstat
       \/ fst = "final" /\ hstat' = 0 /\ UNCHANGED fst
       \/ fst = "incomplete" /\ hstat' = ExitIncomplete /\ UNCHANGED fst
       \/ fst = "last" /\ hstat' = ExitSupervisorGone /\ UNCHANGED fst
    /\ UNCHANGED <<cur, dpos, idle>>
    /\ PodUnchanged

\* Seeded fault: the poll counter is not taken modulo LivenessEvery.
PollNumber == idle + 1
NextIdle == (idle + 1) % LivenessEvery

NextPoll == /\ fst' = "drain" /\ idle' = NextIdle
            /\ UNCHANGED <<cur, dpos, fpos, hstat>>

\* Look for the done file; when it is not there, every LivenessEvery polls
\* look at the supervisor too.
CheckDone ==
    /\ Following /\ fst = "check"
    /\ \/ doneFile = "ok" /\ Move("final")
       \/ doneFile = "failed" /\ Move("incomplete")
       \/ doneFile = "none" /\ idle = LivenessEvery - 1 /\ Move("alive")
       \/ doneFile = "none" /\ idle # LivenessEvery - 1 /\ NextPoll
    /\ PodUnchanged

CheckAlive ==
    /\ Following /\ fst = "alive"
    /\ IF supervisorAlive THEN NextPoll ELSE Move("recheck")
    /\ PodUnchanged

\* The supervisor is gone: it may have finished between the two checks.
RecheckDone ==
    /\ Following /\ fst = "recheck"
    /\ IF doneFile # "none" THEN NextPoll ELSE Move("last")
    /\ PodUnchanged

\* A read error, or the process is killed.
FollowFails ==
    /\ Following /\ "process" \in Faults
    /\ Leave(1)
    /\ PodUnchanged

---------------------------------------------------------------------------
(* The supervisor and the command it runs.                                 *)

OutsideSup == UNCHANGED <<pluginVars, decVars, streamVars, pod, pc,
                          logged, supFile, pidFile, killed>>

\* One write to the log: all of it, or an error after some prefix of it.
WriteLog(frame) ==
    \/ /\ ~lerr /\ log' = log \o frame /\ UNCHANGED lerr
    \/ /\ ~lerr /\ "disk" \in Faults /\ lerr' = TRUE
       /\ log' \in {log, Append(log, frame[1])}
    \/ /\ lerr /\ UNCHANGED <<log, lerr>>

\* The log cannot be opened.
OpenLogFails ==
    /\ Running /\ sup = "boot" /\ "disk" \in Faults
    /\ doneFile' = "failed" /\ sup' = "gone"
    /\ UNCHANGED <<log, code, lerr, cmd, hold, wrote, framed, starts, eof>>
    /\ OutsideSup

\* The command cannot be started: a message and a shell-like exit code.
StartFails ==
    /\ Running /\ sup = "boot"
    /\ code' \in FailCodes
    /\ WriteLog(AppendFrame("stderr", 0))
    /\ sup' = "finish"
    /\ UNCHANGED <<doneFile, cmd, hold, wrote, framed, starts, eof>>
    /\ OutsideSup

StartCommand ==
    /\ Running /\ sup = "boot"
    /\ sup' = "run" /\ cmd' = "running" /\ starts' = starts + 1
    /\ UNCHANGED <<doneFile, log, code, lerr, hold, wrote, framed, eof>>
    /\ OutsideSup

\* The command, or a process it left behind, writes to a pipe.
CommandWrites(k) ==
    /\ Running /\ SupLive /\ (cmd = "running" \/ hold)
    /\ wrote["stdout"] + wrote["stderr"] < MaxChunks
    /\ wrote' = [wrote EXCEPT ![k] = @ + 1]
    /\ UNCHANGED <<doneFile, log, sup, code, lerr, cmd, hold, framed, starts, eof>>
    /\ OutsideSup

\* finish has not closed the log.  Seeded fault: it is closed when the command
\* exits.
LogOpenInRun == sup = "run"
LogOpen == sup \in {"run", "settle", "finish"}

\* A reader of frameLog.copy takes a chunk; once finish closed the log it is
\* discarded.
CopyChunk(k) ==
    /\ Running /\ sup \in {"run", "settle", "finish", "record", "drain"}
    /\ framed[k] < wrote[k]
    /\ framed' = [framed EXCEPT ![k] = @ + 1]
    /\ IF LogOpen
       THEN WriteLog(AppendFrame(k, framed[k] + 1))
       ELSE UNCHANGED <<log, lerr>>
    /\ UNCHANGED <<doneFile, sup, code, cmd, hold, wrote, starts, eof>>
    /\ OutsideSup

\* The command exits, perhaps leaving a process that holds its pipes.
CommandExits ==
    /\ Running /\ cmd = "running"
    /\ cmd' = "exited" /\ hold' \in {FALSE} \cup (IF SupLive /\ "leftover" \in Faults THEN {TRUE} ELSE {})
    /\ code' \in Codes
    /\ UNCHANGED <<doneFile, log, sup, lerr, wrote, framed, starts, eof>>
    /\ OutsideSup

LeftoverExits ==
    /\ hold /\ hold' = FALSE
    /\ UNCHANGED <<doneFile, log, sup, code, lerr, cmd, wrote, framed, starts, eof>>
    /\ OutsideSup

PipesAtEOF == ~hold /\ cmd # "running" /\ framed = wrote

WaitReturns ==
    /\ Running /\ sup = "run" /\ cmd = "exited"
    /\ sup' = "settle"
    /\ UNCHANGED <<doneFile, log, code, lerr, cmd, hold, wrote, framed, starts, eof>>
    /\ OutsideSup

\* settle: every reader reached EOF, or the grace period is over.
Settle ==
    /\ Running /\ sup = "settle"
    /\ eof' = PipesAtEOF
    /\ sup' = "finish"
    /\ UNCHANGED <<doneFile, log, code, lerr, cmd, hold, wrote, framed, starts>>
    /\ OutsideSup

\* finish: the exit record, unless a write failed; closing may fail as well.
Finish ==
    /\ Running /\ sup = "finish"
    /\ \/ WriteLog(ExitFrame(code))
       \/ "disk" \in Faults /\ ~lerr /\ lerr' = TRUE /\ log' = log \o ExitFrame(code)
    /\ sup' = "record"
    /\ UNCHANGED <<doneFile, code, cmd, hold, wrote, framed, starts, eof>>
    /\ OutsideSup

\* The done file marks the log complete; failing to write it is ignored.
WriteDone ==
    /\ Running /\ sup = "record"
    /\ \/ doneFile' = IF lerr THEN "failed" ELSE "ok"
       \/ "disk" \in Faults /\ doneFile' = "none"
    /\ sup' = "drain"
    /\ UNCHANGED <<log, code, lerr, cmd, hold, wrote, framed, starts, eof>>
    /\ OutsideSup

SupervisorExits ==
    /\ Running /\ sup = "drain" /\ PipesAtEOF
    /\ sup' = "gone"
    /\ UNCHANGED <<doneFile, log, code, lerr, cmd, hold, wrote, framed, starts, eof>>
    /\ OutsideSup

\* The supervisor is killed (out of memory): the command is orphaned.
SupervisorDies ==
    /\ Running /\ SupLive /\ "process" \in Faults
    /\ sup' = "gone"
    /\ UNCHANGED <<doneFile, log, code, lerr, cmd, hold, wrote, framed, starts, eof>>
    /\ OutsideSup

---------------------------------------------------------------------------
(* The environment.                                                        *)

\* The runner cancels the job or the step times out.
Cancel ==
    /\ ppc # "done" /\ ~cancelled
    /\ cancelled' = TRUE
    /\ UNCHANGED <<ppc, before, late, err, result, retried, decVars, streamVars, podVars>>

\* The pod gets a deletion timestamp; its processes run on for a while.
PodDeleting ==
    /\ pod = "up" /\ ppc # "done" /\ "pod" \in Faults
    /\ pod' = "deleting"
    /\ UNCHANGED <<pluginVars, decVars, streamVars, pc, dirVars, supVars, killed>>

\* Every process of the pod is gone.
PodDown ==
    /\ Running /\ ppc # "done" /\ "pod" \in Faults
    /\ pod' = "down"
    /\ pc' = [p \in Procs |-> "none"]
    /\ sup' = IF SupLive THEN "gone" ELSE sup
    /\ cmd' = IF cmd = "running" THEN "killed" ELSE cmd
    /\ hold' = FALSE
    /\ UNCHANGED <<pluginVars, decVars, streamVars, dirVars,
                   code, lerr, wrote, framed, starts, eof, killed>>

\* ReattachTimeout has passed since the deadline was set.
DeadlinePasses ==
    /\ ppc \notin {"ret", "kill", "done"} /\ ~late
    /\ late' = TRUE
    /\ UNCHANGED <<ppc, before, err, cancelled, result, retried, decVars, streamVars, podVars>>

\* Exec has returned; what is left in the pod may run on or not.
Terminated == ppc = "done" /\ UNCHANGED vars

---------------------------------------------------------------------------

Plugin == \/ \E p \in Procs : ExecStart(p)
          \/ ExecRefused \/ StreamBreaks \/ ExecReturns \/ Judge \/ Reattach
          \/ BackoffCancelled \/ ExecDone \/ Kill \/ KillFails \/ Deliver

Run(p) == \/ CreateLog(p) \/ StartSupervisor(p) \/ RecordSupervisor(p)
          \/ RecordPid(p) \/ RunFails(p)

Follow == \/ FollowOpen \/ Drain \/ CheckDone \/ CheckAlive
          \/ RecheckDone \/ FollowFails

Supervise == \/ OpenLogFails \/ StartFails \/ StartCommand
             \/ \E k \in Streams : CopyChunk(k)
             \/ WaitReturns \/ Settle \/ Finish \/ WriteDone \/ SupervisorExits
             \/ SupervisorDies

Command == (\E k \in Streams : CommandWrites(k)) \/ CommandExits \/ LeftoverExits

Environment == Cancel \/ PodDeleting \/ PodDown \/ DeadlinePasses

Next == \/ Plugin \/ (\E p \in Procs : Run(p)) \/ Follow \/ Supervise \/ Command
        \/ Environment \/ Terminated

Spec == Init /\ [][Next]_vars

\* Everything that is scheduled runs, the command ends, and a stream whose pod or
\* context is gone is noticed.  Nothing is assumed of breaks, failures and
\* cancellation, nor that what the command leaves behind ever ends.
Fairness ==
    /\ WF_vars(\E p \in Procs : ExecStart(p))
    /\ WF_vars(ExecRefused /\ pod = "down")
    /\ WF_vars(StreamBreaks /\ (cancelled \/ pod = "down"))
    /\ WF_vars(ExecReturns) /\ WF_vars(Judge) /\ WF_vars(Reattach)
    /\ WF_vars(ExecDone) /\ WF_vars(Kill \/ KillFails) /\ WF_vars(Deliver)
    /\ \A p \in Procs : WF_vars(Run(p))
    /\ WF_vars(Follow)
    /\ WF_vars(Supervise) /\ WF_vars(CommandExits)
    /\ WF_vars(DeadlinePasses)

FairSpec == Spec /\ Fairness

---------------------------------------------------------------------------
(* Properties.                                                             *)

Kinds == Streams \cup {"exit", "data"}
Unit  == [part : {"header", "payload"}, kind : Kinds, val : Nat]

PluginType ==
    /\ ppc \in {"connect", "exec", "judge", "backoff", "ret", "kill", "done"}
    /\ before \in Nat /\ late \in BOOLEAN
    /\ err \in {"nil", "broken", "finished", "missing"}
    /\ cancelled \in BOOLEAN /\ retried \in BOOLEAN
    /\ result \in [kind : {"none", "exit", "context", "corrupt", "helper", "finished",
                           "missing", "gaveup", "cancelled"}, code : Nat \cup {NoCode}]

DecoderType ==
    /\ offset \in Nat /\ pending \in Seq(Unit) /\ Len(pending) <= 1
    /\ out \in Seq([kind : Kinds, val : Nat])
    /\ exit \in Nat \cup {NoCode} /\ decErr \in BOOLEAN

StreamType ==
    /\ cur \in Procs \cup {NoProc} /\ dpos \in Nat /\ fpos \in Nat
    /\ fst \in {"open", "drain", "check", "final", "incomplete", "alive", "recheck", "last"}
    /\ idle \in 0 .. LivenessEvery - 1 /\ hstat \in HelperStatus \cup {NoCode}

DirType ==
    /\ pod \in {"up", "deleting", "down"} /\ killed \in BOOLEAN
    /\ pc \in [Procs -> {"none", "run", "created", "spawned", "recorded", "follow"}]
    /\ logged \in BOOLEAN /\ log \in Seq(Unit)
    /\ supFile \in BOOLEAN /\ pidFile \in BOOLEAN /\ doneFile \in {"none", "ok", "failed"}

SupervisorType ==
    /\ sup \in {"none", "boot", "run", "settle", "finish", "record", "drain", "gone"}
    /\ code \in Nat \cup {NoCode} /\ lerr \in BOOLEAN
    /\ cmd \in {"none", "running", "exited", "killed"} /\ hold \in BOOLEAN
    /\ wrote \in [Streams -> Nat] /\ framed \in [Streams -> Nat]
    /\ starts \in Nat /\ eof \in BOOLEAN

\* The variables keep their types (the fields of runStep, Decoder, run, follow
\* and supervise).
TypeOK == PluginType /\ DecoderType /\ StreamType /\ DirType /\ SupervisorType

\* Output is delivered exactly once across broken and resumed streams: what the
\* runner was sent is, frame by frame, the log up to the decoder's offset, and
\* an incomplete frame is held back (runStep, Decoder.Write, follow).
ExactlyOnce ==
    ~decErr =>
      /\ offset <= Len(log)
      /\ offset = 2 * Len(out) + Len(pending) + (IF exit = NoCode THEN 0 ELSE 2)
      /\ \A i \in 1 .. Len(out) :
           /\ log[2 * i - 1] = Header(out[i].kind)
           /\ log[2 * i] = Payload(out[i].val)
      /\ pending # <<>> => pending[1] = log[offset]

\* The log the helper writes never makes the decoder fail: only the runner
\* hanging up does.
NoCorruption == decErr => cancelled

\* Only the helper's exit record ends the step: an exit code is reported only if
\* the supervisor wrote that code, after all output, and all of it arrived.
ExitIsReal ==
    result.kind = "exit" =>
      /\ result.code = code
      /\ ~decErr => offset = Len(log)
      /\ sup \in {"record", "drain", "gone"}

\* A step is started at most once, whatever number of `run` requests reach the
\* pod and however late (helper.go, the O_EXCL log).
StartedOnce == starts <= 1

\* follow reads done before its last drain: a helper that says the log is
\* complete has delivered the exit record, and resuming never asks for more
\* than the log holds.
FollowIsComplete == result \notin {Verdict("helper", 0), Verdict("helper", ExitNoLog)}

\* Of stream k the runner was sent the chunks 1 .. n, each once and in order.
Received(k, n) ==
    /\ \A i \in 1 .. Len(out) : out[i].kind = k => out[i].val \in 1 .. n
    /\ \A v \in 1 .. n : \E i \in 1 .. Len(out) : out[i] = [kind |-> k, val |-> v]
    /\ \A i, j \in 1 .. Len(out) :
         i < j /\ out[i].kind = k /\ out[j].kind = k => out[i].val < out[j].val

\* End to end: when the readers reached EOF within the grace period and the log
\* could be written, a step that reports its exit code has delivered, per
\* stream, every chunk the command wrote, in order.
CompleteOutput ==
    result.kind = "exit" /\ eof /\ ~decErr => \A k \in Streams : Received(k, wrote[k])

\* Exec ends, with the exit code, with an error or cancelled, even if the command
\* leaves a process behind that holds its pipes for ever.
ExecEnds == <>(ppc = "done")

\* What the documentation says and the code does not do.

\* "It only fails the step once reattaching has made no progress for
\* --reattach-timeout" (docs/compatibility.md): giving up follows at least one
\* attempt to reattach since the last output, for a step that has started
\* (runStep's deadline).
GivesUpAfterRetrying == result.kind = "gaveup" /\ logged => retried

\* "When an Exec stream is cancelled, kills the running command and every
\* process it started" (docs/compatibility.md): once the Kill exec has run, the
\* command does not run (execwrap.Kill and the pid file).
CancelKills == ppc = "done" /\ killed => cmd # "running"
============================================================================
