----------------------------- MODULE StepDirs -----------------------------
(***************************************************************************)
(* The steps of one environment, one Exec at a time, and what they leave   *)
(* in the pod: step directories, pid files, helper processes and commands. *)
(* StepResume looks inside one step; here the bytes of the log are left    *)
(* out and the helper's collect, which removes other steps' directories,   *)
(* is in.  Without a helper image a step runs under execwrap.Wrap.         *)
(***************************************************************************)
EXTENDS Naturals, FiniteSets

CONSTANTS
    Steps,       \* bound: Execs of the environment
    Tries,       \* bound: `run` execs of one step
    MaxPid,      \* bound: process numbers the pod hands out
    LateRuns     \* a `run` whose stream broke may outlive its step

ASSUME DirsAssumption ==
    Steps \in Nat /\ Tries \in Nat \ {0} /\ MaxPid \in Nat \ {0} /\ LateRuns \in BOOLEAN

Step == 1 .. Steps
Run  == Step \X (1 .. Tries)    \* a `run`, or Wrap's shell, by step and attempt

VARIABLES
    helper,     \* e.in.HelperImage is set
    step,       \* the server's seq: the step of the latest Exec
    exec,       \* where that Exec stands
    tries,      \* `run`s it has sent
    stopped,    \* its context is done
    runner,     \* where each `run` stands
    entries,    \* what its ReadDir returned and collect has not judged yet
    doomed,     \* the directory it is removing, or 0
    files,      \* files[s]: what of "dir", "log" and "done" exists for step s
    supFile,    \* the run whose supervisor is recorded, by pid and start time, or 0
    pidFile,    \* the recorded pid, a bare number, or 0
    supervisor, \* the supervisor a run started, or Wrap's command
    pid,        \* the number of that supervisor, or of Wrap's shell, or 0
    begun,      \* history: commands started for each step
    overIn      \* history: the step during which a step was over, or 0

dirsVars == <<helper, step, exec, tries, stopped, runner, entries, doomed, files,
              supFile, pidFile, supervisor, pid, begun, overIn>>

DirsStart ==
    /\ step = 0 /\ tries = 0 /\ stopped = FALSE
    /\ runner = [r \in Run |-> "none"] /\ entries = [r \in Run |-> {}]
    /\ doomed = [r \in Run |-> 0]
    /\ files = [s \in Step |-> {}]
    /\ supFile = [s \in Step |-> 0] /\ pidFile = [s \in Step |-> 0]
    /\ supervisor = [r \in Run |-> "none"] /\ pid = [r \in Run |-> 0]
    /\ begun = [s \in Step |-> 0] /\ overIn = [s \in Step |-> 0]

DirsInit == helper \in BOOLEAN /\ exec = "idle" /\ DirsStart

---------------------------------------------------------------------------
(* Exec.                                                                   *)

\* The supervisor of run r, or Wrap's shell or the command it became, is there.
Shell == {"shell", "named", "command"}
Lives(r) == supervisor[r] \in {"boot", "running"} \/ runner[r] \in Shell

\* The kernel gives process r a number no process has; a number is free again
\* when its process is gone.
Numbered(r) ==
    \E n \in 1 .. MaxPid :
        /\ \A q \in Run : Lives(q) => pid[q] # n
        /\ pid' = [pid EXCEPT ![r] = n]

Starting == {"run", "collect", "log", "created", "spawned", "recorded"}

execFrame == UNCHANGED <<helper, files, supFile, begun, entries, doomed>>

\* acquire serialises the Execs; seq gives each its own directory and pid file.
NextStep ==
    /\ exec \in {"idle", "over"} /\ step < Steps
    /\ LateRuns \/ \A r \in Run : runner[r] \notin Starting
    /\ step' = step + 1 /\ exec' = "connect" /\ tries' = 0 /\ stopped' = FALSE
    /\ UNCHANGED <<runner, supervisor, pidFile, pid, overIn>> /\ execFrame

\* `run`, again while no output has arrived, or Wrap.
Connect ==
    /\ exec = "connect" /\ ~stopped
    /\ tries' = tries + 1 /\ exec' = "stream"
    /\ runner' = [runner EXCEPT ![<<step, tries + 1>>] = IF helper THEN "run" ELSE "shell"]
    /\ IF helper THEN UNCHANGED pid ELSE Numbered(<<step, tries + 1>>)
    /\ UNCHANGED <<step, stopped, supervisor, pidFile, overIn>> /\ execFrame

Current == <<step, tries>>

\* The stream breaks: the process at its far end goes on.  (After output has
\* arrived the plugin sends `follow`, which changes nothing here.)  runStep
\* tries again, Tries bounding how often here; a direct exec has failed.
StreamBroke ==
    /\ exec = "stream" /\ (helper => tries < Tries)
    /\ exec' = IF helper THEN "connect" ELSE "over"
    /\ UNCHANGED <<step, tries, stopped, runner, supervisor, pidFile, pid, overIn>> /\ execFrame

\* The helper judges its supervisor by the file (supervisorAlive).
Alive(s) == supFile[s] # 0 /\ supervisor[<<s, supFile[s]>>] \in {"boot", "running"}

\* The process at the far end exited: with the step's exit code or without.
StreamEnds ==
    /\ exec = "stream"
    /\ \/ runner[Current] = "following"
          /\ ("done" \in files[step] \/ "log" \notin files[step] \/ ~Alive(step))
       \/ runner[Current] = "ended"
    /\ exec' = "over"
    /\ UNCHANGED <<step, tries, stopped, runner, supervisor, pidFile, pid, overIn>> /\ execFrame

\* The runner cancels the step; runStep or backend.Exec returns.
CancelStep ==
    /\ exec \in {"connect", "stream"}
    /\ stopped' = TRUE /\ exec' = "kill"
    /\ UNCHANGED <<step, tries, runner, supervisor, pidFile, pid, overIn>> /\ execFrame

\* The pid file of a step.  Seeded fault: one file for all.
PidFileShared(s) == 1
PidFileOf(s) == s

\* execwrap.Kill, if there is a record: whatever has the recorded number, and the
\* tree below it.  Unlike supervisorAlive it does not ask when that was started.
KillStep ==
    /\ exec = "kill" /\ exec' = "over"
    /\ LET s == PidFileOf(step)
           hit == {r \in Run : pidFile[s] # 0 /\ Lives(r) /\ pid[r] = pidFile[s]} IN
       /\ supervisor' = [r \in Run |-> IF r \in hit /\ supervisor[r] # "none" THEN "gone"
                                       ELSE supervisor[r]]
       /\ runner' = [r \in Run |-> IF r \in hit /\ runner[r] \in Shell THEN "ended" ELSE runner[r]]
       /\ overIn' = [t \in Step |-> IF overIn[t] = 0 /\ \E r \in hit : r[1] = t THEN step
                                    ELSE overIn[t]]
       /\ pidFile' = [pidFile EXCEPT ![s] = 0]
    /\ UNCHANGED <<step, tries, stopped, pid>> /\ execFrame

\* The Kill exec does not reach the pod.
KillLost ==
    /\ exec = "kill" /\ exec' = "over"
    /\ UNCHANGED <<step, tries, stopped, runner, supervisor, pidFile, pid, overIn>> /\ execFrame

Exec == NextStep \/ Connect \/ StreamBroke \/ StreamEnds \/ CancelStep \/ KillStep \/ KillLost

---------------------------------------------------------------------------
(* The helper's `run` of run r.                                            *)

Goes(r, from, to) == runner[r] = from /\ runner' = [runner EXCEPT ![r] = to]

runFrame == UNCHANGED <<helper, step, exec, tries, stopped>>

\* collect: os.ReadDir of the parent, without the directory to keep.
\* Seeded fault: that one is not left out.
OthersAll(s) == {t \in Step : "dir" \in files[t]}
Others(s) == {t \in Step : "dir" \in files[t]} \ {s}

ReadDir(r) ==
    /\ Goes(r, "run", "collect")
    /\ entries' = [entries EXCEPT ![r] = Others(r[1])]
    /\ UNCHANGED <<doomed, files, supFile, pidFile, supervisor, begun, overIn, pid>> /\ runFrame

\* A directory whose step is over.  Seeded faults: every other directory; only
\* those marked done.
AnyDir(s) == TRUE
MarkedDone(s) == "done" \in files[s]
Over(s) == "done" \in files[s] \/ ~Alive(s)

JudgeDir(r) ==
    /\ runner[r] = "collect" /\ doomed[r] = 0
    /\ \E s \in entries[r] :
         /\ entries' = [entries EXCEPT ![r] = @ \ {s}]
         /\ doomed' = [doomed EXCEPT ![r] = IF Over(s) THEN s ELSE 0]
    /\ UNCHANGED <<runner, files, supFile, pidFile, supervisor, begun, overIn, pid>> /\ runFrame

RemoveDir(r) ==
    /\ runner[r] = "collect" /\ doomed[r] # 0
    /\ files' = [files EXCEPT ![doomed[r]] = {}]
    /\ supFile' = [supFile EXCEPT ![doomed[r]] = 0]
    /\ doomed' = [doomed EXCEPT ![r] = 0]
    /\ UNCHANGED <<runner, entries, pidFile, supervisor, begun, overIn, pid>> /\ runFrame

MakeDir(r) ==
    /\ entries[r] = {} /\ doomed[r] = 0 /\ Goes(r, "collect", "log")
    /\ files' = [files EXCEPT ![r[1]] = @ \cup {"dir"}]
    /\ UNCHANGED <<entries, doomed, supFile, pidFile, supervisor, begun, overIn, pid>> /\ runFrame

\* The log with O_EXCL; no directory is an error.
OpenLog(r) ==
    /\ runner[r] = "log"
    /\ LET to == IF "dir" \notin files[r[1]] THEN "ended"
                 ELSE IF "log" \in files[r[1]] THEN "following" ELSE "created" IN
       /\ runner' = [runner EXCEPT ![r] = to]
       /\ files' = IF to = "created" THEN [files EXCEPT ![r[1]] = @ \cup {"log"}] ELSE files
    /\ UNCHANGED <<entries, doomed, supFile, pidFile, supervisor, begun, overIn, pid>> /\ runFrame

Supervise(r) ==
    /\ Goes(r, "created", "spawned")
    /\ supervisor' = [supervisor EXCEPT ![r] = "boot"] /\ Numbered(r)
    /\ UNCHANGED <<entries, doomed, files, supFile, pidFile, begun, overIn>> /\ runFrame

\* The supervisor file; without a directory run fails.
WriteSupervisor(r) ==
    /\ IF "dir" \in files[r[1]]
       THEN Goes(r, "spawned", "recorded") /\ supFile' = [supFile EXCEPT ![r[1]] = r[2]]
       ELSE Goes(r, "spawned", "ended") /\ UNCHANGED supFile
    /\ UNCHANGED <<entries, doomed, files, pidFile, supervisor, begun, overIn, pid>> /\ runFrame

\* The pid file, in a directory of its own; then run becomes a follower.
WritePid(r) ==
    /\ Goes(r, "recorded", "following")
    /\ pidFile' = [pidFile EXCEPT ![PidFileOf(r[1])] = pid[r]]
    /\ UNCHANGED <<entries, doomed, files, supFile, supervisor, begun, overIn, pid>> /\ runFrame

---------------------------------------------------------------------------
(* The supervisor of run r, and Wrap's shell.                              *)

\* The supervisor opens the log and starts the command, or has no log.
SupervisorStarts(r) ==
    /\ supervisor[r] = "boot"
    /\ IF "log" \in files[r[1]]
       THEN /\ supervisor' = [supervisor EXCEPT ![r] = "running"]
            /\ begun' = [begun EXCEPT ![r[1]] = @ + 1]
            /\ UNCHANGED <<files, overIn>>
       ELSE /\ supervisor' = [supervisor EXCEPT ![r] = "gone"]
            /\ files' = IF "dir" \in files[r[1]]
                        THEN [files EXCEPT ![r[1]] = @ \cup {"done"}] ELSE files
            /\ overIn' = [overIn EXCEPT ![r[1]] = step]
            /\ UNCHANGED begun
    /\ UNCHANGED <<runner, entries, doomed, supFile, pidFile, pid>> /\ runFrame

\* The command exited: the done file, if there is a directory for it.  The
\* supervisor may stay to drain what processes left behind write.
CommandEnds(r) ==
    /\ supervisor[r] = "running" /\ "done" \notin files[r[1]]
    /\ supervisor' \in {supervisor, [supervisor EXCEPT ![r] = "gone"]}
    /\ helper \/ supervisor'[r] = "gone"
    /\ files' = IF "dir" \in files[r[1]] THEN [files EXCEPT ![r[1]] = @ \cup {"done"}] ELSE files
    /\ overIn' = [overIn EXCEPT ![r[1]] = IF @ = 0 THEN step ELSE @]
    /\ runner' = IF helper THEN runner ELSE [runner EXCEPT ![r] = "ended"]
    /\ UNCHANGED <<entries, doomed, supFile, pidFile, begun, pid>> /\ runFrame

SupervisorLeaves(r) ==
    /\ helper /\ supervisor[r] = "running" /\ "done" \in files[r[1]]
    /\ supervisor' = [supervisor EXCEPT ![r] = "gone"]
    /\ UNCHANGED <<runner, entries, doomed, files, supFile, pidFile, begun, overIn, pid>> /\ runFrame

\* wrapScript: the shell records its pid, then becomes the command.
WrapRecords(r) ==
    /\ Goes(r, "shell", "named")
    /\ pidFile' = [pidFile EXCEPT ![PidFileOf(r[1])] = pid[r]]
    /\ UNCHANGED <<entries, doomed, files, supFile, supervisor, begun, overIn, pid>> /\ runFrame

WrapExecs(r) ==
    /\ Goes(r, "named", "command")
    /\ supervisor' = [supervisor EXCEPT ![r] = "running"]
    /\ begun' = [begun EXCEPT ![r[1]] = @ + 1]
    /\ UNCHANGED <<entries, doomed, files, supFile, pidFile, overIn, pid>> /\ runFrame

\* The workdir cannot be entered: the shell exits.
WrapFails(r) ==
    /\ Goes(r, "named", "ended")
    /\ overIn' = [overIn EXCEPT ![r[1]] = step]
    /\ UNCHANGED <<entries, doomed, files, supFile, pidFile, supervisor, begun, pid>> /\ runFrame

RunStep(r) ==
    \/ ReadDir(r) \/ JudgeDir(r) \/ RemoveDir(r) \/ MakeDir(r) \/ OpenLog(r)
    \/ Supervise(r) \/ WriteSupervisor(r) \/ WritePid(r)

DirsNext ==
    \/ Exec
    \/ \E r \in Run : RunStep(r) \/ SupervisorStarts(r) \/ CommandEnds(r)
                      \/ SupervisorLeaves(r) \/ WrapRecords(r) \/ WrapExecs(r)
                      \/ WrapFails(r)

DirsSpec == DirsInit /\ [][DirsNext]_dirsVars

DirsTypeOK ==
    /\ helper \in BOOLEAN /\ stopped \in BOOLEAN
    /\ step \in 0 .. Steps /\ tries \in 0 .. Tries
    /\ exec \in {"off", "idle", "connect", "stream", "kill", "over"}
    /\ runner \in [Run -> Starting \cup {"none", "following", "shell", "named", "command", "ended"}]
    /\ entries \in [Run -> SUBSET Step] /\ doomed \in [Run -> 0 .. Steps]
    /\ files \in [Step -> SUBSET {"dir", "log", "done"}]
    /\ supFile \in [Step -> 0 .. Tries] /\ pidFile \in [Step -> 0 .. MaxPid]
    /\ supervisor \in [Run -> {"none", "boot", "running", "gone"}] /\ pid \in [Run -> 0 .. MaxPid]
    /\ begun \in [Step -> Nat] /\ overIn \in [Step -> 0 .. Steps]

\* The command of a step starts at most once, through repeated runs and the
\* collects of its own and of other steps.
RunsOnce == \A s \in Step : begun[s] <= 1

\* collect leaves a step that is still running alone, also one whose Exec is over
\* because its cancellation did not reach the pod.
LiveKept ==
    helper => \A r \in Run :
        supervisor[r] = "running" /\ overIn[r[1]] = 0 => "log" \in files[r[1]]

\* The shared volume does not fill up with old steps: when a step's log exists,
\* every other directory is that of a step that still runs or that was over only
\* after this step had begun.
OldCollected ==
    helper /\ step > 0 /\ "log" \in files[step] =>
        \A s \in Step \ {step} : "dir" \in files[s] =>
            \/ overIn[s] = step
            \/ overIn[s] = 0 /\ \E r \in Run : r[1] = s /\ supervisor[r] \in {"boot", "running"}

\* Cancelling a step kills nothing of another one, although the recorded number
\* may have a new owner when the step's own process is gone.
KillsOwnStep ==
    [][\A r \in Run : exec = "kill" /\ exec' = "over" /\ Lives(r) /\ r[1] # step => Lives(r)']_dirsVars

===========================================================================
