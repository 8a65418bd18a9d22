---------------------------- MODULE StepDirsProofs ----------------------------
(* The inductive invariant of StepDirs and what follows from it for any number *)
(* of steps and of attempts, as long as no `run` outlives its step.            *)
EXTENDS StepDirs, TLAPS

\* A live supervisor of step s.
LiveStates == {"boot", "running"}
Live(s) == \E r \in Run : r[1] = s /\ supervisor[r] \in LiveStates

\* Where the latest Exec stands, and that a `run` it has yet to send has left nothing.
ExecInv ==
    /\ exec \in {"connect", "stream", "kill"} => step > 0
    /\ exec = "connect" => tries < Tries /\ (helper \/ tries = 0)
    /\ \A r \in Run : r[1] > step \/ (r[1] = step /\ r[2] > tries) =>
         runner[r] = "none" /\ supervisor[r] = "none"
    /\ \A s \in Step : s > step => files[s] = {} /\ begun[s] = 0 /\ overIn[s] = 0

\* Without a helper: one shell for each step, whose command starts when it is through.
WrapInv ==
    /\ \A r \in Run : /\ runner[r] \in {"none", "shell", "named", "command", "ended"}
                      /\ supervisor[r] # "boot"
                      /\ runner[r] # "none" => r[2] = 1
                      /\ supervisor[r] # "none" => runner[r] # "none"
                      /\ runner[r] \in {"shell", "named"} => begun[r[1]] = 0
    /\ \A s \in Step : begun[s] = 0 \/ (begun[s] = 1 /\ runner[<<s, 1>>] # "none")

\* Only `run`s of the latest step are at work; collect keeps the directory of its own.
RunInv ==
    \A r \in Run :
      /\ runner[r] \in Starting \cup {"none", "following", "ended"}
      /\ runner[r] \in Starting => r[1] = step
      /\ runner[r] # "collect" => entries[r] = {} /\ doomed[r] = 0
      /\ r[1] \notin entries[r] /\ doomed[r] # r[1]

\* What is in a step directory; the done file only when the step is over.
FilesInv ==
    /\ \A s \in Step : /\ "log" \in files[s] => "dir" \in files[s]
                       /\ "done" \in files[s] => overIn[s] # 0
    /\ step > 0 /\ (begun[step] > 0 \/ overIn[step] # 0) => "log" \in files[step]

\* The `run` that made the log is the one that has a supervisor.
Owner(r) == runner[r] \in {"created", "spawned", "recorded"} \/ supervisor[r] # "none"
OwnerInv ==
    /\ \A r, q \in Run : Owner(r) /\ Owner(q) /\ r[1] = q[1] => r = q
    /\ \A r \in Run : /\ Owner(r) /\ r[1] = step => "log" \in files[r[1]]
                      /\ runner[r] = "created" => supervisor[r] = "none" /\ begun[r[1]] = 0 /\ overIn[r[1]] = 0
                      /\ runner[r] \in {"spawned", "recorded"} => supervisor[r] # "none"
                      /\ supervisor[r] = "boot" => begun[r[1]] = 0 /\ overIn[r[1]] = 0
    /\ \A s \in Step : begun[s] <= 1

\* The files of a step that runs say so, and a directory being removed is not one of them.
AliveInv ==
    \A r \in Run : supervisor[r] \in LiveStates /\ overIn[r[1]] = 0 =>
      /\ "log" \in files[r[1]]
      /\ runner[r] # "spawned" => supFile[r[1]] = r[2]
      /\ \A q \in Run : doomed[q] # r[1]

\* A step that is over is one that collect finds over.
EndedInv == \A s \in Step : overIn[s] # 0 => "done" \in files[s] \/ "dir" \notin files[s] \/ ~Live(s)

\* What collect has left so far, and what it leaves.
Fine(s) == overIn[s] = step \/ (overIn[s] = 0 /\ Live(s))
CollectInv ==
    /\ \A r \in Run, s \in Step : runner[r] = "collect" /\ s # step /\ "dir" \in files[s] =>
         s \in entries[r] \/ s = doomed[r] \/ Fine(s)
    /\ (step > 0 /\ "log" \in files[step]) \/ (\E r \in Run : runner[r] = "log") =>
         \A s \in Step : s # step /\ "dir" \in files[s] => Fine(s)

HelperInv == RunInv /\ FilesInv /\ OwnerInv /\ AliveInv /\ EndedInv /\ CollectInv

\* The numbers of the latest step's processes have gone to no other step's, and its
\* pid file holds one of them.
Unstarted(r) == supervisor[r] = "none" /\ runner[r] \notin Shell \cup {"ended"}
PidInv ==
    /\ \A r \in Run : Unstarted(r) => pid[r] = 0
    /\ \A q, r \in Run : Lives(q) /\ r[1] = step /\ pid[r] # 0 /\ pid[q] = pid[r] => q[1] = step
    /\ \A s \in Step : s > step => pidFile[s] = 0
    /\ step > 0 /\ pidFile[step] # 0 => \E r \in Run : r[1] = step /\ pid[r] = pidFile[step]

DirsInv == DirsTypeOK /\ ExecInv /\ PidInv /\ (IF helper THEN HelperInv ELSE WrapInv)

USE DirsAssumption

\* A step is a number from 1 on.
LEMMA StepFacts ==
    /\ \A s \in 0 .. Steps : s \in Nat /\ (s # 0 <=> s \in Step)
    /\ \A s \in Step : s \in 0 .. Steps /\ s \in Nat /\ s > 0
  BY DEF Step

\* A run is a step and an attempt.
LEMMA RunFacts ==
    /\ \A r \in Run : r[1] \in Step /\ r[2] \in 1 .. Tries /\ r = <<r[1], r[2]>>
    /\ \A s \in Step, t \in 1 .. Tries : <<s, t>> \in Run /\ <<s, t>>[1] = s /\ <<s, t>>[2] = t
  BY DEF Run, Step

\* The types of what is in the pod, of the server's counters, and of its flags.
PodType ==
    /\ runner \in [Run -> Starting \cup {"none", "following", "shell", "named", "command", "ended"}]
    /\ entries \in [Run -> SUBSET Step] /\ doomed \in [Run -> 0 .. Steps]
    /\ files \in [Step -> SUBSET {"dir", "log", "done"}]
    /\ supFile \in [Step -> 0 .. Tries] /\ pidFile \in [Step -> 0 .. MaxPid]
    /\ supervisor \in [Run -> {"none", "boot", "running", "gone"}] /\ pid \in [Run -> 0 .. MaxPid]
    /\ begun \in [Step -> Nat] /\ overIn \in [Step -> 0 .. Steps]
ServerType ==
    /\ step \in 0 .. Steps /\ tries \in 0 .. Tries
    /\ exec \in {"off", "idle", "connect", "stream", "kill", "over"}
DirsFlagType == helper \in BOOLEAN /\ stopped \in BOOLEAN

\* DirsTypeOK is the three together.
LEMMA TypeParts == DirsTypeOK <=> DirsFlagType /\ ServerType /\ PodType
  BY DEF DirsTypeOK, DirsFlagType, ServerType, PodType
\* The same after a step.
LEMMA TypePartsPrimed == DirsFlagType' /\ ServerType' /\ PodType' => DirsTypeOK'
  BY DEF DirsTypeOK, DirsFlagType, ServerType, PodType

\* The steps of the processes in the pod.
PodStep(r) ==
    RunStep(r) \/ SupervisorStarts(r) \/ CommandEnds(r) \/ SupervisorLeaves(r) \/ WrapRecords(r)
    \/ WrapExecs(r) \/ WrapFails(r)

\* A process in the pod changes nothing of the server's.
LEMMA PodFrame ==
    ASSUME NEW r \in Run, PodStep(r) PROVE UNCHANGED <<helper, step, exec, tries, stopped>>
  BY Zenon DEF PodStep, RunStep, ReadDir, JudgeDir, RemoveDir, MakeDir, OpenLog, Supervise, WriteSupervisor, WritePid,
         SupervisorStarts, CommandEnds, SupervisorLeaves, WrapRecords, WrapExecs, WrapFails, runFrame

\* A number from 1 to MaxPid is given.
LEMMA NumberedType ==
    ASSUME PodType, NEW r \in Run, Numbered(r) PROVE pid' \in [Run -> 0 .. MaxPid]
  BY DEF PodType, Numbered

\* What Kill hits, and what it does to that.
Hit(r) == pidFile[step] # 0 /\ Lives(r) /\ pid[r] = pidFile[step]
LEMMA KillFacts ==
    ASSUME PodType, KillStep
    PROVE  /\ UNCHANGED <<helper, step, tries, stopped, files, supFile, begun, entries, doomed, pid>>
           /\ exec = "kill" /\ exec' = "over"
           /\ pidFile' = [pidFile EXCEPT ![step] = 0]
           /\ supervisor' = [r \in Run |-> IF Hit(r) /\ supervisor[r] # "none" THEN "gone" ELSE supervisor[r]]
           /\ runner' = [r \in Run |-> IF Hit(r) /\ runner[r] \in Shell THEN "ended" ELSE runner[r]]
           /\ overIn' = [t \in Step |-> IF overIn[t] = 0 /\ \E r \in Run : Hit(r) /\ r[1] = t THEN step
                                        ELSE overIn[t]]
  <1> DEFINE hit == {r \in Run : pidFile[PidFileOf(step)] # 0 /\ Lives(r) /\ pid[r] = pidFile[PidFileOf(step)]}
  <1>1. \A r \in Run : r \in hit <=> Hit(r)
    BY DEF Hit, PidFileOf
  <1>2. /\ supervisor' = [r \in Run |-> IF r \in hit /\ supervisor[r] # "none" THEN "gone" ELSE supervisor[r]]
        /\ runner' = [r \in Run |-> IF r \in hit /\ runner[r] \in Shell THEN "ended" ELSE runner[r]]
        /\ overIn' = [t \in Step |-> IF overIn[t] = 0 /\ \E r \in hit : r[1] = t THEN step ELSE overIn[t]]
        /\ pidFile' = [pidFile EXCEPT ![step] = 0]
        /\ UNCHANGED <<helper, step, tries, stopped, files, supFile, begun, entries, doomed, pid>>
        /\ exec = "kill" /\ exec' = "over"
    BY DEF KillStep, execFrame, PidFileOf
  <1>3. hit \subseteq Run
    OBVIOUS
  <1> HIDE DEF hit
  <1>4. \A t : (\E r \in hit : r[1] = t) <=> (\E r \in Run : Hit(r) /\ r[1] = t)
    BY <1>1, <1>3
  <1> QED
    BY <1>1, <1>2, <1>4

\* The steps of Exec keep the types.
LEMMA ExecType == ASSUME DirsFlagType, ServerType, PodType, ExecInv, Exec PROVE DirsFlagType' /\ ServerType' /\ PodType'
  <1> USE DEF execFrame
  <1>1. CASE NextStep
    <2>1. DirsFlagType'
      BY <1>1, Zenon DEF DirsFlagType, NextStep
    <2> QED
      BY <1>1, <2>1 DEF ServerType, PodType, NextStep
  <1>2. CASE Connect
    <2>1. DirsFlagType'
      BY <1>2, Zenon DEF DirsFlagType, Connect
    <2>2. step \in Step /\ tries + 1 \in 1 .. Tries
      BY <1>2, StepFacts DEF ServerType, Connect, ExecInv
    <2>3. runner' \in [Run -> Starting \cup {"none", "following", "shell", "named", "command", "ended"}]
      BY <1>2, <2>2, RunFacts DEF PodType, Connect, Starting
    <2>4. ServerType'
      BY <1>2, <2>2 DEF ServerType, Connect
    <2>5. UNCHANGED <<files, supFile, begun, entries, doomed, supervisor, pidFile, overIn>>
      BY <1>2 DEF Connect
    <2>6. pid' \in [Run -> 0 .. MaxPid]
      <3>1. pid' = pid \/ Numbered(<<step, tries + 1>>)
        BY <1>2 DEF Connect
      <3>2. <<step, tries + 1>> \in Run
        BY <2>2, RunFacts
      <3> QED
        BY <3>1, <3>2, NumberedType DEF PodType
    <2> QED
      BY <2>1, <2>3, <2>4, <2>5, <2>6 DEF PodType
  <1>3. CASE StreamBroke
    <2>1. DirsFlagType'
      BY <1>3, Zenon DEF DirsFlagType, StreamBroke
    <2> QED
      BY <1>3, <2>1 DEF ServerType, PodType, StreamBroke
  <1>4. CASE StreamEnds
    <2>1. DirsFlagType'
      BY <1>4, Zenon DEF DirsFlagType, StreamEnds
    <2> QED
      BY <1>4, <2>1 DEF ServerType, PodType, StreamEnds
  <1>5. CASE CancelStep
    <2>1. DirsFlagType'
      BY <1>5, Zenon DEF DirsFlagType, CancelStep
    <2> QED
      BY <1>5, <2>1 DEF ServerType, PodType, CancelStep
  <1>6. CASE KillStep
    <2>1. DirsFlagType'
      BY <1>6, Zenon DEF DirsFlagType, KillStep
    <2>2. supervisor' \in [Run -> {"none", "boot", "running", "gone"}]
      BY <1>6, KillFacts DEF PodType
    <2>3. runner' \in [Run -> Starting \cup {"none", "following", "shell", "named", "command", "ended"}]
      BY <1>6, KillFacts DEF PodType
    <2>4. overIn' \in [Step -> 0 .. Steps]
      BY <1>6, KillFacts DEF PodType, ServerType
    <2>5. pidFile' \in [Step -> 0 .. MaxPid]
      BY <1>6, KillFacts DEF PodType
    <2>6. ServerType' /\ UNCHANGED <<files, supFile, begun, entries, doomed, pid>>
      BY <1>6, KillFacts DEF ServerType
    <2> QED
      BY <2>1, <2>2, <2>3, <2>4, <2>5, <2>6 DEF PodType
  <1>7. CASE KillLost
    <2>1. DirsFlagType'
      BY <1>7, Zenon DEF DirsFlagType, KillLost
    <2> QED
      BY <1>7, <2>1 DEF ServerType, PodType, KillLost
  <1> QED
    BY <1>1, <1>2, <1>3, <1>4, <1>5, <1>6, <1>7 DEF Exec

\* So do those of the processes in the pod.
LEMMA PodTypeStays ==
    ASSUME ServerType, PodType, ExecInv, NEW r \in Run, PodStep(r) PROVE PodType'
  <1>0. r[1] \in Step /\ r[2] \in 1 .. Tries /\ step \in 0 .. Steps
    BY RunFacts DEF ServerType
  <1> USE <1>0 DEF PodType, Goes, Starting
  <1>1. CASE ReadDir(r)
    BY <1>1 DEF ReadDir, Others
  <1>2. CASE JudgeDir(r)
    <2>1. PICK s \in entries[r] : /\ entries' = [entries EXCEPT ![r] = @ \ {s}]
                                  /\ doomed' = [doomed EXCEPT ![r] = IF Over(s) THEN s ELSE 0]
      BY <1>2 DEF JudgeDir
    <2>2. s \in 0 .. Steps /\ 0 \in 0 .. Steps
      BY <2>1, StepFacts
    <2>3. entries' \in [Run -> SUBSET Step] /\ doomed' \in [Run -> 0 .. Steps]
      BY <2>1, <2>2
    <2> QED
      BY <1>2, <2>3 DEF JudgeDir
  <1>3. CASE RemoveDir(r)
    <2>1. doomed[r] \in Step
      BY <1>3, StepFacts DEF RemoveDir
    <2>2. doomed' \in [Run -> 0 .. Steps]
      BY <1>3 DEF RemoveDir
    <2>3. files' \in [Step -> SUBSET {"dir", "log", "done"}] /\ supFile' \in [Step -> 0 .. Tries]
      BY <1>3, <2>1 DEF RemoveDir
    <2> QED
      BY <1>3, <2>2, <2>3 DEF RemoveDir
  <1>4. CASE MakeDir(r)
    BY <1>4 DEF MakeDir
  <1>5. CASE OpenLog(r)
    BY <1>5 DEF OpenLog
  <1>6. CASE Supervise(r)
    <2>1. pid' \in [Run -> 0 .. MaxPid]
      BY <1>6, NumberedType DEF Supervise
    <2> QED
      BY <1>6, <2>1 DEF Supervise
  <1>7. CASE WriteSupervisor(r)
    <2>1. CASE "dir" \in files[r[1]]
      <3>1. /\ runner' = [runner EXCEPT ![r] = "recorded"] /\ supFile' = [supFile EXCEPT ![r[1]] = r[2]]
            /\ UNCHANGED <<entries, doomed, files, pidFile, supervisor, begun, overIn, pid>>
        BY <1>7, <2>1 DEF WriteSupervisor
      <3> QED
        BY <3>1
    <2>2. CASE "dir" \notin files[r[1]]
      BY <1>7, <2>2 DEF WriteSupervisor
    <2> QED
      BY <2>1, <2>2
  <1>8. CASE WritePid(r)
    BY <1>8 DEF WritePid, PidFileOf
  <1>9. CASE SupervisorStarts(r)
    <2>1. CASE "log" \in files[r[1]]
      <3>1. /\ supervisor' = [supervisor EXCEPT ![r] = "running"] /\ begun' = [begun EXCEPT ![r[1]] = @ + 1]
            /\ UNCHANGED <<runner, entries, doomed, files, supFile, pidFile, overIn, pid>>
        BY <1>9, <2>1 DEF SupervisorStarts
      <3> QED
        BY <3>1
    <2>2. CASE "log" \notin files[r[1]]
      <3>1. /\ supervisor' = [supervisor EXCEPT ![r] = "gone"]
            /\ files' \in {files, [files EXCEPT ![r[1]] = @ \cup {"done"}]}
            /\ overIn' = [overIn EXCEPT ![r[1]] = step]
            /\ UNCHANGED <<runner, entries, doomed, supFile, pidFile, begun, pid>>
        BY <1>9, <2>2 DEF SupervisorStarts
      <3> QED
        BY <3>1
    <2> QED
      BY <2>1, <2>2
  <1>10. CASE CommandEnds(r)
    <2>1. files' \in [Step -> SUBSET {"dir", "log", "done"}]
      BY <1>10 DEF CommandEnds
    <2>2. overIn' \in [Step -> 0 .. Steps]
      BY <1>10 DEF CommandEnds, ServerType
    <2>3. supervisor' \in [Run -> {"none", "boot", "running", "gone"}]
      <3>1. supervisor' \in {supervisor, [supervisor EXCEPT ![r] = "gone"]}
        BY <1>10 DEF CommandEnds
      <3> QED
        BY <3>1
    <2>4. runner' \in [Run -> Starting \cup {"none", "following", "shell", "named", "command", "ended"}]
      BY <1>10 DEF CommandEnds
    <2> QED
      BY <1>10, <2>1, <2>2, <2>3, <2>4 DEF CommandEnds
  <1>11. CASE SupervisorLeaves(r)
    BY <1>11 DEF SupervisorLeaves
  <1>12. CASE WrapRecords(r)
    BY <1>12 DEF WrapRecords, PidFileOf
  <1>13. CASE WrapExecs(r)
    BY <1>13 DEF WrapExecs
  <1>14. CASE WrapFails(r)
    BY <1>14 DEF WrapFails, ServerType
  <1> QED
    BY <1>1, <1>2, <1>3, <1>4, <1>5, <1>6, <1>7, <1>8, <1>9, <1>10, <1>11, <1>12, <1>13, <1>14
       DEF PodStep, RunStep

\* A process in the pod is one that was started, and touches its own step's files
\* only, but for the directories collect removes.
LEMMA PodLocal ==
    ASSUME PodType, NEW r \in Run, PodStep(r)
    PROVE  /\ runner[r] # "none" \/ supervisor[r] # "none"
           /\ \A q \in Run : q # r => /\ runner'[q] = runner[q] /\ supervisor'[q] = supervisor[q]
                                      /\ entries'[q] = entries[q] /\ doomed'[q] = doomed[q]
           /\ \A s \in Step : s # r[1] => /\ begun'[s] = begun[s] /\ overIn'[s] = overIn[s]
                                          /\ pidFile'[s] = pidFile[s]
                                          /\ files'[s] = files[s] \/ files'[s] = {}
  <1>0. r[1] \in Step
    BY RunFacts
  <1> USE <1>0 DEF PodType, Goes
  <1>1. CASE ReadDir(r)
    BY <1>1 DEF ReadDir
  <1>2. CASE JudgeDir(r)
    BY <1>2 DEF JudgeDir
  <1>3. CASE RemoveDir(r)
    BY <1>3 DEF RemoveDir
  <1>4. CASE MakeDir(r)
    BY <1>4 DEF MakeDir
  <1>5. CASE OpenLog(r)
    BY <1>5 DEF OpenLog
  <1>6. CASE Supervise(r)
    BY <1>6 DEF Supervise
  <1>7. CASE WriteSupervisor(r)
    BY <1>7 DEF WriteSupervisor
  <1>8. CASE WritePid(r)
    BY <1>8 DEF WritePid, PidFileOf
  <1>9. CASE SupervisorStarts(r)
    BY <1>9 DEF SupervisorStarts
  <1>10. CASE CommandEnds(r)
    BY <1>10 DEF CommandEnds
  <1>11. CASE SupervisorLeaves(r)
    BY <1>11 DEF SupervisorLeaves
  <1>12. CASE WrapRecords(r)
    BY <1>12 DEF WrapRecords, PidFileOf
  <1>13. CASE WrapExecs(r)
    BY <1>13 DEF WrapExecs
  <1>14. CASE WrapFails(r)
    BY <1>14 DEF WrapFails
  <1> QED
    BY <1>1, <1>2, <1>3, <1>4, <1>5, <1>6, <1>7, <1>8, <1>9, <1>10, <1>11, <1>12, <1>13, <1>14
       DEF PodStep, RunStep

\* Every step of Exec keeps ExecInv.
LEMMA ExecExec == ASSUME ServerType, PodType, ExecInv, Exec PROVE ExecInv'
  <1>0. step \in Nat /\ tries \in Nat /\ Tries \in Nat \ {0}
    BY DEF ServerType
  <1>1. \A r \in Run : r[1] \in Nat /\ r[2] \in Nat /\ r[1] > 0 /\ r[2] > 0
    BY RunFacts, StepFacts
  <1> USE <1>0, <1>1 DEF ExecInv, execFrame
  <1>2. CASE NextStep
    BY <1>2, StepFacts DEF NextStep
  <1>3. CASE Connect
    <2>1. /\ step > 0 /\ step' = step /\ tries' = tries + 1 /\ exec' = "stream"
          /\ UNCHANGED <<supervisor, files, begun, overIn>>
      BY <1>3 DEF Connect
    <2>2. \A r \in Run : runner'[r] # runner[r] => r = <<step, tries + 1>>
      BY <1>3 DEF Connect, PodType
    <2>3. \A r \in Run : runner'[r] # runner[r] => r[1] = step /\ r[2] = tries + 1
      BY <2>2
    <2> QED
      BY <2>1, <2>3
  <1>4. CASE StreamBroke
    BY <1>4 DEF StreamBroke
  <1>5. CASE StreamEnds
    BY <1>5 DEF StreamEnds
  <1>6. CASE CancelStep
    BY <1>6 DEF CancelStep
  <1>7. CASE KillStep
    <2>1. UNCHANGED <<step, tries, files, begun>> /\ exec' = "over"
      BY <1>7, KillFacts
    <2>2. \A r \in Run : (runner[r] = "none" => runner'[r] = "none")
                         /\ (supervisor[r] = "none" => supervisor'[r] = "none")
      BY <1>7, KillFacts DEF Shell
    <2>3. \A r \in Run : Hit(r) => ~(r[1] > step)
      BY DEF Hit, Lives, Shell
    <2>4. \A s \in Step : s > step => overIn'[s] = overIn[s]
      BY <1>7, <2>3, KillFacts
    <2> QED
      BY <2>1, <2>2, <2>4, StepFacts
  <1>8. CASE KillLost
    BY <1>8 DEF KillLost
  <1> QED
    BY <1>2, <1>3, <1>4, <1>5, <1>6, <1>7, <1>8 DEF Exec

\* So does every step in the pod.
LEMMA PodExec ==
    ASSUME ServerType, PodType, ExecInv, NEW r \in Run, PodStep(r) PROVE ExecInv'
  <1>1. step \in Nat /\ tries \in Nat
    BY DEF ServerType
  <1>2. \A q \in Run : q[1] \in Nat /\ q[2] \in Nat /\ q[1] \in Step
    BY RunFacts, StepFacts
  <1>3. \A s \in Step : s \in Nat
    BY StepFacts
  <1>4. ~(r[1] > step \/ (r[1] = step /\ r[2] > tries))
    BY PodLocal DEF ExecInv
  <1>5. \A s \in Step : s > step => s # r[1]
    BY <1>1, <1>2, <1>3, <1>4
  <1>6. UNCHANGED <<helper, step, exec, tries>>
    BY PodFrame
  <1>7. \A s \in Step : s > step => files'[s] = {} /\ begun'[s] = 0 /\ overIn'[s] = 0
    BY <1>5, PodLocal DEF ExecInv
  <1>8. \A q \in Run : q[1] > step \/ (q[1] = step /\ q[2] > tries) =>
          runner'[q] = "none" /\ supervisor'[q] = "none"
    BY <1>4, PodLocal DEF ExecInv
  <1> QED
    BY <1>6, <1>7, <1>8 DEF ExecInv

\* Every step keeps WrapInv.
LEMMA WrapInductive ==
    ASSUME ~helper, ServerType, PodType, ExecInv, WrapInv, DirsNext PROVE WrapInv'
  <1>1. \A r \in Run : r[1] \in Step /\ r = <<r[1], r[2]>>
    BY RunFacts
  <1>2. \A s \in Step : <<s, 1>> \in Run
    BY RunFacts
  <1>3. CASE Connect
    <2>1. step \in Step /\ tries = 0 /\ runner[<<step, 1>>] = "none" /\ begun[step] = 0
      BY <1>2, <1>3, StepFacts DEF Connect, ExecInv, ServerType, WrapInv
    <2>2. /\ runner' = [runner EXCEPT ![<<step, 1>>] = "shell"]
          /\ UNCHANGED <<begun, supervisor>>
      BY <1>3, <2>1 DEF Connect, execFrame
    <2>3. /\ runner'[<<step, 1>>] = "shell"
          /\ \A q \in Run : q # <<step, 1>> => runner'[q] = runner[q]
      BY <1>2, <2>1, <2>2 DEF PodType
    <2>4. <<step, 1>>[1] = step /\ <<step, 1>>[2] = 1
      OBVIOUS
    <2>5. \A q \in Run : q[1] = step /\ q[2] = 1 => q = <<step, 1>>
      BY <1>1
    <2> QED
      BY <1>1, <1>2, <2>1, <2>2, <2>3, <2>4, <2>5 DEF WrapInv
  <1>4. CASE NextStep \/ StreamBroke \/ StreamEnds \/ CancelStep \/ KillLost
    BY <1>4 DEF WrapInv, NextStep, StreamBroke, StreamEnds, CancelStep, KillLost, execFrame
  <1>5. CASE KillStep
    <2>1. UNCHANGED begun
      BY <1>5, KillFacts
    <2>2. \A q \in Run : /\ runner'[q] = runner[q] \/ (runner[q] \in Shell /\ runner'[q] = "ended")
                         /\ supervisor'[q] = supervisor[q] \/ (supervisor[q] # "none" /\ supervisor'[q] = "gone")
      BY <1>5, KillFacts
    <2> QED
      BY <1>1, <1>2, <2>1, <2>2 DEF WrapInv, Shell
  <1>6. ASSUME NEW r \in Run, PodStep(r) PROVE WrapInv'
    <2>1. /\ runner[r] \in {"none", "shell", "named", "command", "ended"} /\ supervisor[r] # "boot"
          /\ r[1] \in Step
      BY <1>1 DEF WrapInv
    <2>2. CASE CommandEnds(r)
      <3>1. /\ UNCHANGED begun /\ runner' = [runner EXCEPT ![r] = "ended"]
            /\ supervisor' \in {supervisor, [supervisor EXCEPT ![r] = "gone"]}
        BY <2>2 DEF CommandEnds
      <3>2. runner[r] # "none"
        BY <2>2 DEF CommandEnds, WrapInv
      <3> QED
        BY <1>1, <1>2, <3>1, <3>2 DEF WrapInv, PodType
    <2>3. CASE WrapRecords(r)
      BY <1>1, <1>2, <2>3 DEF WrapRecords, Goes, WrapInv, PodType
    <2>4. CASE WrapExecs(r)
      <3>1. /\ runner[r] = "named" /\ runner' = [runner EXCEPT ![r] = "command"]
            /\ supervisor' = [supervisor EXCEPT ![r] = "running"]
            /\ begun' = [begun EXCEPT ![r[1]] = @ + 1]
        BY <2>4 DEF WrapExecs, Goes
      <3>2. begun[r[1]] = 0 /\ r[2] = 1 /\ r = <<r[1], 1>>
        BY <1>1, <3>1 DEF WrapInv
      <3>3. /\ begun'[r[1]] = 1 /\ runner'[r] = "command" /\ supervisor'[r] = "running"
            /\ \A s \in Step : s # r[1] => begun'[s] = begun[s]
            /\ \A q \in Run : q # r => runner'[q] = runner[q] /\ supervisor'[q] = supervisor[q]
        BY <2>1, <3>1, <3>2 DEF PodType
      <3>4. \A q \in Run : runner[q] # "none" /\ q[1] = r[1] => q = r
        BY <1>1, <3>2 DEF WrapInv
      <3> QED
        BY <1>1, <1>2, <3>2, <3>3, <3>4 DEF WrapInv
    <2>5. CASE WrapFails(r)
      BY <1>1, <1>2, <2>5 DEF WrapFails, Goes, WrapInv, PodType
    <2>6. ~RunStep(r) /\ ~SupervisorStarts(r) /\ ~SupervisorLeaves(r)
      BY <2>1 DEF RunStep, ReadDir, JudgeDir, RemoveDir, MakeDir, OpenLog, Supervise, WriteSupervisor, WritePid, Goes,
                  SupervisorStarts, SupervisorLeaves
    <2> QED
      BY <1>6, <2>2, <2>3, <2>4, <2>5, <2>6 DEF PodStep
  <1> QED
    BY <1>3, <1>4, <1>5, <1>6 DEF DirsNext, Exec, PodStep

\* The states of the invariant in which a helper runs the steps.
HelperState == helper /\ ~LateRuns /\ ServerType /\ PodType /\ ExecInv /\ HelperInv

\* What the steps below take from it.
LEMMA HelperStateFacts ==
    ASSUME HelperState
    PROVE  /\ PodType /\ RunInv /\ FilesInv /\ OwnerInv /\ AliveInv /\ EndedInv /\ CollectInv
           /\ step \in 0 .. Steps /\ step \in Nat /\ (step > 0 <=> step \in Step)
           /\ \A r \in Run : r[1] \in Step /\ r[1] > 0 /\ r[1] # 0 /\ r[2] # 0 /\ r = <<r[1], r[2]>>
  BY RunFacts, StepFacts DEF HelperState, HelperInv, ServerType

\* collect reads the other directories: all of them are to be judged.
LEMMA ReadDirKeeps == ASSUME HelperState, NEW r \in Run, ReadDir(r) PROVE HelperInv'
  <1>1. /\ runner[r] = "run"
        /\ runner' = [runner EXCEPT ![r] = "collect"]
        /\ entries' = [entries EXCEPT ![r] = Others(r[1])]
        /\ UNCHANGED <<step, doomed, files, supFile, pidFile, supervisor, begun, overIn>>
    BY DEF ReadDir, Goes, runFrame
  <1> USE <1>1, HelperStateFacts DEF PodType
  <1>2. RunInv'
    BY DEF RunInv, Starting, Others
  <1>3. FilesInv'
    BY DEF FilesInv, Others
  <1>4. OwnerInv'
    BY DEF OwnerInv, Owner, Others
  <1>5. AliveInv'
    BY DEF AliveInv, LiveStates, Others
  <1>6. EndedInv'
    BY DEF EndedInv, Live, LiveStates, Others
  <1>7. CollectInv'
    <2>1. \A s \in Step : Fine(s)' <=> Fine(s)
      BY DEF Fine, Live
    <2>2. r[1] = step /\ entries'[r] = Others(step) /\ \A q \in Run : q # r => entries'[q] = entries[q]
      BY DEF RunInv, Starting
    <2> QED
      BY <2>1, <2>2 DEF CollectInv, Others
  <1> QED
    BY <1>2, <1>3, <1>4, <1>5, <1>6, <1>7 DEF HelperInv

\* A run is through with collect: what it left is fine.
LEMMA MakeDirKeeps == ASSUME HelperState, NEW r \in Run, MakeDir(r) PROVE HelperInv'
  <1>1. /\ runner[r] = "collect"
        /\ entries[r] = {}
        /\ doomed[r] = 0
        /\ runner' = [runner EXCEPT ![r] = "log"]
        /\ files' = [files EXCEPT ![r[1]] = @ \cup {"dir"}]
        /\ UNCHANGED <<step, entries, doomed, supFile, pidFile, supervisor, begun, overIn>>
    BY DEF MakeDir, Goes, runFrame
  <1> USE <1>1, HelperStateFacts DEF PodType
  <1>2. RunInv'
    BY DEF RunInv, Starting
  <1>3. FilesInv'
    BY DEF FilesInv
  <1>4. OwnerInv'
    BY DEF OwnerInv, Owner
  <1>5. AliveInv'
    BY DEF AliveInv, LiveStates
  <1>6. EndedInv'
    <2>1. \A s \in Step : Live(s)' <=> Live(s)
      BY DEF Live
    <2>2. r[1] = step
      BY DEF RunInv, Starting
    <2> QED
      BY <2>1, <2>2 DEF EndedInv, FilesInv
  <1>7. CollectInv'
    <2>1. \A s \in Step : Fine(s)' <=> Fine(s)
      BY DEF Fine, Live
    <2>2. r[1] = step /\ \A s \in Step : s # step => files'[s] = files[s]
      BY DEF RunInv, Starting
    <2>3. \A s \in Step : s # step /\ "dir" \in files[s] => Fine(s)
      BY StepFacts DEF CollectInv
    <2> QED
      BY <2>1, <2>2, <2>3 DEF CollectInv
  <1> QED
    BY <1>2, <1>3, <1>4, <1>5, <1>6, <1>7 DEF HelperInv

\* The run that made the log starts the only supervisor of its step.
LEMMA SuperviseKeeps == ASSUME HelperState, NEW r \in Run, Supervise(r) PROVE HelperInv'
  <1>1. /\ runner[r] = "created"
        /\ runner' = [runner EXCEPT ![r] = "spawned"]
        /\ supervisor' = [supervisor EXCEPT ![r] = "boot"]
        /\ UNCHANGED <<step, entries, doomed, files, supFile, pidFile, begun, overIn>>
    BY DEF Supervise, Goes, runFrame
  <1> USE <1>1, HelperStateFacts DEF PodType
  <1>2. RunInv'
    BY DEF RunInv, Starting
  <1>3. FilesInv'
    BY DEF FilesInv
  <1>4. OwnerInv'
    BY DEF OwnerInv, Owner
  <1>5. AliveInv'
    <2>1. r[1] = step /\ "log" \in files[step]
      BY DEF RunInv, Starting, OwnerInv, Owner
    <2>2. \A q \in Run : doomed[q] # step
      BY <2>1 DEF RunInv, Starting
    <2> QED
      BY <2>1, <2>2 DEF AliveInv, LiveStates
  <1>6. EndedInv'
    <2>1. overIn[r[1]] = 0
      BY DEF OwnerInv
    <2>2. \A s \in Step : s # r[1] => (Live(s)' <=> Live(s))
      BY DEF Live
    <2> QED
      BY <2>1, <2>2 DEF EndedInv
  <1>7. CollectInv'
    BY DEF CollectInv, Fine, Live, LiveStates
  <1> QED
    BY <1>2, <1>3, <1>4, <1>5, <1>6, <1>7 DEF HelperInv

\* The pid file names the run that has the supervisor.
LEMMA WritePidKeeps == ASSUME HelperState, NEW r \in Run, WritePid(r) PROVE HelperInv'
  <1>1. /\ runner[r] = "recorded"
        /\ runner' = [runner EXCEPT ![r] = "following"]
        /\ UNCHANGED <<step, entries, doomed, files, supFile, supervisor, begun, overIn>>
    BY DEF WritePid, Goes, runFrame
  <1> USE <1>1, HelperStateFacts DEF PodType
  <1>2. RunInv'
    BY DEF RunInv, Starting
  <1>3. FilesInv'
    BY DEF FilesInv
  <1>4. OwnerInv'
    <2>1. supervisor[r] # "none" /\ runner'[r] = "following" /\ \A q \in Run : q # r => runner'[q] = runner[q]
      BY DEF OwnerInv
    <2>2. \A q \in Run : (Owner(q)' <=> Owner(q))
      BY <2>1 DEF Owner
    <2> QED
      BY <2>1, <2>2 DEF OwnerInv
  <1>5. AliveInv'
    BY DEF AliveInv, LiveStates
  <1>6. EndedInv'
    BY DEF EndedInv, Live, LiveStates
  <1>7. CollectInv'
    BY DEF CollectInv, Fine, Live, LiveStates
  <1> QED
    BY <1>2, <1>3, <1>4, <1>5, <1>6, <1>7 DEF HelperInv

\* A supervisor that leaves has written the done file.
LEMMA SupervisorLeavesKeeps == ASSUME HelperState, NEW r \in Run, SupervisorLeaves(r) PROVE HelperInv'
  <1>1. /\ supervisor[r] = "running"
        /\ "done" \in files[r[1]]
        /\ supervisor' = [supervisor EXCEPT ![r] = "gone"]
        /\ UNCHANGED <<step, runner, entries, doomed, files, supFile, pidFile, begun, overIn>>
    BY DEF SupervisorLeaves, Goes, runFrame
  <1> USE <1>1, HelperStateFacts DEF PodType
  <1>2. RunInv'
    BY DEF RunInv, Starting
  <1>3. FilesInv'
    BY DEF FilesInv
  <1>4. OwnerInv'
    BY DEF OwnerInv, Owner
  <1>5. AliveInv'
    BY DEF AliveInv, LiveStates
  <1>6. EndedInv'
    BY DEF EndedInv, Live, LiveStates
  <1>7. CollectInv'
    <2>1. overIn[r[1]] # 0
      BY DEF FilesInv
    <2>2. \A s \in Step : s # r[1] => (Live(s)' <=> Live(s))
      BY DEF Live
    <2>3. \A s \in Step : Fine(s) => Fine(s)'
      BY <2>1, <2>2 DEF Fine
    <2> QED
      BY <2>3 DEF CollectInv
  <1> QED
    BY <1>2, <1>3, <1>4, <1>5, <1>6, <1>7 DEF HelperInv

\* collect removes the directory it found over, never its own step's.
LEMMA RemoveDirKeeps == ASSUME HelperState, NEW r \in Run, RemoveDir(r) PROVE HelperInv'
  <1>1. /\ runner[r] = "collect"
        /\ doomed[r] # 0
        /\ files' = [files EXCEPT ![doomed[r]] = {}]
        /\ supFile' = [supFile EXCEPT ![doomed[r]] = 0]
        /\ doomed' = [doomed EXCEPT ![r] = 0]
        /\ UNCHANGED <<step, runner, entries, pidFile, supervisor, begun, overIn>>
    BY DEF RemoveDir, Goes, runFrame
  <1> USE <1>1, HelperStateFacts DEF PodType
  <1>8. /\ doomed[r] \in Step /\ doomed[r] # step /\ files'[doomed[r]] = {}
        /\ \A s \in Step : s # doomed[r] => files'[s] = files[s] /\ supFile'[s] = supFile[s]
    BY StepFacts DEF RunInv, Starting
  <1>2. RunInv'
    BY DEF RunInv, Starting
  <1>3. FilesInv'
    BY <1>8 DEF FilesInv
  <1>4. OwnerInv'
    BY <1>8 DEF OwnerInv, Owner
  <1>5. AliveInv'
    BY DEF AliveInv, LiveStates
  <1>6. EndedInv'
    BY DEF EndedInv, Live, LiveStates
  <1>7. CollectInv'
    BY DEF CollectInv, Fine, Live, LiveStates
  <1> QED
    BY <1>2, <1>3, <1>4, <1>5, <1>6, <1>7 DEF HelperInv

\* collect judges a directory: what it finds over is over, what it leaves is alive.
LEMMA JudgeDirKeeps == ASSUME HelperState, NEW r \in Run, JudgeDir(r) PROVE HelperInv'
  <1>1. PICK s \in entries[r] : /\ entries' = [entries EXCEPT ![r] = @ \ {s}]
                                /\ doomed' = [doomed EXCEPT ![r] = IF Over(s) THEN s ELSE 0]
    BY DEF JudgeDir
  <1>2. /\ runner[r] = "collect" /\ doomed[r] = 0
        /\ UNCHANGED <<step, runner, files, supFile, pidFile, supervisor, begun, overIn>>
    BY DEF JudgeDir, runFrame
  <1>3. s \in Step /\ r[1] = step /\ s # step /\ s # 0
    BY HelperStateFacts, StepFacts, <1>2 DEF RunInv, Starting, PodType
  <1>4. ASSUME Over(s), NEW q \in Run, q[1] = s, supervisor[q] \in LiveStates PROVE overIn[s] # 0
    <2>1. q = <<s, q[2]>> /\ q[2] # 0 /\ runner[q] # "spawned"
      BY <1>3, <1>4, HelperStateFacts DEF RunInv, Starting
    <2>2. ASSUME overIn[s] = 0 PROVE supFile[s] = q[2] /\ "done" \notin files[s]
      BY <1>3, <1>4, <2>1, <2>2, HelperStateFacts DEF AliveInv, FilesInv
    <2> QED
      BY <1>4, <2>1, <2>2 DEF Over, Alive, LiveStates
  <1>5. ASSUME ~Over(s), "dir" \in files[s] PROVE Fine(s)
    <2>1. supFile[s] # 0 /\ supervisor[<<s, supFile[s]>>] \in LiveStates /\ "done" \notin files[s]
      BY <1>5 DEF Over, Alive, LiveStates
    <2>2. <<s, supFile[s]>> \in Run /\ <<s, supFile[s]>>[1] = s
      BY <1>3, <2>1, HelperStateFacts, RunFacts DEF PodType
    <2>3. Live(s)
      BY <2>1, <2>2 DEF Live
    <2> QED
      BY <1>3, <1>5, <2>1, <2>3, HelperStateFacts DEF EndedInv, Fine
  <1> USE <1>1, <1>2, <1>3, HelperStateFacts DEF PodType
  <1>6. RunInv'
    BY DEF RunInv, Starting
  <1>7. FilesInv' /\ OwnerInv'
    BY DEF FilesInv, OwnerInv, Owner
  <1>8. AliveInv'
    BY <1>4 DEF AliveInv, LiveStates
  <1>9. EndedInv'
    BY DEF EndedInv, Live
  <1>10. CollectInv'
    <2>1. \A t \in Step : Fine(t)' <=> Fine(t)
      BY DEF Fine, Live
    <2>2. entries'[r] = entries[r] \ {s} /\ (Over(s) => doomed'[r] = s)
          /\ \A q \in Run : q # r => entries'[q] = entries[q] /\ doomed'[q] = doomed[q]
      OBVIOUS
    <2>3. \A t \in Step : t # step /\ "dir" \in files[t] => t \in entries'[r] \/ t = doomed'[r] \/ Fine(t)
      BY <1>5, <2>2, StepFacts DEF CollectInv
    <2> QED
      BY <2>1, <2>2, <2>3 DEF CollectInv
  <1> QED
    BY <1>6, <1>7, <1>8, <1>9, <1>10 DEF HelperInv

\* O_EXCL: the log is made by one run, the others follow.
LEMMA OpenLogKeeps == ASSUME HelperState, NEW r \in Run, OpenLog(r) PROVE HelperInv'
  <1>1. /\ runner[r] = "log"
        /\ UNCHANGED <<step, entries, doomed, supFile, pidFile, supervisor, begun, overIn>>
    BY DEF OpenLog, runFrame
  <1>2. r[1] = step /\ step \in Step
    BY <1>1, HelperStateFacts DEF RunInv, Starting
  <1>3. \A s \in Step : Fine(s)' <=> Fine(s)
    BY <1>1 DEF Fine, Live
  <1>4. \A s \in Step : s # step /\ "dir" \in files[s] => Fine(s)
    BY <1>1, HelperStateFacts DEF CollectInv
  <1> USE <1>1, <1>2, HelperStateFacts DEF PodType
  <1>5. CASE files' = files /\ runner' \in {[runner EXCEPT ![r] = "ended"], [runner EXCEPT ![r] = "following"]}
    <2>1. RunInv'
      BY <1>5 DEF RunInv, Starting
    <2>2. FilesInv' /\ EndedInv'
      BY <1>5 DEF FilesInv, EndedInv, Live
    <2>3. OwnerInv'
      BY <1>5 DEF OwnerInv, Owner
    <2>4. AliveInv'
      BY <1>5 DEF AliveInv
    <2>5. CollectInv'
      BY <1>3, <1>4, <1>5 DEF CollectInv
    <2> QED
      BY <2>1, <2>2, <2>3, <2>4, <2>5 DEF HelperInv
  <1>6. CASE /\ "dir" \in files[step] /\ "log" \notin files[step]
             /\ files' = [files EXCEPT ![step] = @ \cup {"log"}] /\ runner' = [runner EXCEPT ![r] = "created"]
    <2>1. RunInv'
      BY <1>6 DEF RunInv, Starting
    <2>2. FilesInv'
      BY <1>6 DEF FilesInv
    <2>3. \A q \in Run : q[1] = step => ~Owner(q)
      BY <1>6 DEF OwnerInv
    <2>4. begun[step] = 0 /\ overIn[step] = 0
      BY <1>6, StepFacts DEF FilesInv
    <2>5. OwnerInv'
      BY <1>6, <2>3, <2>4 DEF OwnerInv, Owner
    <2>6. AliveInv'
      BY <1>6 DEF AliveInv
    <2>7. EndedInv'
      BY <1>6, <2>4 DEF EndedInv, Live
    <2>8. CollectInv'
      BY <1>3, <1>4, <1>6 DEF CollectInv
    <2> QED
      BY <2>1, <2>2, <2>5, <2>6, <2>7, <2>8 DEF HelperInv
  <1> QED
    BY <1>5, <1>6 DEF OpenLog

\* The supervisor file names the run that has the supervisor.
LEMMA WriteSupervisorKeeps == ASSUME HelperState, NEW r \in Run, WriteSupervisor(r) PROVE HelperInv'
  <1>1. /\ runner[r] = "spawned"
        /\ UNCHANGED <<step, entries, doomed, files, pidFile, supervisor, begun, overIn>>
    BY DEF WriteSupervisor, Goes, runFrame
  <1>2. r[1] = step /\ step \in Step /\ "dir" \in files[step]
    BY <1>1, HelperStateFacts DEF RunInv, Starting, OwnerInv, Owner, FilesInv
  <1>3. runner' = [runner EXCEPT ![r] = "recorded"] /\ supFile' = [supFile EXCEPT ![r[1]] = r[2]]
    BY <1>2 DEF WriteSupervisor, Goes
  <1> USE <1>1, <1>2, <1>3, HelperStateFacts DEF PodType
  <1>4. RunInv'
    BY DEF RunInv, Starting
  <1>5. FilesInv' /\ EndedInv'
    BY DEF FilesInv, EndedInv, Live
  <1>6. OwnerInv'
    BY DEF OwnerInv, Owner
  <1>7. AliveInv'
    <2>1. \A q \in Run : q[1] = step /\ supervisor[q] \in LiveStates => q = r
      BY DEF OwnerInv, Owner, LiveStates
    <2> QED
      BY <2>1 DEF AliveInv
  <1>8. CollectInv'
    BY DEF CollectInv, Fine, Live
  <1> QED
    BY <1>4, <1>5, <1>6, <1>7, <1>8 DEF HelperInv

\* The supervisor finds its log and starts the command, for the first time.
LEMMA SupervisorStartsKeeps == ASSUME HelperState, NEW r \in Run, SupervisorStarts(r) PROVE HelperInv'
  <1>1. /\ supervisor[r] = "boot" /\ UNCHANGED <<step, runner, entries, doomed, supFile, pidFile>>
    BY DEF SupervisorStarts, runFrame
  <1>2. "log" \in files[r[1]] /\ begun[r[1]] = 0 /\ overIn[r[1]] = 0
    BY <1>1, HelperStateFacts DEF OwnerInv, AliveInv, LiveStates
  <1>3. /\ supervisor' = [supervisor EXCEPT ![r] = "running"] /\ UNCHANGED <<files, overIn>>
        /\ begun' = [begun EXCEPT ![r[1]] = @ + 1]
    BY <1>2 DEF SupervisorStarts
  <1>4. \A q \in Run : q[1] = r[1] /\ Owner(q) => q = r
    BY <1>1, HelperStateFacts DEF OwnerInv, Owner
  <1>5. \A s \in Step : Live(s)' <=> Live(s)
    BY <1>1, <1>3, HelperStateFacts DEF Live, LiveStates, PodType
  <1> USE <1>1, <1>2, <1>3, HelperStateFacts DEF PodType
  <1>6. RunInv'
    BY DEF RunInv
  <1>7. FilesInv'
    BY DEF FilesInv
  <1>8. OwnerInv'
    <2>1. begun'[r[1]] = 1 /\ \A s \in Step : s # r[1] => begun'[s] = begun[s]
      OBVIOUS
    <2>2. \A q \in Run : Owner(q)' <=> Owner(q)
      BY DEF Owner
    <2> QED
      BY <1>4, <2>1, <2>2 DEF OwnerInv, Owner
  <1>9. AliveInv'
    BY DEF AliveInv, LiveStates
  <1>10. EndedInv' /\ CollectInv'
    BY <1>5 DEF EndedInv, CollectInv, Fine
  <1> QED
    BY <1>6, <1>7, <1>8, <1>9, <1>10 DEF HelperInv

\* A command that ends leaves the done file, where there is a directory for it.
LEMMA CommandEndsKeeps == ASSUME HelperState, NEW r \in Run, CommandEnds(r) PROVE HelperInv'
  <1>1. /\ supervisor[r] = "running" /\ UNCHANGED <<step, runner, entries, doomed, supFile, pidFile, begun>>
        /\ overIn' = [overIn EXCEPT ![r[1]] = IF @ = 0 THEN step ELSE @]
    BY DEF CommandEnds, runFrame, HelperState
  <1>2. /\ supervisor'[r] \in {"running", "gone"}
        /\ \A q \in Run : q # r => supervisor'[q] = supervisor[q]
    BY <1>1, HelperStateFacts DEF CommandEnds, PodType
  <1>3. /\ files'[r[1]] = IF "dir" \in files[r[1]] THEN files[r[1]] \cup {"done"} ELSE files[r[1]]
        /\ \A s \in Step : s # r[1] => files'[s] = files[s]
    BY HelperStateFacts DEF CommandEnds, PodType
  <1>4. step \in Step
    <2>1. ~(r[1] > step)
      BY <1>1 DEF HelperState, ExecInv
    <2> QED
      BY <2>1, HelperStateFacts, RunFacts, StepFacts
  <1>5. /\ overIn'[r[1]] = IF overIn[r[1]] = 0 THEN step ELSE overIn[r[1]]
        /\ overIn'[r[1]] # 0
        /\ \A s \in Step : s # r[1] => overIn'[s] = overIn[s]
    BY <1>1, <1>4, HelperStateFacts, StepFacts DEF PodType
  <1>6. \A q \in Run : q[1] = r[1] /\ Owner(q) => q = r
    BY <1>1, HelperStateFacts DEF OwnerInv, Owner
  <1>7. \A s \in Step : s # r[1] => (Live(s)' <=> Live(s))
    BY <1>2 DEF Live
  <1>8. Owner(r) /\ \A q \in Run : Owner(q)' <=> Owner(q)
    BY <1>1, <1>2 DEF Owner
  <1> USE <1>1, <1>2, <1>3, <1>4, <1>5, HelperStateFacts
  <1>9. RunInv'
    BY DEF RunInv
  <1>10. FilesInv'
    BY <1>8 DEF FilesInv, OwnerInv
  <1>11. OwnerInv'
    <2>1. \A q \in Run : supervisor'[q] = "none" <=> supervisor[q] = "none"
      OBVIOUS
    <2>3. \A q \in Run : q[1] = r[1] => runner[q] # "created" /\ supervisor'[q] # "boot"
      BY <1>6, <1>8 DEF OwnerInv, Owner
    <2>4. \A q \in Run : /\ Owner(q) /\ q[1] = step => "log" \in files'[q[1]]
                         /\ supervisor'[q] = "boot" => supervisor[q] = "boot"
      BY DEF OwnerInv
    <2> QED
      BY <1>8, <2>1, <2>3, <2>4 DEF OwnerInv
  <1>12. AliveInv'
    BY DEF AliveInv, LiveStates
  <1>13. EndedInv'
    BY <1>7 DEF EndedInv
  <1>14. CollectInv'
    <2>1. \A s \in Step : Fine(s) => Fine(s)'
      BY <1>7 DEF Fine
    <2> QED
      BY <2>1 DEF CollectInv
  <1> QED
    BY <1>9, <1>10, <1>11, <1>12, <1>13, <1>14 DEF HelperInv

\* The next Exec begins when no `run` of the last one is at work.
LEMMA NextStepKeeps == ASSUME HelperState, NextStep PROVE HelperInv'
  <1>1. /\ \A r \in Run : runner[r] \notin Starting
        /\ step' = step + 1 /\ step + 1 \in Step
        /\ UNCHANGED <<runner, entries, doomed, files, supFile, pidFile, supervisor, begun, overIn>>
    BY StepFacts DEF NextStep, execFrame, HelperState, ServerType, Step
  <1>2. /\ files[step + 1] = {} /\ begun[step + 1] = 0 /\ overIn[step + 1] = 0
        /\ \A r \in Run : r[1] = step + 1 => runner[r] = "none" /\ supervisor[r] = "none"
    <2>1. step + 1 > step
      BY HelperStateFacts
    <2> QED
      BY <1>1, <2>1 DEF HelperState, ExecInv
  <1> USE <1>1, <1>2, HelperStateFacts
  <1>3. RunInv'
    BY DEF RunInv
  <1>4. FilesInv'
    BY DEF FilesInv
  <1>5. OwnerInv'
    BY DEF OwnerInv, Owner
  <1>6. AliveInv' /\ EndedInv'
    BY DEF AliveInv, EndedInv, Live
  <1>7. CollectInv'
    BY DEF CollectInv, Starting
  <1> QED
    BY <1>3, <1>4, <1>5, <1>6, <1>7 DEF HelperInv

\* A `run` begins with nothing.
LEMMA ConnectKeeps == ASSUME HelperState, Connect PROVE HelperInv'
  <1>1. PICK c \in Run : /\ c[1] = step /\ runner[c] = "none" /\ supervisor[c] = "none"
                         /\ runner' = [runner EXCEPT ![c] = "run"]
    <2>1. /\ step \in Step /\ tries + 1 \in 1 .. Tries /\ tries \in Nat
          /\ runner' = [runner EXCEPT ![<<step, tries + 1>>] = "run"]
      BY StepFacts DEF Connect, HelperState, ServerType, ExecInv
    <2>2. <<step, tries + 1>> \in Run /\ <<step, tries + 1>>[1] = step /\ <<step, tries + 1>>[2] = tries + 1
      BY <2>1, RunFacts
    <2>3. tries + 1 > tries
      BY <2>1
    <2>4. runner[<<step, tries + 1>>] = "none" /\ supervisor[<<step, tries + 1>>] = "none"
      BY <2>2, <2>3 DEF HelperState, ExecInv
    <2> QED
      BY <2>1, <2>2, <2>4
  <1>2. UNCHANGED <<step, entries, doomed, files, supFile, pidFile, supervisor, begun, overIn>>
    BY DEF Connect, execFrame
  <1> USE <1>1, <1>2, HelperStateFacts DEF PodType
  <1>3. RunInv'
    BY DEF RunInv, Starting
  <1>4. FilesInv' /\ EndedInv'
    BY DEF FilesInv, EndedInv, Live
  <1>5. OwnerInv'
    BY DEF OwnerInv, Owner
  <1>6. AliveInv'
    BY DEF AliveInv, LiveStates
  <1>7. CollectInv'
    <2>1. \A s \in Step : Fine(s)' <=> Fine(s)
      BY DEF Fine, Live
    <2> QED
      BY <2>1 DEF CollectInv
  <1> QED
    BY <1>3, <1>4, <1>5, <1>6, <1>7 DEF HelperInv

\* Steps of the server alone change nothing the invariant is about.
LEMMA QuietKeeps ==
    ASSUME HelperState,
           UNCHANGED <<step, runner, entries, doomed, files, supFile, pidFile, supervisor, begun, overIn>>
    PROVE  HelperInv'
  BY HelperStateFacts DEF HelperInv, RunInv, FilesInv, OwnerInv, Owner, AliveInv, EndedInv, CollectInv, Fine, Live

\* Kill ends supervisors, whosever they are.
LEMMA KillStepKeeps == ASSUME HelperState, KillStep PROVE HelperInv'
  <1>0. step \in Step
    BY StepFacts DEF HelperState, ExecInv, KillStep, ServerType
  <1>1. \A q \in Run : Hit(q) => supervisor[q] \in LiveStates
    BY HelperStateFacts DEF Hit, Lives, LiveStates, Shell, RunInv, Starting
  <1>2. \A q \in Run : runner'[q] = runner[q]
    BY KillFacts, HelperStateFacts DEF Shell, RunInv, Starting
  <1>3. \A q \in Run : supervisor'[q] = IF Hit(q) THEN "gone" ELSE supervisor[q]
    BY <1>1, KillFacts, HelperStateFacts DEF LiveStates
  <1>4. UNCHANGED <<step, entries, doomed, files, supFile, begun>>
    BY KillFacts, HelperStateFacts
  <1>5. \A s \in Step : \/ overIn'[s] = overIn[s] /\ (overIn[s] = 0 => \A q \in Run : q[1] = s => ~Hit(q))
                        \/ overIn[s] = 0 /\ overIn'[s] = step /\ (\E q \in Run : Hit(q) /\ q[1] = s)
    BY KillFacts, HelperStateFacts
  <1>6. \A q \in Run : Hit(q) => Owner(q)
    BY <1>1 DEF Owner, LiveStates
  <1>7. \A q \in Run : Owner(q)' <=> Owner(q)
    BY <1>1, <1>2, <1>3 DEF Owner, LiveStates
  <1>8. \A s \in Step : Live(s)' => Live(s)
    BY <1>3 DEF Live, LiveStates
  <1> USE <1>0, <1>4, HelperStateFacts
  <1>9. RunInv'
    BY <1>2 DEF RunInv
  <1>10. FilesInv'
    <2>1. \A s \in Step : overIn[s] # 0 => overIn'[s] # 0
      BY <1>5
    <2>2. overIn'[step] # 0 => overIn[step] # 0 \/ "log" \in files[step]
      BY <1>5, <1>6 DEF OwnerInv
    <2> QED
      BY <2>1, <2>2 DEF FilesInv
  <1>11. OwnerInv'
    <2>1. ASSUME NEW q \in Run, supervisor[q] = "none" \/ supervisor'[q] = "boot", Owner(q), overIn[q[1]] = 0
          PROVE  overIn'[q[1]] = 0
      <3>1. ASSUME NEW k \in Run, Hit(k), k[1] = q[1] PROVE FALSE
        BY <1>1, <1>3, <1>6, <2>1, <3>1 DEF OwnerInv, LiveStates
      <3> QED
        BY <1>5, <2>1, <3>1
    <2>2. \A q \in Run : /\ supervisor'[q] = "none" <=> supervisor[q] = "none"
                         /\ supervisor'[q] = "boot" => supervisor[q] = "boot"
      BY <1>1, <1>3 DEF LiveStates
    <2>3. \A q \in Run : runner[q] = "created" \/ supervisor[q] = "boot" => Owner(q)
      BY DEF Owner
    <2> QED
      BY <1>2, <1>7, <2>1, <2>2, <2>3 DEF OwnerInv
  <1>12. AliveInv'
    <2>1. \A q \in Run : supervisor'[q] \in LiveStates => supervisor[q] \in LiveStates
      BY <1>3 DEF LiveStates
    <2>2. \A s \in Step : overIn'[s] = 0 => overIn[s] = 0
      BY <1>5
    <2> QED
      BY <1>2, <2>1, <2>2 DEF AliveInv
  <1>13. EndedInv'
    <2>1. ASSUME NEW s \in Step, NEW k \in Run, Hit(k), k[1] = s PROVE ~Live(s)'
      <3>1. \A q \in Run : q[1] = s /\ supervisor[q] \in LiveStates => q = k
        BY <1>6, <2>1 DEF OwnerInv, Owner, LiveStates
      <3> QED
        BY <1>3, <2>1, <3>1 DEF Live, LiveStates
    <2> QED
      BY <1>5, <1>8, <2>1 DEF EndedInv
  <1>14. CollectInv'
    <2>1. ASSUME NEW s \in Step, Fine(s) PROVE Fine(s)'
      <3>1. CASE overIn'[s] = step
        BY <3>1 DEF Fine
      <3>2. CASE overIn'[s] # step
        <4>1. overIn'[s] = overIn[s] /\ overIn[s] = 0 /\ Live(s) /\ \A q \in Run : q[1] = s => ~Hit(q)
          BY <1>5, <2>1, <3>2 DEF Fine
        <4>2. Live(s)'
          BY <1>3, <4>1 DEF Live
        <4> QED
          BY <4>1, <4>2 DEF Fine
      <3> QED
        BY <3>1, <3>2
    <2> QED
      BY <1>2, <2>1 DEF CollectInv
  <1> QED
    BY <1>9, <1>10, <1>11, <1>12, <1>13, <1>14 DEF HelperInv

\* Every step keeps HelperInv.
LEMMA HelperInductive == ASSUME HelperState, DirsNext PROVE HelperInv'
  <1>1. CASE StreamBroke \/ StreamEnds \/ CancelStep \/ KillLost
    BY <1>1, QuietKeeps DEF StreamBroke, StreamEnds, CancelStep, KillLost, execFrame
  <1>2. ASSUME NEW r \in Run PROVE ~WrapRecords(r) /\ ~WrapExecs(r) /\ ~WrapFails(r)
    BY HelperStateFacts DEF RunInv, Starting, WrapRecords, WrapExecs, WrapFails, Goes
  <1>3. ASSUME NEW r \in Run, PodStep(r) PROVE HelperInv'
    BY <1>2, <1>3, ReadDirKeeps, JudgeDirKeeps, RemoveDirKeeps, MakeDirKeeps, OpenLogKeeps, SuperviseKeeps,
       WriteSupervisorKeeps, WritePidKeeps, SupervisorStartsKeeps, CommandEndsKeeps, SupervisorLeavesKeeps
       DEF PodStep, RunStep
  <1> QED
    BY <1>1, <1>3, NextStepKeeps, ConnectKeeps, KillStepKeeps DEF DirsNext, Exec, PodStep

\* The environment begins with the invariant, in use or idle.
LEMMA DirsStarts ==
    ASSUME helper \in BOOLEAN, exec \in {"idle", "off"}, DirsStart
    PROVE  DirsTypeOK /\ ExecInv /\ PidInv /\ HelperInv /\ WrapInv
  <1> USE DEF DirsStart
  <1>1. DirsFlagType
    BY Zenon DEF DirsFlagType
  <1>2. ServerType
    BY DEF ServerType
  <1>3. PodType
    BY StepFacts DEF PodType
  <1>4. ExecInv
    BY DEF ExecInv
  <1>5. /\ \A r \in Run : /\ runner[r] = "none" /\ entries[r] = {} /\ doomed[r] = 0 /\ supervisor[r] = "none"
                          /\ r[1] # 0 /\ r[1] \in Step
        /\ \A s \in Step : files[s] = {} /\ begun[s] = 0 /\ overIn[s] = 0 /\ pidFile[s] = 0
        /\ step = 0
    BY RunFacts, StepFacts
  <1>6. WrapInv
    BY <1>5 DEF WrapInv
  <1>7. RunInv /\ FilesInv /\ OwnerInv
    BY <1>5 DEF RunInv, FilesInv, OwnerInv, Owner, Starting
  <1>8. AliveInv /\ EndedInv /\ CollectInv
    BY <1>5 DEF AliveInv, EndedInv, CollectInv, LiveStates
  <1>9. PidInv
    BY <1>5 DEF PidInv
  <1> QED
    BY <1>1, <1>2, <1>3, <1>4, <1>6, <1>7, <1>8, <1>9, TypeParts DEF HelperInv

\* Every step keeps the types and ExecInv.
LEMMA BaseInductive == ASSUME DirsTypeOK, ExecInv, [DirsNext]_dirsVars PROVE DirsTypeOK' /\ ExecInv'
  <1>0. DirsFlagType /\ ServerType /\ PodType
    BY TypeParts
  <1>1. CASE Exec
    BY <1>0, <1>1, ExecType, ExecExec, TypePartsPrimed
  <1>2. ASSUME NEW r \in Run, PodStep(r) PROVE DirsTypeOK' /\ ExecInv'
    <2>1. DirsFlagType' /\ ServerType'
      <3>1. UNCHANGED <<helper, step, exec, tries, stopped>>
        BY <1>2, PodFrame
      <3>2. DirsFlagType'
        BY <1>0, <3>1, Zenon DEF DirsFlagType
      <3> QED
        BY <1>0, <3>1, <3>2 DEF ServerType
    <2> QED
      BY <1>0, <1>2, <2>1, PodTypeStays, PodExec, TypePartsPrimed
  <1>3. CASE UNCHANGED dirsVars
    <2> USE <1>0, <1>3 DEF dirsVars
    <2>1. DirsFlagType'
      BY Zenon DEF DirsFlagType
    <2>2. ServerType' /\ PodType'
      BY DEF ServerType, PodType
    <2>3. ExecInv'
      BY DEF ExecInv
    <2> QED
      BY <2>1, <2>2, <2>3, TypePartsPrimed
  <1> QED
    BY <1>1, <1>2, <1>3 DEF DirsNext, PodStep

\* The server's and the pod's records of the steps keep their types, also when a
\* `run` outlives its step.
THEOREM DirsTypeCorrect == DirsSpec => []DirsTypeOK
  <1>1. DirsInit => DirsTypeOK /\ ExecInv
    BY DirsStarts DEF DirsInit
  <1>2. DirsTypeOK /\ ExecInv /\ [DirsNext]_dirsVars => DirsTypeOK' /\ ExecInv'
    BY BaseInductive
  <1> QED
    BY <1>1, <1>2, PTL DEF DirsSpec

\* Processes that end, and pid files that are removed, leave PidInv as it is.
LEMMA PidQuiet ==
    ASSUME PodType, PidInv, UNCHANGED <<step, pid>>,
           \A q \in Run : (Lives(q)' => Lives(q)) /\ (Unstarted(q)' => Unstarted(q)),
           \A s \in Step : pidFile'[s] \in {0, pidFile[s]},
           step > 0 => step \in Step
    PROVE  PidInv'
  <1>1. \A r \in Run : Unstarted(r)' => pid'[r] = 0
    BY DEF PidInv
  <1>2. \A q, r \in Run : Lives(q)' /\ r[1] = step' /\ pid'[r] # 0 /\ pid'[q] = pid'[r] => q[1] = step'
    BY DEF PidInv
  <1>3. \A s \in Step : s > step' => pidFile'[s] = 0
    BY DEF PidInv
  <1>4. step' > 0 /\ pidFile'[step'] # 0 => \E r \in Run : r[1] = step' /\ pid'[r] = pidFile'[step']
    BY DEF PidInv
  <1> QED
    BY <1>1, <1>2, <1>3, <1>4 DEF PidInv

\* A process of the latest step takes a number no process has.
LEMMA PidBorn ==
    ASSUME PodType, PidInv, UNCHANGED <<step, pidFile>>,
           NEW r \in Run, r[1] = step, Unstarted(r), Numbered(r), ~Unstarted(r)',
           \A q \in Run : q # r => (Lives(q)' => Lives(q)) /\ (Unstarted(q)' => Unstarted(q))
    PROVE  PidInv'
  <1>1. PICK n \in 1 .. MaxPid : (\A q \in Run : Lives(q) => pid[q] # n) /\ pid' = [pid EXCEPT ![r] = n]
    BY DEF Numbered
  <1>2. pid[r] = 0 /\ pid'[r] = n /\ \A q \in Run : q # r => pid'[q] = pid[q]
    BY <1>1 DEF PidInv, PodType
  <1>3. \A q \in Run : Unstarted(q)' => pid'[q] = 0
    BY <1>2 DEF PidInv
  <1>4. ASSUME NEW q \in Run, NEW k \in Run, Lives(q)', k[1] = step, pid'[k] # 0, pid'[q] = pid'[k]
        PROVE  q[1] = step
    <2>1. CASE q = r
      BY <2>1
    <2>2. CASE q # r /\ k = r
      BY <1>1, <1>2, <1>4, <2>2
    <2>3. CASE q # r /\ k # r
      BY <1>2, <1>4, <2>3 DEF PidInv
    <2> QED
      BY <2>1, <2>2, <2>3
  <1>5. ASSUME step > 0, pidFile[step] # 0 PROVE \E k \in Run : k[1] = step /\ pid'[k] = pidFile[step]
    BY <1>2, <1>5 DEF PidInv
  <1>6. \A s \in Step : s > step => pidFile[s] = 0
    BY DEF PidInv
  <1> QED
    BY <1>3, <1>4, <1>5, <1>6 DEF PidInv

\* A process writes its number into the pid file of its step.
LEMMA PidRecorded ==
    ASSUME PodType, PidInv, UNCHANGED <<step, pid>>,
           NEW r \in Run, r[1] \in Step, ~(r[1] > step), pidFile' = [pidFile EXCEPT ![r[1]] = pid[r]],
           \A q \in Run : (Lives(q)' => Lives(q)) /\ (Unstarted(q)' => Unstarted(q))
    PROVE  PidInv'
  <1>1. pidFile'[r[1]] = pid[r] /\ \A s \in Step : s # r[1] => pidFile'[s] = pidFile[s]
    BY DEF PodType
  <1>2. \A q \in Run : Unstarted(q)' => pid'[q] = 0
    BY DEF PidInv
  <1>3. \A q, k \in Run : Lives(q)' /\ k[1] = step' /\ pid'[k] # 0 /\ pid'[q] = pid'[k] => q[1] = step'
    BY DEF PidInv
  <1>4. \A s \in Step : s > step' => pidFile'[s] = 0
    BY <1>1 DEF PidInv
  <1>5. step' > 0 /\ pidFile'[step'] # 0 => \E k \in Run : k[1] = step' /\ pid'[k] = pidFile'[step']
    <2>1. CASE r[1] = step
      BY <1>1, <2>1
    <2>2. CASE r[1] # step
      <3>1. pidFile' = [pidFile EXCEPT ![r[1]] = pid[r]] => pidFile'[step] = pidFile[step]
        BY <2>2 DEF PodType
      <3> QED
        BY <3>1 DEF PidInv
    <2> QED
      BY <2>1, <2>2
  <1> QED
    BY <1>2, <1>3, <1>4, <1>5 DEF PidInv

\* Every step of Exec keeps PidInv.
LEMMA ExecPid == ASSUME ~LateRuns, DirsInv, Exec PROVE PidInv'
  <1>0. PodType /\ ServerType /\ ExecInv /\ PidInv /\ (step > 0 => step \in Step)
    BY TypeParts, StepFacts DEF DirsInv, ServerType
  <1>1. CASE StreamBroke \/ StreamEnds \/ CancelStep \/ KillLost
    <2>1. UNCHANGED <<step, runner, supervisor, pid, pidFile>>
      BY <1>1 DEF StreamBroke, StreamEnds, CancelStep, KillLost
    <2> QED
      BY <1>0, <2>1, PidQuiet DEF Lives, Unstarted
  <1>2. CASE NextStep
    <2>1. /\ UNCHANGED <<runner, supervisor, pid, pidFile>> /\ step' = step + 1 /\ step + 1 \in Step
          /\ step \in Nat /\ step + 1 > step
      BY <1>0, <1>2 DEF NextStep, ServerType, Step
    <2>2. pidFile[step + 1] = 0 /\ \A r \in Run : r[1] = step + 1 => pid[r] = 0
      BY <1>0, <2>1 DEF PidInv, ExecInv, Unstarted, Shell
    <2>3. \A s \in Step : s > step + 1 => pidFile[s] = 0
      BY <1>0, <2>1, StepFacts DEF PidInv
    <2>4. \A r \in Run : Unstarted(r)' => pid'[r] = 0
      BY <1>0, <2>1 DEF PidInv, Unstarted
    <2> QED
      BY <2>1, <2>2, <2>3, <2>4 DEF PidInv
  <1>3. CASE Connect
    <2>1. PICK c \in Run : /\ c = <<step, tries + 1>> /\ c[1] = step /\ runner[c] = "none" /\ supervisor[c] = "none"
      <3>1. step \in Step /\ tries + 1 \in 1 .. Tries /\ tries + 1 > tries
        BY <1>0, <1>3, StepFacts DEF Connect, ServerType, ExecInv
      <3>2. <<step, tries + 1>> \in Run /\ <<step, tries + 1>>[1] = step /\ <<step, tries + 1>>[2] = tries + 1
        BY <3>1, RunFacts
      <3> QED
        BY <1>0, <3>1, <3>2 DEF ExecInv
    <2>2. /\ runner' = [runner EXCEPT ![c] = IF helper THEN "run" ELSE "shell"]
          /\ IF helper THEN UNCHANGED pid ELSE Numbered(c)
          /\ UNCHANGED <<step, supervisor, pidFile>>
      BY <1>3, <2>1 DEF Connect
    <2>3. /\ runner'[c] = (IF helper THEN "run" ELSE "shell")
          /\ \A q \in Run : q # c => runner'[q] = runner[q] /\ supervisor'[q] = supervisor[q]
      BY <1>0, <2>2 DEF PodType
    <2>4. Unstarted(c)
      BY <2>1 DEF Unstarted, Shell
    <2>5. \A q \in Run : q # c => (Lives(q)' => Lives(q)) /\ (Unstarted(q)' => Unstarted(q))
      BY <2>3 DEF Lives, Unstarted
    <2>6. CASE helper
      <3>1. Lives(c)' => Lives(c)
        BY <2>1, <2>2, <2>3, <2>6 DEF Lives, Shell
      <3> QED
        BY <1>0, <2>2, <2>4, <2>5, <2>6, <3>1, PidQuiet
    <2>7. CASE ~helper
      <3>1. ~Unstarted(c)'
        BY <2>3, <2>7 DEF Unstarted, Shell
      <3> QED
        BY <1>0, <2>1, <2>2, <2>4, <2>5, <2>7, <3>1, PidBorn
    <2> QED
      BY <2>6, <2>7
  <1>4. CASE KillStep
    <2>1. UNCHANGED <<step, pid>> /\ \A s \in Step : pidFile'[s] \in {0, pidFile[s]}
      BY <1>0, <1>4, KillFacts DEF PodType
    <2>2. \A q \in Run : (Lives(q)' => Lives(q)) /\ (Unstarted(q)' => Unstarted(q))
      BY <1>0, <1>4, KillFacts DEF Lives, Unstarted, Shell
    <2> QED
      BY <1>0, <2>1, <2>2, PidQuiet
  <1> QED
    BY <1>1, <1>2, <1>3, <1>4 DEF Exec

\* So does every step in the pod: only the latest step starts processes.
LEMMA PodPid == ASSUME ~LateRuns, DirsInv, NEW r \in Run, PodStep(r) PROVE PidInv'
  <1>0. PodType /\ ServerType /\ ExecInv /\ PidInv /\ (step > 0 => step \in Step)
    BY TypeParts, StepFacts DEF DirsInv, ServerType
  <1>1. r[1] \in Step /\ ~(r[1] > step) /\ step' = step
    BY <1>0, PodLocal, PodFrame, RunFacts DEF ExecInv
  <1>2. ASSUME UNCHANGED <<pid, pidFile>>, (Lives(r)' => Lives(r)) /\ (Unstarted(r)' => Unstarted(r)) PROVE PidInv'
    <2>1. \A q \in Run : (Lives(q)' => Lives(q)) /\ (Unstarted(q)' => Unstarted(q))
      BY <1>0, <1>2, PodLocal DEF Lives, Unstarted
    <2> QED
      BY <1>0, <1>1, <1>2, <2>1, PidQuiet
  <1>3. CASE ReadDir(r) \/ MakeDir(r) \/ JudgeDir(r) \/ RemoveDir(r) \/ OpenLog(r) \/ WriteSupervisor(r)
    <2>1. UNCHANGED <<pid, pidFile, supervisor>> /\ runner[r] \in Starting
          /\ runner'[r] \in Starting \cup {"following", "ended"}
      BY <1>0, <1>3 DEF ReadDir, MakeDir, JudgeDir, RemoveDir, OpenLog, WriteSupervisor, Goes, Starting, PodType
    <2>2. (Lives(r)' => Lives(r)) /\ (Unstarted(r)' => Unstarted(r))
      BY <2>1 DEF Lives, Unstarted, Shell, Starting
    <2> QED
      BY <1>2, <2>1, <2>2
  <1>4. CASE Supervise(r)
    <2>1. /\ runner[r] = "created" /\ runner' = [runner EXCEPT ![r] = "spawned"]
          /\ supervisor' = [supervisor EXCEPT ![r] = "boot"]
          /\ Numbered(r) /\ UNCHANGED pidFile
      BY <1>4 DEF Supervise, Goes
    <2>2. r[1] = step /\ supervisor[r] = "none"
      BY <2>1 DEF DirsInv, HelperInv, RunInv, OwnerInv, WrapInv, Starting
    <2>3. Unstarted(r) /\ ~Unstarted(r)'
      BY <1>0, <2>1, <2>2 DEF Unstarted, Shell, PodType
    <2>4. \A q \in Run : q # r => (Lives(q)' => Lives(q)) /\ (Unstarted(q)' => Unstarted(q))
      BY <1>0, PodLocal DEF Lives, Unstarted
    <2> QED
      BY <1>0, <1>1, <2>1, <2>2, <2>3, <2>4, PidBorn
  <1>5. CASE WritePid(r) \/ WrapRecords(r)
    <2>1. /\ \/ runner[r] = "recorded" /\ runner'[r] = "following"
             \/ runner[r] = "shell" /\ runner'[r] = "named"
          /\ UNCHANGED <<pid, supervisor>> /\ pidFile' = [pidFile EXCEPT ![r[1]] = pid[r]]
      BY <1>0, <1>5 DEF WritePid, WrapRecords, Goes, PidFileOf, PodType
    <2>2. \A q \in Run : (Lives(q)' => Lives(q)) /\ (Unstarted(q)' => Unstarted(q))
      BY <1>0, <2>1, PodLocal DEF Lives, Unstarted, Shell
    <2> QED
      BY <1>0, <1>1, <2>1, <2>2, PidRecorded
  <1>6. CASE SupervisorStarts(r) \/ SupervisorLeaves(r)
    <2>1. /\ supervisor[r] \in {"boot", "running"} /\ supervisor'[r] \in {"running", "gone"}
          /\ UNCHANGED <<pid, pidFile, runner>>
      BY <1>0, <1>6 DEF SupervisorStarts, SupervisorLeaves, PodType
    <2> QED
      BY <1>2, <2>1 DEF Lives, Unstarted
  <1>7. CASE CommandEnds(r)
    <2>1. /\ supervisor[r] = "running" /\ supervisor'[r] \in {"running", "gone"} /\ UNCHANGED <<pid, pidFile>>
      BY <1>0, <1>7 DEF CommandEnds, PodType
    <2> QED
      BY <1>2, <2>1 DEF Lives, Unstarted
  <1>8. CASE WrapExecs(r) \/ WrapFails(r)
    <2>1. runner[r] = "named" /\ runner'[r] \in {"command", "ended"} /\ UNCHANGED <<pid, pidFile>>
      BY <1>0, <1>8 DEF WrapExecs, WrapFails, Goes, PodType
    <2> QED
      BY <1>2, <2>1 DEF Lives, Unstarted, Shell
  <1> QED
    BY <1>3, <1>4, <1>5, <1>6, <1>7, <1>8 DEF PodStep, RunStep

\* As long as no `run` outlives its step, every step keeps the invariant.
LEMMA DirsStep == ASSUME ~LateRuns, DirsInv, [DirsNext]_dirsVars PROVE DirsInv'
  <1>1. DirsTypeOK' /\ ExecInv'
    BY BaseInductive DEF DirsInv
  <1>5. PidInv'
    <2>1. CASE UNCHANGED dirsVars
      BY <2>1 DEF DirsInv, PidInv, Lives, Unstarted, dirsVars
    <2> QED
      BY <2>1, ExecPid, PodPid DEF DirsNext, PodStep
  <1>2. helper' = helper
    BY PodFrame DEF DirsNext, PodStep, dirsVars, Exec, NextStep, Connect, StreamBroke, StreamEnds,
       CancelStep, KillStep, KillLost, execFrame
  <1>3. CASE helper
    <2>1. HelperState
      BY <1>3, TypeParts DEF DirsInv, HelperState
    <2>2. HelperInv'
      <3>1. CASE DirsNext
        BY <2>1, <3>1, HelperInductive
      <3>2. CASE UNCHANGED dirsVars
        BY <2>1, <3>2, QuietKeeps DEF dirsVars
      <3> QED
        BY <3>1, <3>2
    <2> QED
      BY <1>1, <1>2, <1>3, <1>5, <2>2 DEF DirsInv
  <1>4. CASE ~helper
    <2>1. WrapInv'
      <3>1. CASE DirsNext
        BY <1>4, <3>1, WrapInductive, TypeParts DEF DirsInv
      <3>2. CASE UNCHANGED dirsVars
        BY <1>4, <3>2 DEF DirsInv, WrapInv, dirsVars
      <3> QED
        BY <3>1, <3>2
    <2> QED
      BY <1>1, <1>2, <1>4, <1>5, <2>1 DEF DirsInv
  <1> QED
    BY <1>3, <1>4

\* What the invariant says of a step's command and of collect.
LEMMA DirsInvSays == ASSUME DirsInv PROVE RunsOnce /\ LiveKept /\ OldCollected
  <1>1. CASE helper
    <2>1. RunsOnce
      BY <1>1 DEF DirsInv, HelperInv, OwnerInv, RunsOnce
    <2>2. LiveKept
      BY <1>1 DEF DirsInv, HelperInv, AliveInv, LiveStates, LiveKept
    <2>3. OldCollected
      BY <1>1 DEF DirsInv, HelperInv, CollectInv, Fine, Live, LiveStates, OldCollected
    <2> QED
      BY <2>1, <2>2, <2>3
  <1>2. CASE ~helper
    <2>1. \A s \in Step : begun[s] = 0 \/ begun[s] = 1
      BY <1>2 DEF DirsInv, WrapInv
    <2>2. RunsOnce
      BY <2>1 DEF RunsOnce
    <2> QED
      BY <1>2, <2>2 DEF LiveKept, OldCollected
  <1> QED
    BY <1>1, <1>2

\* As long as no `run` outlives its step, the environment is in a state of the
\* invariant, with a helper and without one.
THEOREM DirsInvariance ==
    ASSUME ~LateRuns PROVE DirsSpec => []DirsInv
  <1>1. DirsInit => DirsInv
    BY DirsStarts DEF DirsInit, DirsInv
  <1>2. DirsInv /\ [DirsNext]_dirsVars => DirsInv'
    BY DirsStep
  <1> QED
    BY <1>1, <1>2, PTL DEF DirsSpec

\* The command of a step starts at most once, however often its stream breaks and
\* whatever collects beside it: the log opened with O_EXCL elects one `run`.
THEOREM CommandStartsOnce ==
    ASSUME ~LateRuns PROVE DirsSpec => []RunsOnce
  <1>1. DirsInv => RunsOnce
    BY DirsInvSays
  <1> QED
    BY <1>1, DirsInvariance, PTL

\* collect never removes the log of a step whose command still runs (collect,
\* supervisorAlive).
THEOREM LiveStepsAreKept ==
    ASSUME ~LateRuns PROVE DirsSpec => []LiveKept
  <1>1. DirsInv => LiveKept
    BY DirsInvSays
  <1> QED
    BY <1>1, DirsInvariance, PTL

\* When a step's log is there, the directories of steps that were over before it
\* began are gone (collect).
THEOREM OldStepsAreCollected ==
    ASSUME ~LateRuns PROVE DirsSpec => []OldCollected
  <1>1. DirsInv => OldCollected
    BY DirsInvSays
  <1> QED
    BY <1>1, DirsInvariance, PTL
\* What Kill hits is of the step it is for.
LEMMA KillIsLocal ==
    ASSUME DirsInv, [DirsNext]_dirsVars
    PROVE  [\A r \in Run : exec = "kill" /\ exec' = "over" /\ Lives(r) /\ r[1] # step => Lives(r)']_dirsVars
  <1>0. PodType /\ ExecInv /\ PidInv
    BY TypeParts DEF DirsInv
  <1>1. ASSUME DirsNext, NEW r \in Run, exec = "kill", exec' = "over", Lives(r), r[1] # step
        PROVE  Lives(r)'
    <2>1. KillStep \/ KillLost
      <3>1. ASSUME NEW q \in Run, PodStep(q) PROVE exec' = exec
        BY <3>1, PodFrame
      <3>2. CASE Exec
        BY <1>1, <3>2 DEF Exec, NextStep, Connect, StreamBroke, StreamEnds, CancelStep
      <3> QED
        BY <1>1, <3>1, <3>2 DEF DirsNext, PodStep
    <2>2. CASE KillLost
      BY <1>1, <2>2 DEF KillLost, Lives
    <2>3. CASE KillStep
      <3>1. ~Hit(r)
        <4>1. step > 0
          BY <1>0, <1>1 DEF ExecInv
        <4> QED
          BY <1>0, <1>1, <4>1 DEF Hit, PidInv
      <3>2. runner'[r] = runner[r] /\ supervisor'[r] = supervisor[r]
        BY <1>0, <2>3, <3>1, KillFacts
      <3> QED
        BY <1>1, <3>2 DEF Lives
    <2> QED
      BY <2>1, <2>2, <2>3
  <1> QED
    BY <1>1

\* Cancelling a step kills nothing of another one, with numbers handed out again and
\* again (killStep, execwrap.Kill, stepDir): while the step lasts only its own
\* processes start, and only they have written its pid file.
THEOREM CancelKillsOwnStep ==
    ASSUME ~LateRuns PROVE DirsSpec => KillsOwnStep
  <1>1. DirsInv /\ [DirsNext]_dirsVars =>
          [\A r \in Run : exec = "kill" /\ exec' = "over" /\ Lives(r) /\ r[1] # step => Lives(r)']_dirsVars
    BY KillIsLocal
  <1> QED
    BY <1>1, DirsInvariance, PTL DEF DirsSpec, KillsOwnStep

=============================================================================
