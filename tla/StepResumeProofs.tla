------------------------- MODULE StepResumeProofs -------------------------
(* The proof that StepResumeInvariant's Inv is inductive, and the safety   *)
(* properties of StepResume that follow from it, for every value of the    *)
(* constants.  Each conjunct of Inv has a lemma, with a step per action.   *)
EXTENDS StepResumeInvariant, SequenceTheorems, TLAPS

\* Headers and payloads of frames are units of the log.
LEMMA FrameType ==
    ASSUME NEW k \in Streams \cup {"exit"}, NEW v \in Nat
    PROVE  Header(k) \in Unit /\ Payload(v) \in Unit
  BY DEF Header, Payload, Unit, Kinds, Streams

\* Appending a frame (frameLog.write) keeps the log and adds its header and payload.
LEMMA LogGrows ==
    ASSUME log \in Seq(Unit), NEW k \in Streams \cup {"exit"}, NEW v \in Nat
    PROVE  LET l == log \o AppendFrame(k, v) IN
           /\ l \in Seq(Unit) /\ Len(l) = Len(log) + 2
           /\ \A i \in 1 .. Len(log) : l[i] = log[i]
           /\ l[Len(log) + 1] = Header(k) /\ l[Len(log) + 2] = Payload(v)
  BY FrameType DEF AppendFrame

USE ConstantsAssumption

\* The types hold when Exec is called.
LEMMA InitType == ASSUME Init PROVE TypeOK
  <1>1. PluginType
    <2>1. result \in [kind : {"none"}, code : Nat]
      BY DEF Init, Verdict
    <2> QED
      BY <2>1 DEF Init, PluginType
  <1>0. \A S : <<>> \in Seq(S) /\ Len(<<>>) = 0
    OBVIOUS
  <1>2. DecoderType
    <2>1. pending \in Seq(Unit) /\ Len(pending) <= 1
      BY <1>0 DEF Init
    <2>2. out \in Seq([kind : Kinds, val : Nat])
      BY <1>0 DEF Init
    <2>3. offset \in Nat /\ exit \in Nat \cup {NoCode} /\ decErr \in BOOLEAN
      BY DEF Init
    <2> QED
      BY <2>1, <2>2, <2>3 DEF DecoderType
  <1>3. StreamType
    BY DEF Init, StreamType
  <1>4. DirType
    BY <1>0 DEF Init, DirType
  <1>5. SupervisorType
    BY DEF Init, SupervisorType
  <1> QED
    BY <1>1, <1>2, <1>3, <1>4, <1>5 DEF TypeOK

\* A step that leaves the plugin alone keeps its types.
LEMMA PluginTypeUnchanged == ASSUME PluginType, UNCHANGED pluginVars PROVE PluginType'
  BY DEF PluginType, pluginVars
\* A step that leaves the decoder alone keeps its types.
LEMMA DecoderTypeUnchanged == ASSUME DecoderType, UNCHANGED decVars PROVE DecoderType'
  BY DEF DecoderType, decVars
\* A step that leaves the stream alone keeps its types.
LEMMA StreamTypeUnchanged == ASSUME StreamType, UNCHANGED streamVars PROVE StreamType'
  BY DEF StreamType, streamVars
\* A step that leaves the step directory alone keeps its types.
LEMMA DirTypeUnchanged == ASSUME DirType, UNCHANGED <<pod, killed, pc, dirVars>> PROVE DirType'
  BY DEF DirType, dirVars
\* A step that leaves the supervisor alone keeps its types.
LEMMA SupervisorTypeUnchanged == ASSUME SupervisorType, UNCHANGED supVars PROVE SupervisorType'
  BY DEF SupervisorType, supVars

\* Every step keeps the types of runStep's variables.
LEMMA PluginKeepsType == ASSUME TypeOK, Next PROVE PluginType'
  <1> USE DEF TypeOK
  <1>1. ASSUME NEW p \in Procs, ExecStart(p) PROVE PluginType'
    BY <1>1 DEF ExecStart, PluginType
  <1>2. CASE ExecRefused
    BY <1>2 DEF ExecRefused, BreakErrors, PluginType
  <1>3. CASE StreamBreaks
    BY <1>3 DEF StreamBreaks, BreakErrors, PluginType
  <1>4. CASE ExecReturns
    BY <1>4 DEF ExecReturns, PluginType
  <1>5. CASE Judge
    <2>1. hstat \in Nat \cup {NoCode} /\ exit \in Nat \cup {NoCode}
      BY DEF DecoderType, StreamType, HelperStatus, ExitSupervisorGone, ExitNoLog, ExitIncomplete
    <2> DEFINE Verdicts == [kind : {"exit", "context", "corrupt", "helper", "finished", "missing", "gaveup"},
                           code : Nat \cup {NoCode}]
    <2>3. \A c \in Nat \cup {NoCode} :
            \A kind \in {"exit", "context", "corrupt", "helper", "finished", "missing", "gaveup"} :
              Verdict(kind, c) \in Verdicts
      BY DEF Verdict
    <2>4. \/ \E v \in Verdicts : Return(v)
          \/ Again
      BY <1>5, <2>1, <2>3 DEF Judge, NoRecord
    <2>5. ASSUME NEW v \in Verdicts, Return(v) PROVE PluginType'
      BY <1>5, <2>5 DEF Judge, Return, PluginType
    <2>6. CASE Again
      BY <1>5, <2>6 DEF Judge, Again, PluginType
    <2> QED
      BY <2>4, <2>5, <2>6
  <1>6. CASE Reattach
    BY <1>6 DEF Reattach, ResumeAt, PluginType, DecoderType
  <1>7. CASE BackoffCancelled
    BY <1>7 DEF BackoffCancelled, Return, Verdict, PluginType
  <1>8. CASE ExecDone
    BY <1>8 DEF ExecDone, PluginType
  <1>9. CASE Kill
    BY <1>9 DEF Kill, Verdict, PluginType
  <1>10. CASE KillFails
    BY <1>10 DEF KillFails, Verdict, PluginType
  <1>11. CASE Deliver
    BY <1>11 DEF Deliver, PluginType
  <1>12. CASE Cancel
    BY <1>12 DEF Cancel, PluginType
  <1>13. CASE DeadlinePasses
    BY <1>13 DEF DeadlinePasses, PluginType
  <1>14. ASSUME UNCHANGED pluginVars PROVE PluginType'
    BY <1>14, PluginTypeUnchanged
  <1>15. CASE \E p \in Procs : Run(p)
    BY <1>14, <1>15 DEF Run, CreateLog, StartSupervisor, RecordSupervisor, RecordPid, RunFails
  <1>16. CASE Follow
    BY <1>14, <1>16 DEF Follow, FollowOpen, Drain, CheckDone, CheckAlive, RecheckDone, FollowFails,
                        PodUnchanged
  <1>17. CASE Supervise \/ Command
    BY <1>14, <1>17 DEF Supervise, Command, OpenLogFails, StartFails, StartCommand, CopyChunk,
        WaitReturns, Settle, Finish, WriteDone, SupervisorExits, SupervisorDies, CommandWrites,
        CommandExits, LeftoverExits, OutsideSup
  <1>18. CASE PodDeleting \/ PodDown
    BY <1>14, <1>18 DEF PodDeleting, PodDown
  <1>19. CASE Terminated
    BY <1>14, <1>19 DEF Terminated, vars
  <1> QED
    BY <1>1, <1>2, <1>3, <1>4, <1>5, <1>6, <1>7, <1>8, <1>9, <1>10, <1>11, <1>12, <1>13,
       <1>15, <1>16, <1>17, <1>18, <1>19 DEF Next, Plugin, Environment

\* Only Decoder.Write changes the decoder.
LEMMA OnlyDeliverDecodes == ASSUME Next PROVE Deliver \/ UNCHANGED decVars
  <1>1. CASE Plugin
    BY <1>1 DEF Plugin, ExecStart, ExecRefused, StreamBreaks, ExecReturns, Judge, Reattach,
                BackoffCancelled, ExecDone, Kill, KillFails
  <1>2. CASE (\E p \in Procs : Run(p)) \/ Environment
    BY <1>2 DEF Run, CreateLog, StartSupervisor, RecordSupervisor, RecordPid, RunFails,
                Environment, Cancel, PodDeleting, PodDown, DeadlinePasses
  <1>3. CASE Follow
    BY <1>3 DEF Follow, FollowOpen, Drain, CheckDone, CheckAlive, RecheckDone, FollowFails,
                PodUnchanged
  <1>4. CASE Supervise \/ Command
    BY <1>4 DEF Supervise, Command, OpenLogFails, StartFails, StartCommand, CopyChunk,
        WaitReturns, Settle, Finish, WriteDone, SupervisorExits, SupervisorDies, CommandWrites,
        CommandExits, LeftoverExits, OutsideSup
  <1>5. CASE Terminated
    BY <1>5 DEF Terminated, vars
  <1> QED
    BY <1>1, <1>2, <1>3, <1>4, <1>5 DEF Next

\* Every step keeps the types of the decoder, which needs whole frames in the log.
LEMMA DecoderKeepsType == ASSUME TypeOK, LogInv, StreamInv, Next PROVE DecoderType'
  <1>1. CASE UNCHANGED decVars
    BY <1>1, DecoderTypeUnchanged DEF TypeOK
  <1>2. CASE Deliver /\ ~UNCHANGED decVars
    <2> DEFINE u == log[dpos + 1]
    <2>1. u \in Unit
      BY <1>2 DEF Deliver, TypeOK, StreamType, DirType, StreamInv
    <2>2. PICK sent \in BOOLEAN : Decode(u, sent)
      BY <1>2 DEF Deliver
    <2> HIDE DEF u
    <2>3. CASE pending = <<>>
      <3>1. <<u>> \in Seq(Unit) /\ Len(<<u>>) = 1
        BY <2>1
      <3>2. pending' = <<u>> /\ UNCHANGED <<out, exit>> /\ offset' = offset + 1
            /\ decErr' \in BOOLEAN
        BY <2>2, <2>3 DEF Decode
      <3> QED
        BY <3>1, <3>2 DEF TypeOK, DecoderType
    <2>4. CASE pending # <<>>
      <3>1. pending[1] \in Unit
        BY <2>4 DEF TypeOK, DecoderType
      <3> DEFINE f == [kind |-> pending[1].kind, val |-> u.val]
                 F == [kind : Kinds, val : Nat]
      <3>2. f \in F /\ out \in Seq(F)
        BY <2>1, <3>1 DEF Unit, TypeOK, DecoderType
      <3>3. out' \in Seq(F)
        <4>1. out' \in {out, Append(out, f)}
          BY <2>2, <2>4 DEF Decode
        <4> HIDE DEF f, F
        <4> QED
          BY <3>2, <4>1
      <3>4. pending' \in Seq(Unit) /\ Len(pending') <= 1
        BY <2>2, <2>4 DEF Decode
      <3>5. u.val \in Nat
        BY <2>1 DEF Unit
      <3>6. offset' \in Nat /\ exit' \in Nat \cup {NoCode} /\ decErr' \in BOOLEAN
        BY <2>2, <2>4, <3>5 DEF Decode, TypeOK, DecoderType
      <3> QED
        BY <3>3, <3>4, <3>6 DEF DecoderType
    <2> QED
      BY <2>3, <2>4
  <1> QED
    BY <1>1, <1>2, OnlyDeliverDecodes

\* Every step keeps the types of the stream and of follow's position in it.
LEMMA StreamKeepsType == ASSUME TypeOK, Next PROVE StreamType'
  <1> USE DEF TypeOK
  <1>1. ASSUME UNCHANGED streamVars PROVE StreamType'
    BY <1>1, StreamTypeUnchanged
  <1>2. ASSUME NEW p \in Procs, ExecStart(p) PROVE StreamType'
    BY <1>2 DEF ExecStart, StreamType
  <1>3. CASE StreamBreaks \/ ExecReturns
    BY <1>3 DEF StreamBreaks, ExecReturns, Disconnect, StreamType
  <1>4. CASE Judge
    BY <1>4 DEF Judge, StreamType
  <1>5. CASE ExecRefused \/ Reattach \/ BackoffCancelled \/ ExecDone \/ Kill \/ KillFails
    BY <1>1, <1>5 DEF ExecRefused, Reattach, BackoffCancelled, ExecDone, Kill, KillFails
  <1>6. CASE Deliver
    BY <1>6 DEF Deliver, StreamType
  <1>7. ASSUME NEW p \in Procs, Run(p) PROVE StreamType'
    <2>1. CASE RunFails(p)
      BY <2>1 DEF RunFails, StreamType, HelperStatus
    <2> QED
      BY <1>1, <1>7, <2>1 DEF Run, CreateLog, StartSupervisor, RecordSupervisor, RecordPid
  <1>8. CASE FollowOpen
    BY <1>8 DEF FollowOpen, Leave, PodUnchanged, StreamType, HelperStatus, PluginType
  <1>9. CASE Drain
    BY <1>9 DEF Drain, DrainedTo, PodUnchanged, StreamType, HelperStatus, DirType
  <1>10. ASSUME NextPoll PROVE StreamType'
    BY <1>10 DEF NextPoll, NextIdle, StreamType
  <1>11. ASSUME NEW to \in {"final", "incomplete", "alive", "recheck", "last"}, Move(to)
         PROVE  StreamType'
    BY <1>11 DEF Move, StreamType
  <1>12. CASE CheckDone \/ CheckAlive \/ RecheckDone
    BY <1>10, <1>11, <1>12 DEF CheckDone, CheckAlive, RecheckDone
  <1>13. CASE FollowFails
    BY <1>13 DEF FollowFails, Leave, StreamType, HelperStatus
  <1>14. CASE Supervise \/ Command
    BY <1>1, <1>14 DEF Supervise, Command, OpenLogFails, StartFails, StartCommand, CopyChunk,
        WaitReturns, Settle, Finish, WriteDone, SupervisorExits, SupervisorDies, CommandWrites,
        CommandExits, LeftoverExits, OutsideSup
  <1>15. CASE Environment \/ Terminated
    BY <1>1, <1>15 DEF Environment, Cancel, PodDeleting, PodDown, DeadlinePasses, Terminated, vars
  <1> QED
    BY <1>2, <1>3, <1>4, <1>5, <1>6, <1>7, <1>8, <1>9, <1>12, <1>13, <1>14, <1>15
    DEF Next, Plugin, Follow

\* A write, failing or not, leaves a log of units.
LEMMA WriteLogType ==
    ASSUME TypeOK, NEW k \in Streams \cup {"exit"}, NEW v \in Nat, WriteLog(AppendFrame(k, v))
    PROVE  log' \in Seq(Unit) /\ lerr' \in BOOLEAN
  <1>1. log \o AppendFrame(k, v) \in Seq(Unit)
    BY LogGrows DEF TypeOK, DirType
  <1>2. AppendFrame(k, v)[1] = Header(k) /\ Header(k) \in Unit
    BY FrameType DEF AppendFrame
  <1>3. Append(log, Header(k)) \in Seq(Unit)
    BY <1>2 DEF TypeOK, DirType
  <1> QED
    BY <1>1, <1>2, <1>3 DEF WriteLog, TypeOK, DirType, SupervisorType

\* Every step keeps the types of the step directory and its processes.
LEMMA DirKeepsType == ASSUME TypeOK, LogInv, Next PROVE DirType'
  <1> USE DEF TypeOK
  <1>1. ASSUME UNCHANGED <<pod, killed, pc, dirVars>> PROVE DirType'
    BY <1>1, DirTypeUnchanged
  <1>2. ASSUME NEW p \in Procs, ExecStart(p) PROVE DirType'
    BY <1>2 DEF ExecStart, DirType, dirVars
  <1>3. CASE StreamBreaks \/ ExecReturns
    BY <1>3 DEF StreamBreaks, ExecReturns, Disconnect, DirType, dirVars
  <1>4. CASE Kill
    BY <1>4 DEF Kill, KillTree, DirType
  <1>5. CASE ExecRefused \/ Judge \/ Reattach \/ BackoffCancelled \/ ExecDone \/ KillFails \/ Deliver
    BY <1>1, <1>5 DEF ExecRefused, Judge, Reattach, BackoffCancelled, ExecDone, KillFails, Deliver,
                      podVars
  <1>6. ASSUME NEW p \in Procs, Run(p) PROVE DirType'
    <2>1. CASE CreateLog(p)
      BY <2>1 DEF CreateLog, BecomeFollower, DirType
    <2>2. CASE StartSupervisor(p)
      BY <2>2 DEF StartSupervisor, DirType, dirVars
    <2>3. CASE RecordSupervisor(p)
      BY <2>3 DEF RecordSupervisor, DirType
    <2>4. CASE RecordPid(p)
      BY <2>4 DEF RecordPid, BecomeFollower, DirType
    <2>5. CASE RunFails(p)
      BY <2>5 DEF RunFails, DirType, dirVars
    <2> QED
      BY <1>6, <2>1, <2>2, <2>3, <2>4, <2>5 DEF Run
  <1>7. CASE Follow
    BY <1>1, <1>7 DEF Follow, FollowOpen, Drain, CheckDone, CheckAlive, RecheckDone, FollowFails,
                      PodUnchanged, podVars
  <1>8. CASE StartFails
    <2>1. PICK c \in FailCodes : WriteLog(AppendFrame("stderr", 0))
      BY <1>8 DEF StartFails
    <2>2. log' \in Seq(Unit)
      BY <2>1, WriteLogType DEF Streams
    <2> QED
      BY <1>8, <2>2 DEF StartFails, OutsideSup, DirType
  <1>9. ASSUME NEW k \in Streams, CopyChunk(k) PROVE DirType'
    <2>1. log' \in Seq(Unit)
      <3>1. framed[k] + 1 \in Nat
        BY DEF SupervisorType
      <3> QED
        BY <1>9, <3>1, WriteLogType DEF CopyChunk, DirType
    <2> QED
      BY <1>9, <2>1 DEF CopyChunk, OutsideSup, DirType
  <1>10. CASE Finish
    <2>1. code \in Nat
      BY <1>10 DEF Finish, LogInv
    <2>2. log' \in Seq(Unit)
      <3>1. CASE WriteLog(AppendFrame("exit", code))
        BY <2>1, <3>1, WriteLogType
      <3>2. CASE log' = log \o AppendFrame("exit", code)
        BY <2>1, <3>2, LogGrows DEF DirType
      <3> QED
        BY <1>10, <3>1, <3>2 DEF Finish, ExitFrame
    <2> QED
      BY <1>10, <2>2 DEF Finish, OutsideSup, DirType
  <1>11. CASE OpenLogFails \/ WriteDone
    BY <1>11 DEF OpenLogFails, WriteDone, OutsideSup, DirType
  <1>12. CASE StartCommand \/ WaitReturns \/ Settle \/ SupervisorExits \/ SupervisorDies \/ Command
    BY <1>1, <1>12 DEF StartCommand, WaitReturns, Settle, SupervisorExits, SupervisorDies, Command,
                       CommandWrites, CommandExits, LeftoverExits, OutsideSup, dirVars
  <1>13. CASE PodDeleting \/ PodDown
    BY <1>13 DEF PodDeleting, PodDown, DirType, dirVars
  <1>14. CASE Cancel \/ DeadlinePasses \/ Terminated
    BY <1>1, <1>14 DEF Cancel, DeadlinePasses, Terminated, vars, podVars
  <1> QED
    BY <1>2, <1>3, <1>4, <1>5, <1>6, <1>7, <1>8, <1>9, <1>10, <1>11, <1>12, <1>13, <1>14
    DEF Next, Plugin, Supervise, Environment

\* Every step keeps the types of the supervisor and the command.
LEMMA SupervisorKeepsType == ASSUME TypeOK, Next PROVE SupervisorType'
  <1> USE DEF TypeOK
  <1>1. ASSUME UNCHANGED supVars PROVE SupervisorType'
    BY <1>1, SupervisorTypeUnchanged
  <1>2. CASE Kill
    BY <1>2 DEF Kill, KillTree, SupervisorType
  <1>3. CASE Plugin /\ ~Kill
    BY <1>1, <1>3 DEF Plugin, ExecStart, ExecRefused, StreamBreaks, ExecReturns, Judge, Reattach,
                      BackoffCancelled, ExecDone, KillFails, Deliver, podVars
  <1>4. ASSUME NEW p \in Procs, Run(p) PROVE SupervisorType'
    <2>1. CASE StartSupervisor(p)
      BY <2>1 DEF StartSupervisor, SupervisorType
    <2> QED
      BY <1>1, <1>4, <2>1 DEF Run, CreateLog, RecordSupervisor, RecordPid, RunFails
  <1>5. CASE Follow
    BY <1>1, <1>5 DEF Follow, FollowOpen, Drain, CheckDone, CheckAlive, RecheckDone, FollowFails,
                      PodUnchanged, podVars
  <1>6. ASSUME NEW frame, WriteLog(frame) PROVE lerr' \in BOOLEAN
    BY <1>6 DEF WriteLog, SupervisorType
  <1>7. CASE StartFails
    BY <1>6, <1>7 DEF StartFails, SupervisorType
  <1>8. ASSUME NEW k \in Streams, CopyChunk(k) PROVE SupervisorType'
    <2>1. lerr' \in BOOLEAN
      BY <1>6, <1>8 DEF CopyChunk, SupervisorType
    <2> QED
      BY <1>8, <2>1 DEF CopyChunk, SupervisorType
  <1>9. CASE Finish
    <2>1. lerr' \in BOOLEAN
      BY <1>6, <1>9 DEF Finish, SupervisorType
    <2> QED
      BY <1>9, <2>1 DEF Finish, SupervisorType
  <1>10. CASE OpenLogFails \/ StartCommand \/ WaitReturns \/ WriteDone \/ SupervisorExits
              \/ SupervisorDies
    BY <1>10 DEF OpenLogFails, StartCommand, WaitReturns, WriteDone, SupervisorExits,
                 SupervisorDies, SupervisorType
  <1>11. CASE Settle
    BY <1>11 DEF Settle, PipesAtEOF, SupervisorType
  <1>12. CASE Command
    <2>1. ASSUME NEW k \in Streams, CommandWrites(k) PROVE SupervisorType'
      BY <2>1 DEF CommandWrites, SupervisorType
    <2>2. CASE CommandExits
      BY <2>2 DEF CommandExits, SupervisorType
    <2>3. CASE LeftoverExits
      BY <2>3 DEF LeftoverExits, SupervisorType
    <2> QED
      BY <1>12, <2>1, <2>2, <2>3 DEF Command
  <1>13. CASE PodDown
    BY <1>13 DEF PodDown, SupervisorType
  <1>14. CASE Cancel \/ PodDeleting \/ DeadlinePasses \/ Terminated
    BY <1>1, <1>14 DEF Cancel, PodDeleting, DeadlinePasses, Terminated, vars, podVars
  <1> QED
    BY <1>2, <1>3, <1>4, <1>5, <1>7, <1>8, <1>9, <1>10, <1>11, <1>12, <1>13, <1>14
    DEF Next, Supervise, Environment

---------------------------------------------------------------------------
(* The step starts once.                                                   *)

\* StartInv depends on the processes, the log's existence and the supervisor only.
LEMMA StartUnchanged ==
    ASSUME StartInv, UNCHANGED <<logged, sup, pc, starts, cmd>> PROVE StartInv'
  BY DEF StartInv

\* Every step keeps StartInv: only the creator of the log starts the supervisor.
LEMMA StartInductive == ASSUME TypeOK, StartInv, Next PROVE StartInv'
  <1> USE DEF TypeOK, DirType
  <1>1. ASSUME UNCHANGED <<logged, sup, pc, starts, cmd>> PROVE StartInv'
    BY <1>1, StartUnchanged
  <1>2. ASSUME NEW p \in Procs, ExecStart(p) PROVE StartInv'
    BY <1>2 DEF ExecStart, StartInv, dirVars, supVars
  <1>3. CASE StreamBreaks \/ ExecReturns
    BY <1>3 DEF StreamBreaks, ExecReturns, Disconnect, StartInv, dirVars, supVars
  <1>4. CASE Kill
    BY <1>4 DEF Kill, KillTree, SupLive, StartInv
  <1>5. CASE ExecRefused \/ Judge \/ Reattach \/ BackoffCancelled \/ ExecDone \/ KillFails \/ Deliver
    BY <1>1, <1>5 DEF ExecRefused, Judge, Reattach, BackoffCancelled, ExecDone, KillFails, Deliver,
                      podVars, dirVars, supVars
  <1>6. ASSUME NEW p \in Procs, CreateLog(p) PROVE StartInv'
    BY <1>6 DEF CreateLog, LogTaken, BecomeFollower, StartInv, supVars
  <1>7. ASSUME NEW p \in Procs, StartSupervisor(p) PROVE StartInv'
    BY <1>7 DEF StartSupervisor, StartInv, dirVars
  <1>8. ASSUME NEW p \in Procs, RecordSupervisor(p) \/ RecordPid(p) \/ RunFails(p) PROVE StartInv'
    BY <1>8 DEF RecordSupervisor, RecordPid, RunFails, BecomeFollower, StartInv, dirVars, supVars
  <1>9. CASE Follow
    BY <1>1, <1>9 DEF Follow, FollowOpen, Drain, CheckDone, CheckAlive, RecheckDone, FollowFails,
                      PodUnchanged, podVars, dirVars, supVars
  <1>10. CASE StartCommand
    BY <1>10 DEF StartCommand, OutsideSup, StartInv
  <1>11. CASE OpenLogFails \/ StartFails \/ WaitReturns \/ Settle \/ Finish \/ WriteDone
              \/ SupervisorExits \/ SupervisorDies
    BY <1>11 DEF OpenLogFails, StartFails, WaitReturns, Settle, Finish, WriteDone, SupervisorExits,
                 SupervisorDies, SupLive, OutsideSup, StartInv
  <1>12. ASSUME NEW k \in Streams, CopyChunk(k) \/ CommandWrites(k) PROVE StartInv'
    BY <1>1, <1>12 DEF CopyChunk, CommandWrites, OutsideSup
  <1>13. CASE CommandExits \/ LeftoverExits
    BY <1>13 DEF CommandExits, LeftoverExits, OutsideSup, StartInv
  <1>14. CASE PodDown
    BY <1>14 DEF PodDown, SupLive, StartInv, dirVars
  <1>15. CASE Cancel \/ PodDeleting \/ DeadlinePasses \/ Terminated
    BY <1>1, <1>15 DEF Cancel, PodDeleting, DeadlinePasses, Terminated, vars, podVars, dirVars,
                       supVars
  <1> QED
    BY <1>2, <1>3, <1>4, <1>5, <1>6, <1>7, <1>8, <1>9, <1>10, <1>11, <1>12, <1>13, <1>14, <1>15
    DEF Next, Plugin, Run, Supervise, Command, Environment

---------------------------------------------------------------------------
(* The log.                                                                *)

\* What one write can make of the log: the frame, its header, or nothing.
LEMMA WriteLogShape ==
    ASSUME TypeOK, LogInv, ~LogClosed, ~lerr,
           NEW k \in Streams \cup {"exit"}, NEW v \in Nat,
           \/ log' = log \o AppendFrame(k, v)
           \/ lerr' /\ log' \in {log, Append(log, AppendFrame(k, v)[1])}
    PROVE  /\ ~lerr' => Len(log') % 2 = 0
           /\ Len(log) <= Len(log') /\ \A i \in 1 .. Len(log) : log'[i] = log[i]
           /\ \A i \in 1 .. Len(log') :
                /\ i % 2 = 1 => /\ log'[i].kind \in Streams \cup {"exit"}
                                /\ log'[i] = Header(log'[i].kind)
                /\ i % 2 = 0 => log'[i] = Payload(log'[i].val)
                /\ log'[i].kind = "exit" => k = "exit" /\ i >= Len(log') - 1
                /\ log'[i].kind = "exit" /\ i < Len(log') => log'[i + 1].val = v
  <1>1. log \in Seq(Unit) /\ Len(log) \in Nat /\ Len(log) % 2 = 0
    <2>1. log \in Seq(Unit)
      BY DEF TypeOK, DirType
    <2>2. Len(log) % 2 = 0
      BY DEF LogInv
    <2> QED
      BY <2>1, <2>2
  <1>2. \A i \in 1 .. Len(log) :
          /\ i % 2 = 1 => /\ log[i].kind \in Streams \cup {"exit"}
                          /\ log[i] = Header(log[i].kind)
          /\ i % 2 = 0 => log[i] = Payload(log[i].val)
          /\ log[i].kind # "exit"
    BY DEF LogInv
  <1>3. Header(k).kind = k /\ Payload(v).val = v /\ Payload(v).kind = "data"
    BY DEF Header, Payload
  <1>4. CASE log' = log \o AppendFrame(k, v)
    <2>1. /\ Len(log') = Len(log) + 2
          /\ \A i \in 1 .. Len(log) : log'[i] = log[i]
          /\ log'[Len(log) + 1] = Header(k) /\ log'[Len(log) + 2] = Payload(v)
      <3>1. PICK l : l = log \o AppendFrame(k, v)
        OBVIOUS
      <3>2. /\ Len(l) = Len(log) + 2
            /\ \A i \in 1 .. Len(log) : l[i] = log[i]
            /\ l[Len(log) + 1] = Header(k) /\ l[Len(log) + 2] = Payload(v)
        BY <1>1, <3>1, LogGrows
      <3>3. log' = l
        BY <1>4, <3>1
      <3> QED
        BY <3>2, <3>3
    <2>2. Len(log') % 2 = 0 /\ (Len(log) + 1) % 2 = 1 /\ (Len(log) + 2) % 2 = 0
      BY <1>1, <2>1
    <2>3. ASSUME NEW i \in 1 .. Len(log')
          PROVE  /\ i % 2 = 1 => /\ log'[i].kind \in Streams \cup {"exit"}
                                 /\ log'[i] = Header(log'[i].kind)
                 /\ i % 2 = 0 => log'[i] = Payload(log'[i].val)
                 /\ log'[i].kind = "exit" => k = "exit" /\ i >= Len(log') - 1
                 /\ log'[i].kind = "exit" /\ i < Len(log') => log'[i + 1].val = v
      <3>1. CASE i \in 1 .. Len(log)
        BY <1>2, <2>1, <3>1
      <3>2. CASE i = Len(log) + 1
        BY <1>1, <1>3, <2>1, <2>2, <3>2
      <3>3. CASE i = Len(log) + 2
        BY <1>1, <1>3, <2>1, <2>2, <3>3
      <3> QED
        BY <1>1, <2>1, <3>1, <3>2, <3>3
    <2> QED
      BY <1>1, <2>1, <2>2, <2>3
  <1>5. CASE lerr' /\ log' = log
    BY <1>1, <1>2, <1>5
  <1>6. CASE lerr' /\ log' = Append(log, AppendFrame(k, v)[1])
    <2>1. AppendFrame(k, v)[1] = Header(k)
      BY DEF AppendFrame
    <2>2. /\ Len(log') = Len(log) + 1
          /\ \A i \in 1 .. Len(log) : log'[i] = log[i]
          /\ log'[Len(log) + 1] = Header(k)
      BY <1>1, <1>6, <2>1
    <2> QED
      BY <1>1, <1>2, <1>3, <1>6, <2>2
  <1> QED
    BY <1>4, <1>5, <1>6

\* An action that leaves the log alone keeps LogInv unless it reopens the log,
\* restarts the command or changes its exit code.
LEMMA LogInvFrame ==
    ASSUME TypeOK, LogInv, UNCHANGED <<log, lerr>>,
           LogClosed => LogClosed' /\ UNCHANGED code /\ (cmd' = "running" => cmd = "running"),
           sup' \in {"settle", "finish", "record", "drain"} => cmd' # "running",
           sup' \in {"settle", "finish"} => code' \in Nat,
           cmd' = "exited" => code' \in Nat
    PROVE  LogInv'
  BY DEF LogInv

\* Every step keeps LogInv: frames are whole until a write fails, and the exit record
\* comes last.
LEMMA LogInductive == ASSUME TypeOK, StartInv, LogInv, Next PROVE LogInv'
  <1>1. ASSUME UNCHANGED <<log, lerr, sup, code, cmd>> PROVE LogInv'
    BY <1>1 DEF LogInv, LogClosed
  <1>2. CASE Kill
    BY <1>2, LogInvFrame DEF Kill, KillTree, SupLive, LogInv, LogClosed
  <1>3. CASE Plugin /\ ~Kill
    BY <1>1, <1>3 DEF Plugin, ExecStart, ExecRefused, StreamBreaks, ExecReturns, Judge, Reattach,
                      BackoffCancelled, ExecDone, KillFails, Deliver, podVars, dirVars, supVars
  <1>4. ASSUME NEW p \in Procs, StartSupervisor(p) PROVE LogInv'
    BY <1>4, LogInvFrame DEF StartSupervisor, StartInv, LogInv, LogClosed, dirVars
  <1>5. ASSUME NEW p \in Procs, Run(p), ~StartSupervisor(p) PROVE LogInv'
    BY <1>1, <1>5 DEF Run, CreateLog, RecordSupervisor, RecordPid, RunFails, dirVars, supVars
  <1>6. CASE Follow
    BY <1>1, <1>6 DEF Follow, FollowOpen, Drain, CheckDone, CheckAlive, RecheckDone, FollowFails,
                      PodUnchanged, podVars, dirVars, supVars
  <1>7. CASE StartFails
    <2>1. cmd' = "none" /\ code' \in Nat /\ sup' = "finish" /\ ~LogClosed
      BY <1>7 DEF StartFails, StartInv, LogClosed
    <2>2. CASE UNCHANGED <<log, lerr>>
      BY <2>1, <2>2, LogInvFrame
    <2>3. CASE ~UNCHANGED <<log, lerr>>
      <3>1. "stderr" \in Streams \cup {"exit"} /\ 0 \in Nat
        BY DEF Streams
      <3>2. ~lerr /\ \/ log' = log \o AppendFrame("stderr", 0)
                     \/ lerr' /\ log' \in {log, Append(log, AppendFrame("stderr", 0)[1])}
        BY <1>7, <2>3 DEF StartFails, WriteLog
      <3>3. /\ ~lerr' => Len(log') % 2 = 0
            /\ \A i \in 1 .. Len(log') :
                 /\ i % 2 = 1 => /\ log'[i].kind \in Streams \cup {"exit"}
                                 /\ log'[i] = Header(log'[i].kind)
                 /\ i % 2 = 0 => log'[i] = Payload(log'[i].val)
                 /\ log'[i].kind # "exit"
        BY <2>1, <3>1, <3>2, WriteLogShape
      <3> QED
        BY <2>1, <3>3 DEF LogInv
    <2> QED
      BY <2>2, <2>3
  <1>8. ASSUME NEW k \in Streams, CopyChunk(k) PROVE LogInv'
    <2>1. UNCHANGED <<cmd, code, sup>>
      BY <1>8 DEF CopyChunk
    <2>2. CASE UNCHANGED <<log, lerr>>
      BY <1>1, <2>1, <2>2
    <2>3. CASE ~UNCHANGED <<log, lerr>>
      <3>1. k # "exit" /\ k \in Streams \cup {"exit"} /\ framed[k] + 1 \in Nat
        BY DEF Streams, TypeOK, SupervisorType
      <3>2. ~LogClosed /\ ~lerr
            /\ \/ log' = log \o AppendFrame(k, framed[k] + 1)
               \/ lerr' /\ log' \in {log, Append(log, AppendFrame(k, framed[k] + 1)[1])}
        BY <1>8, <2>3 DEF CopyChunk, WriteLog, LogOpen, LogClosed
      <3>3. /\ ~lerr' => Len(log') % 2 = 0
            /\ \A i \in 1 .. Len(log') :
                 /\ i % 2 = 1 => /\ log'[i].kind \in Streams \cup {"exit"}
                                 /\ log'[i] = Header(log'[i].kind)
                 /\ i % 2 = 0 => log'[i] = Payload(log'[i].val)
                 /\ log'[i].kind # "exit"
        BY <2>1, <3>1, <3>2, WriteLogShape
      <3> QED
        BY <2>1, <3>3 DEF LogInv
    <2> QED
      BY <2>2, <2>3
  <1>9. CASE Finish
    <2>1. UNCHANGED <<cmd, code>> /\ LogClosed' /\ ~LogClosed /\ code \in Nat /\ cmd # "running"
          /\ sup' = "record"
      BY <1>9 DEF Finish, LogInv, LogClosed
    <2>2. CASE UNCHANGED <<log, lerr>>
      BY <2>1, <2>2, LogInvFrame
    <2>3. CASE ~UNCHANGED <<log, lerr>>
      <3>1. ~lerr /\ \/ log' = log \o AppendFrame("exit", code)
                     \/ lerr' /\ log' \in {log, Append(log, AppendFrame("exit", code)[1])}
        BY <1>9, <2>3 DEF Finish, WriteLog, ExitFrame
      <3> QED
        BY <2>1, <3>1, WriteLogShape DEF LogInv
    <2> QED
      BY <2>2, <2>3
  <1>10. CASE OpenLogFails \/ StartCommand \/ WaitReturns \/ Settle \/ WriteDone
              \/ SupervisorExits \/ SupervisorDies
    BY <1>10, LogInvFrame DEF OpenLogFails, StartCommand, WaitReturns, Settle, WriteDone,
        SupervisorExits, SupervisorDies, SupLive, OutsideSup, StartInv, LogInv, LogClosed
  <1>11. CASE CommandExits
    BY <1>11 DEF CommandExits, LogInv, LogClosed
  <1>12. CASE Command /\ ~CommandExits
    BY <1>1, <1>12 DEF Command, CommandWrites, LeftoverExits
  <1>13. CASE PodDown
    BY <1>13, LogInvFrame DEF PodDown, SupLive, LogInv, LogClosed, dirVars
  <1>14. CASE Cancel \/ PodDeleting \/ DeadlinePasses \/ Terminated
    BY <1>1, <1>14 DEF Cancel, PodDeleting, DeadlinePasses, Terminated, vars, podVars, dirVars,
                       supVars
  <1> QED
    BY <1>2, <1>3, <1>4, <1>5, <1>6, <1>7, <1>8, <1>9, <1>10, <1>11, <1>12, <1>13, <1>14
    DEF Next, Supervise, Environment

\* No step rewrites what the log holds, and none adds to a closed log.
LEMMA LogOnlyGrows ==
    ASSUME TypeOK, LogInv, Next
    PROVE  \/ log' = log
           \/ /\ ~LogClosed /\ Len(log) <= Len(log')
              /\ \A i \in 1 .. Len(log) : log'[i] = log[i]
  <1>1. ASSUME NEW k \in Streams \cup {"exit"}, NEW v \in Nat, ~LogClosed, ~lerr,
               \/ log' = log \o AppendFrame(k, v)
               \/ lerr' /\ log' \in {log, Append(log, AppendFrame(k, v)[1])}
        PROVE  Len(log) <= Len(log') /\ \A i \in 1 .. Len(log) : log'[i] = log[i]
    BY <1>1, WriteLogShape
  <1>2. CASE StartFails
    <2>1. "stderr" \in Streams \cup {"exit"} /\ 0 \in Nat /\ ~LogClosed
      BY <1>2 DEF Streams, StartFails, LogClosed
    <2> QED
      BY <1>1, <1>2, <2>1 DEF StartFails, WriteLog
  <1>3. ASSUME NEW k \in Streams, CopyChunk(k), log' # log
        PROVE  ~LogClosed /\ Len(log) <= Len(log') /\ \A i \in 1 .. Len(log) : log'[i] = log[i]
    <2>1. k \in Streams \cup {"exit"} /\ framed[k] + 1 \in Nat
      BY DEF TypeOK, SupervisorType
    <2>2. ~LogClosed
      BY <1>3 DEF CopyChunk, LogOpen, LogClosed
    <2> QED
      BY <1>1, <1>3, <2>1, <2>2 DEF CopyChunk, WriteLog
  <1>4. CASE Finish
    <2>1. code \in Nat /\ ~LogClosed
      BY <1>4 DEF Finish, LogInv, LogClosed
    <2> QED
      BY <1>1, <1>4, <2>1 DEF Finish, ExitFrame, WriteLog
  <1>5. CASE Plugin \/ (\E p \in Procs : Run(p))
    BY <1>5 DEF Plugin, ExecStart, ExecRefused, StreamBreaks, ExecReturns, Judge, Reattach,
                BackoffCancelled, ExecDone, Kill, KillFails, Deliver, podVars, dirVars,
                Run, CreateLog, StartSupervisor, RecordSupervisor, RecordPid, RunFails
  <1>6. CASE Follow \/ Environment \/ Terminated
    BY <1>6 DEF Follow, FollowOpen, Drain, CheckDone, CheckAlive, RecheckDone, FollowFails,
                PodUnchanged, Environment, Cancel, PodDeleting, PodDown, DeadlinePasses,
                Terminated, vars, podVars, dirVars
  <1>7. CASE Command \/ OpenLogFails \/ StartCommand \/ WaitReturns \/ Settle \/ WriteDone
             \/ SupervisorExits \/ SupervisorDies
    BY <1>7 DEF Command, CommandWrites, CommandExits, LeftoverExits, OpenLogFails, StartCommand,
                WaitReturns, Settle, WriteDone, SupervisorExits, SupervisorDies
  <1> QED
    BY <1>2, <1>3, <1>4, <1>5, <1>6, <1>7 DEF Next, Supervise

---------------------------------------------------------------------------
(* Resuming: the stream and the decoder.                                   *)

\* Once the exit record is decoded nothing more is in flight.
LEMMA NothingAfterExit == ASSUME TypeOK, StreamInv, DecodeInv, Deliver PROVE exit = NoCode
  BY DEF TypeOK, StreamType, DecoderType, DirType, StreamInv, DecodeInv, Deliver

\* Every step keeps StreamInv: an attempt starts where the decoder stopped.
LEMMA StreamInductive == ASSUME TypeOK, LogInv, StreamInv, DecodeInv, Next PROVE StreamInv'
  <1> USE DEF TypeOK, StreamType
  <1>1. fpos <= Len(log) /\ Len(log) \in Nat /\ Len(log') \in Nat /\ Len(log) <= Len(log')
    BY LogOnlyGrows, DirKeepsType DEF StreamInv, DirType
  <1>2. ASSUME UNCHANGED <<ppc, before, offset, exit, decErr, cur, dpos, fpos, fst>>
        PROVE  StreamInv'
    BY <1>1, <1>2 DEF StreamInv
  <1>3. ASSUME NEW p \in Procs, ExecStart(p) PROVE StreamInv'
    BY <1>1, <1>3 DEF ExecStart, decVars, StreamInv
  <1>4. CASE ExecRefused
    BY <1>1, <1>4 DEF ExecRefused, decVars, streamVars, StreamInv
  <1>5. CASE StreamBreaks \/ ExecReturns
    BY <1>1, <1>5 DEF StreamBreaks, ExecReturns, Disconnect, decVars, StreamInv
  <1>6. CASE Judge
    BY <1>1, <1>6 DEF Judge, Return, Again, decVars, StreamInv
  <1>7. CASE Reattach
    BY <1>1, <1>7 DEF Reattach, ResumeAt, decVars, streamVars, StreamInv
  <1>8. CASE BackoffCancelled \/ ExecDone \/ Kill \/ KillFails
    BY <1>1, <1>8 DEF BackoffCancelled, Return, ExecDone, Kill, KillFails, decVars, streamVars,
                      StreamInv
  <1>9. CASE Deliver
    <2>1. dpos < fpos /\ dpos' = dpos + 1 /\ UNCHANGED <<ppc, before, cur, fpos, fst>> /\ ppc = "exec"
          /\ fst # "open"
      BY <1>9 DEF Deliver, StreamInv
    <2>2. ~decErr' => offset' = offset + 1 /\ ~decErr
      BY <1>9 DEF Deliver, Decode, decVars
    <2>3. offset \in Nat
      BY DEF DecoderType
    <2> QED
      BY <1>1, <2>1, <2>2, <2>3 DEF StreamInv
  <1>10. ASSUME NEW p \in Procs, Run(p) PROVE StreamInv'
    BY <1>2, <1>10 DEF Run, CreateLog, StartSupervisor, RecordSupervisor, RecordPid, RunFails,
                       pluginVars, decVars, streamVars
  <1>11. CASE FollowOpen
    BY <1>1, <1>11 DEF FollowOpen, Following, Leave, PodUnchanged, pluginVars, decVars,
                       PluginType, StreamInv
  <1>12. CASE Drain
    BY <1>1, <1>12 DEF Drain, DrainedTo, Following, PodUnchanged, pluginVars, decVars,
                       podVars, dirVars, StreamInv
  <1>13. CASE CheckDone \/ CheckAlive \/ RecheckDone
    BY <1>1, <1>13 DEF CheckDone, CheckAlive, RecheckDone, Following, Move, NextPoll, PodUnchanged,
                       pluginVars, decVars, StreamInv
  <1>14. CASE FollowFails
    BY <1>2, <1>14 DEF FollowFails, Leave, PodUnchanged, pluginVars, decVars
  <1>15. CASE Supervise \/ Command
    BY <1>2, <1>15 DEF Supervise, Command, OpenLogFails, StartFails, StartCommand, CopyChunk,
        WaitReturns, Settle, Finish, WriteDone, SupervisorExits, SupervisorDies, CommandWrites,
        CommandExits, LeftoverExits, OutsideSup, pluginVars, decVars, streamVars
  <1>16. CASE Environment \/ Terminated
    BY <1>2, <1>16 DEF Environment, Cancel, PodDeleting, PodDown, DeadlinePasses, Terminated, vars,
                       pluginVars, decVars, streamVars
  <1> QED
    BY <1>3, <1>4, <1>5, <1>6, <1>7, <1>8, <1>9, <1>10, <1>11, <1>12, <1>13, <1>14, <1>15, <1>16
    DEF Next, Plugin, Follow

\* A cancelled context stays cancelled.
LEMMA CancelledStays == ASSUME Next, cancelled PROVE cancelled'
  <1>1. CASE Plugin
    BY <1>1 DEF Plugin, ExecStart, ExecRefused, StreamBreaks, ExecReturns, Judge, Reattach,
                BackoffCancelled, ExecDone, Kill, KillFails, Deliver
  <1>2. CASE (\E p \in Procs : Run(p)) \/ Follow
    BY <1>2 DEF Run, CreateLog, StartSupervisor, RecordSupervisor, RecordPid, RunFails, Follow,
                FollowOpen, Drain, CheckDone, CheckAlive, RecheckDone, FollowFails, PodUnchanged,
                pluginVars
  <1>3. CASE Supervise \/ Command
    BY <1>3 DEF Supervise, Command, OpenLogFails, StartFails, StartCommand, CopyChunk,
        WaitReturns, Settle, Finish, WriteDone, SupervisorExits, SupervisorDies, CommandWrites,
        CommandExits, LeftoverExits, OutsideSup, pluginVars
  <1>4. CASE Environment \/ Terminated
    BY <1>4 DEF Environment, Cancel, PodDeleting, PodDown, DeadlinePasses, Terminated, vars,
                pluginVars
  <1> QED
    BY <1>1, <1>2, <1>3, <1>4 DEF Next

\* Every step keeps DecodeInv: the decoder consumes the log in order.
LEMMA DecodeInductive == ASSUME TypeOK, LogInv, StreamInv, DecodeInv, Next PROVE DecodeInv'
  <1> DEFINE Delivered(o, l) ==
        \A i \in 1 .. Len(o) : l[2 * i - 1] = Header(o[i].kind) /\ l[2 * i] = Payload(o[i].val)
  <1>0. log \in Seq(Unit) /\ Len(log) \in Nat
    BY DEF TypeOK, DirType
  <1>a. Len(out) \in Nat
    BY DEF TypeOK, DecoderType
  <1>b. Len(pending) \in Nat /\ Len(pending) <= 1 /\ (pending # <<>> => Len(pending) # 0)
    BY DEF TypeOK, DecoderType
  <1>c. offset \in Nat /\ dpos \in Nat /\ fpos \in Nat
    BY DEF TypeOK, DecoderType, StreamType
  <1>1. CASE UNCHANGED decVars
    <2>1. NoCorruption'
      BY <1>1, CancelledStays DEF decVars, DecodeInv, NoCorruption
    <2>2. CASE log' = log
      BY <1>1, <2>1, <2>2 DEF decVars, DecodeInv, ExactlyOnce
    <2>3. CASE /\ ~LogClosed /\ Len(log) <= Len(log')
               /\ \A i \in 1 .. Len(log) : log'[i] = log[i]
      <3>1. exit = NoCode
        BY <1>0, <2>3 DEF DecodeInv, LogInv
      <3>2. ExactlyOnce'
        <4> SUFFICES ASSUME ~decErr'
                     PROVE  /\ offset' <= Len(log')
                            /\ offset' = 2 * Len(out') + Len(pending')
                            /\ Delivered(out', log')
                            /\ pending' # <<>> => pending'[1] = log'[offset']
          BY <1>1, <3>1 DEF ExactlyOnce, decVars
        <4>1. /\ offset <= Len(log) /\ offset = 2 * Len(out) + Len(pending)
              /\ Delivered(out, log) /\ (pending # <<>> => pending[1] = log[offset])
          BY <1>1, <3>1 DEF ExactlyOnce, DecodeInv, decVars
        <4>2. Delivered(out, log')
          <5>1. \A i \in 1 .. Len(out) : 2 * i - 1 \in 1 .. Len(log) /\ 2 * i \in 1 .. Len(log)
            BY <1>0, <1>a, <1>b, <1>c, <4>1
          <5> QED
            BY <2>3, <4>1, <5>1
        <4>3. pending # <<>> => offset \in 1 .. Len(log)
          BY <1>0, <1>a, <1>b, <1>c, <4>1
        <4>4. offset <= Len(log')
          <5>1. Len(log') \in Nat
            BY DirKeepsType DEF DirType
          <5> QED
            BY <1>0, <1>c, <2>3, <4>1, <5>1
        <4> QED
          BY <1>1, <2>3, <4>1, <4>2, <4>3, <4>4 DEF decVars
      <3> QED
        BY <1>1, <2>1, <3>1, <3>2 DEF decVars, DecodeInv
    <2> QED
      BY <2>2, <2>3, LogOnlyGrows
  <1>2. CASE Deliver /\ ~UNCHANGED decVars
    <2> DEFINE u == log[offset + 1]
    <2>1. exit = NoCode /\ ~decErr /\ log' = log /\ cancelled' = cancelled
      BY <1>2, NothingAfterExit DEF Deliver, podVars, dirVars
    <2>2. dpos = offset /\ offset + 1 <= Len(log) /\ offset \in Nat
      BY <1>0, <1>c, <1>2, <2>1 DEF Deliver, StreamInv
    <2>3. offset = 2 * Len(out) + Len(pending) /\ (pending # <<>> => pending[1] = log[offset])
      BY <1>a, <1>b, <2>1 DEF DecodeInv, ExactlyOnce
    <2>4. PICK sent \in BOOLEAN : Decode(u, sent) /\ (~sent => cancelled)
      BY <1>2, <2>1, <2>2 DEF Deliver
    <2>5. \A i \in 1 .. Len(out) : log[2 * i - 1] = Header(out[i].kind)
                                   /\ log[2 * i] = Payload(out[i].val)
      BY <2>1 DEF DecodeInv, ExactlyOnce
    <2>6. CASE pending = <<>>
      <3>1. (offset + 1) % 2 = 1 /\ Len(pending) = 0
        BY <1>a, <2>2, <2>3, <2>6
      <3>2. u.part = "header"
        <4>1. u = Header(u.kind)
          BY <1>0, <2>2, <3>1 DEF LogInv
        <4> QED
          BY <4>1 DEF Header
      <3>3. pending' = <<u>> /\ offset' = offset + 1 /\ UNCHANGED <<out, exit>> /\ ~decErr'
        BY <2>1, <2>4, <2>6, <3>2 DEF Decode
      <3>4. Len(pending') = 1 /\ pending'[1] = u
        BY <3>3
      <3> HIDE DEF u
      <3>5. u = log[offset']
        BY <3>3 DEF u
      <3>6. ExactlyOnce'
        BY <1>0, <1>a, <2>1, <2>2, <2>3, <2>5, <3>1, <3>3, <3>4, <3>5 DEF ExactlyOnce
      <3> QED
        BY <2>1, <3>3, <3>6 DEF DecodeInv, NoCorruption
    <2>7. CASE pending # <<>>
      <3> DEFINE kind == log[offset].kind
      <3>1. Len(pending) = 1 /\ pending[1] = log[offset]
        <4>1. Len(pending) # 0 /\ pending[1] = log[offset]
          BY <1>b, <2>3, <2>7
        <4> QED
          BY <1>b, <4>1
      <3>2. offset % 2 = 1 /\ (offset + 1) % 2 = 0 /\ offset \in 1 .. Len(log)
            /\ offset + 1 \in 1 .. Len(log)
        BY <1>0, <1>a, <2>2, <2>3, <3>1
      <3>3. kind \in Streams \cup {"exit"} /\ log[offset] = Header(kind) /\ u = Payload(u.val)
        BY <3>2 DEF LogInv
      <3>4. u.val \in Nat
        <4>1. u \in Unit
          BY <1>0, <3>2
        <4> QED
          BY <4>1 DEF Unit
      <3>5. pending' = <<>>
        BY <2>4, <2>7 DEF Decode
      <3>6. Len(pending') = 0 /\ offset' = offset + 1
        BY <2>4, <2>7 DEF Decode
      <3>7. CASE kind = "exit"
        <4>1. offset' = Len(log)
          BY <1>0, <2>2, <3>2, <3>6, <3>7 DEF LogInv
        <4>2. out' = out /\ exit' = u.val /\ ~decErr'
          BY <2>4, <2>7, <3>1, <3>7 DEF Decode
        <4>3. exit' # NoCode
          BY <3>4, <4>2 DEF NoCode
        <4>4. ExactlyOnce'
          <5>1. offset' <= Len(log')
            BY <2>1, <2>2, <3>6
          <5>2. offset = 2 * Len(out) + 1
            BY <1>a, <2>3, <3>1
          <5>3. offset' = 2 * Len(out') + Len(pending') + 2
            BY <1>a, <3>6, <4>2, <5>2
          <5>4. Delivered(out', log')
            BY <2>1, <2>5, <4>2
          <5> QED
            BY <3>5, <4>3, <5>1, <5>3, <5>4 DEF ExactlyOnce
        <4>5. Len(log) >= 2 /\ log[Len(log) - 1].kind = "exit" /\ log[Len(log)].val = exit'
          BY <1>0, <2>2, <3>2, <3>6, <3>7, <4>1, <4>2
        <4> QED
          BY <2>1, <3>5, <4>1, <4>2, <4>4, <4>5 DEF DecodeInv, NoCorruption
      <3>8. CASE kind # "exit" /\ sent
        <4>1. out' = Append(out, [kind |-> kind, val |-> u.val]) /\ exit' = exit /\ ~decErr'
          BY <2>4, <2>7, <3>1, <3>8 DEF Decode
        <4>2. /\ Len(out') = Len(out) + 1
              /\ \A i \in 1 .. Len(out) : out'[i] = out[i]
              /\ out'[Len(out) + 1] = [kind |-> kind, val |-> u.val]
          BY <4>1 DEF TypeOK, DecoderType
        <4>3. offset = 2 * (Len(out) + 1) - 1 /\ offset + 1 = 2 * (Len(out) + 1)
          BY <1>a, <2>3, <3>1
        <4>4. out'[Len(out) + 1].kind = kind /\ out'[Len(out) + 1].val = u.val
          BY <4>2
        <4>5. ASSUME NEW i \in 1 .. Len(out')
              PROVE  log[2 * i - 1] = Header(out'[i].kind) /\ log[2 * i] = Payload(out'[i].val)
          <5>1. CASE i \in 1 .. Len(out)
            BY <2>5, <4>2, <5>1
          <5>2. CASE i = Len(out) + 1
            BY <3>3, <4>3, <4>4, <5>2
          <5> QED
            BY <1>a, <4>2, <5>1, <5>2
        <4>6. ExactlyOnce'
          <5>1. offset' <= Len(log')
            BY <2>1, <2>2, <3>6
          <5>2. offset = 2 * Len(out) + 1
            BY <1>a, <2>3, <3>1
          <5>3. offset' = 2 * Len(out') + Len(pending')
            BY <1>a, <3>6, <4>2, <5>2
          <5>4. Delivered(out', log')
            BY <2>1, <4>5
          <5> QED
            BY <2>1, <3>5, <4>1, <5>1, <5>3, <5>4 DEF ExactlyOnce
        <4> QED
          BY <2>1, <3>5, <4>1, <4>6 DEF DecodeInv, NoCorruption
      <3>9. CASE kind # "exit" /\ ~sent
        <4>1. decErr' /\ exit' = exit
          BY <2>4, <2>7, <3>1, <3>9 DEF Decode
        <4> QED
          BY <2>1, <2>4, <3>5, <3>9, <4>1 DEF DecodeInv, NoCorruption, ExactlyOnce
      <3> QED
        BY <3>7, <3>8, <3>9
    <2> QED
      BY <2>6, <2>7
  <1> QED
    BY <1>1, <1>2, OnlyDeliverDecodes

---------------------------------------------------------------------------
(* The done file and the follower.                                         *)

\* An action that leaves the log alone keeps DoneInv if it neither claims that the
\* step is done nor revives the supervisor.
LEMMA DoneFrame ==
    ASSUME DoneInv, UNCHANGED <<log, lerr>>, logged => logged',
           doneFile' = "ok" => doneFile = "ok", sup' = "record" => sup = "record",
           sup \in {"drain", "gone"} => sup' \in {"drain", "gone"},
           \A p \in Procs : pc'[p] \notin {"none", "run"} => pc[p] \notin {"none", "run"} \/ logged'
    PROVE  DoneInv'
  BY DEF DoneInv, ExitLogged

\* Every step keeps DoneInv: the exit record is written before the done file.
LEMMA DoneInductive ==
    ASSUME TypeOK, StartInv, LogInv, StreamInv, DecodeInv, DoneInv, Next PROVE DoneInv'
  <1>0. pc \in [Procs -> {"none", "run", "created", "spawned", "recorded", "follow"}]
        /\ Len(log) \in Nat /\ log \in Seq(Unit)
    BY DEF TypeOK, DirType
  <1>1. ASSUME UNCHANGED <<pc, dirVars, sup, lerr>> PROVE DoneInv'
    BY <1>1, DoneFrame DEF dirVars
  <1>2. ASSUME NEW p \in Procs, ExecStart(p) PROVE DoneInv'
    <2>1. before # 0 => logged
      <3>1. before = offset /\ offset <= Len(log) /\ offset \in Nat
        BY <1>2 DEF ExecStart, StreamInv, DecodeInv, ExactlyOnce, TypeOK, DecoderType
      <3> QED
        BY <1>0, <3>1 DEF DoneInv
    <2> QED
      BY <1>0, <1>2, <2>1, DoneFrame DEF ExecStart, dirVars, supVars
  <1>3. CASE StreamBreaks \/ ExecReturns
    BY <1>3, DoneFrame DEF StreamBreaks, ExecReturns, Disconnect, dirVars, supVars
  <1>4. CASE Kill
    BY <1>4, DoneFrame DEF Kill, KillTree, SupLive
  <1>5. CASE ExecRefused \/ Judge \/ Reattach \/ BackoffCancelled \/ ExecDone \/ KillFails \/ Deliver
    BY <1>1, <1>5 DEF ExecRefused, Judge, Reattach, BackoffCancelled, ExecDone, KillFails, Deliver,
                      podVars, dirVars, supVars
  <1>6. ASSUME NEW p \in Procs, Run(p) PROVE DoneInv'
    <2>1. CASE CreateLog(p)
      BY <1>0, <2>1, DoneFrame DEF CreateLog, BecomeFollower, supVars
    <2>2. CASE StartSupervisor(p)
      BY <1>0, <2>2, DoneFrame DEF StartSupervisor, StartInv, dirVars
    <2>3. CASE RecordSupervisor(p) \/ RunFails(p)
      BY <1>0, <2>3, DoneFrame DEF RecordSupervisor, RunFails, dirVars, supVars
    <2>4. CASE RecordPid(p)
      <3>1. logged
        BY <2>4 DEF RecordPid, DoneInv
      <3> QED
        BY <1>0, <2>4, <3>1, DoneFrame DEF RecordPid, BecomeFollower, supVars
    <2> QED
      BY <1>6, <2>1, <2>2, <2>3, <2>4 DEF Run
  <1>7. CASE Follow
    BY <1>1, <1>7 DEF Follow, FollowOpen, Drain, CheckDone, CheckAlive, RecheckDone, FollowFails,
                      PodUnchanged, podVars, dirVars, supVars
  <1>8. CASE StartFails
    BY <1>8 DEF StartFails, OutsideSup, StartInv, DoneInv
  <1>9. ASSUME NEW k \in Streams, CopyChunk(k) PROVE DoneInv'
    <2>1. CASE UNCHANGED <<log, lerr>>
      BY <1>9, <2>1, DoneFrame DEF CopyChunk, OutsideSup
    <2>2. CASE ~UNCHANGED <<log, lerr>>
      <3>1. LogOpen
        BY <1>9, <2>2 DEF CopyChunk
      <3> QED
        BY <1>9, <3>1 DEF CopyChunk, LogOpen, OutsideSup, StartInv, DoneInv
    <2> QED
      BY <2>1, <2>2
  <1>10. CASE Finish
    <2>1. code \in Nat
      BY <1>10 DEF Finish, LogInv
    <2>2. ~lerr' => log' = log \o AppendFrame("exit", code)
      BY <1>10 DEF Finish, WriteLog, ExitFrame, TypeOK, SupervisorType
    <2>3. ~lerr' => ExitLogged'
      <3>1. LET l == log \o AppendFrame("exit", code) IN
            Len(l) = Len(log) + 2 /\ l[Len(log) + 1] = Header("exit")
        BY <1>0, <2>1, LogGrows
      <3>2. Header("exit").kind = "exit"
        BY DEF Header
      <3>3. ASSUME ~lerr' PROVE Len(log') >= 2 /\ Len(log') - 1 = Len(log) + 1
                                /\ log'[Len(log) + 1].kind = "exit"
        BY <1>0, <2>2, <3>1, <3>2, <3>3
      <3> QED
        BY <3>3 DEF ExitLogged
    <2> QED
      BY <1>10, <2>3 DEF Finish, OutsideSup, StartInv, DoneInv
  <1>11. CASE WriteDone
    BY <1>11 DEF WriteDone, OutsideSup, StartInv, DoneInv, ExitLogged
  <1>12. CASE OpenLogFails \/ StartCommand \/ WaitReturns \/ Settle \/ SupervisorExits
              \/ SupervisorDies
    BY <1>12, DoneFrame DEF OpenLogFails, StartCommand, WaitReturns, Settle, SupervisorExits,
        SupervisorDies, OutsideSup
  <1>13. CASE Command
    <2>1. UNCHANGED <<pc, logged, log, doneFile, sup, lerr>>
      BY <1>13 DEF Command, CommandWrites, CommandExits, LeftoverExits, OutsideSup
    <2> QED
      BY <2>1, DoneFrame
  <1>14. CASE PodDown
    BY <1>14, DoneFrame DEF PodDown, SupLive, dirVars
  <1>15. CASE Cancel \/ PodDeleting \/ DeadlinePasses \/ Terminated
    BY <1>1, <1>15 DEF Cancel, PodDeleting, DeadlinePasses, Terminated, vars, podVars, dirVars,
                       supVars
  <1> QED
    BY <1>2, <1>3, <1>4, <1>5, <1>6, <1>7, <1>8, <1>9, <1>10, <1>11, <1>12, <1>13, <1>14, <1>15
    DEF Next, Plugin, Supervise, Environment

\* A decoder that consumed a log with an exit record has the exit code.
LEMMA DecodedExit ==
    ASSUME TypeOK, LogInv, DecodeInv, FollowInv, ExitLogged, offset = Len(log), ~decErr
    PROVE  exit # NoCode
  <1> SUFFICES ASSUME exit = NoCode PROVE FALSE
    OBVIOUS
  <1>1. Len(log) \in Nat /\ Len(out) \in Nat /\ Len(log) >= 2 /\ log[Len(log) - 1].kind = "exit"
    BY DEF TypeOK, DirType, DecoderType, ExitLogged
  <1>2. Len(log) = 2 * Len(out) + Len(pending)
    BY DEF DecodeInv, ExactlyOnce
  <1>3. \A i \in 1 .. Len(out) : log[2 * i - 1] = Header(out[i].kind)
    BY DEF DecodeInv, ExactlyOnce
  <1>4. CASE Len(pending) = 0
    <2>1. Len(out) \in 1 .. Len(out) /\ 2 * Len(out) - 1 = Len(log) - 1
      BY <1>1, <1>2, <1>4
    <2>2. log[Len(log) - 1] = Header(out[Len(out)].kind)
      BY <1>3, <2>1
    <2> QED
      BY <1>1, <2>1, <2>2 DEF Header, FollowInv
  <1>5. CASE Len(pending) = 1
    <2>1. (Len(log) - 1) % 2 = 0 /\ Len(log) - 1 \in 1 .. Len(log)
      BY <1>1, <1>2, <1>5
    <2>2. log[Len(log) - 1] = Payload(log[Len(log) - 1].val)
      BY <2>1 DEF LogInv
    <2> QED
      BY <1>1, <2>2 DEF Payload
  <1>6. Len(pending) \in Nat /\ Len(pending) <= 1
    BY DEF TypeOK, DecoderType
  <1>7. \A n \in Nat : n <= 1 => n = 0 \/ n = 1
    OBVIOUS
  <1>8. Len(pending) = 0 \/ Len(pending) = 1
    BY <1>6, <1>7, Zenon
  <1> QED
    BY <1>4, <1>5, <1>8

\* Once the done file says that the log is complete, neither of them changes.
LEMMA CompleteStays ==
    ASSUME StartInv, DoneInv, Next, doneFile = "ok" PROVE doneFile' = "ok" /\ log' = log
  <1>1. sup \in {"drain", "gone"}
    BY DEF DoneInv
  <1>2. CASE Plugin
    BY <1>2 DEF Plugin, ExecStart, ExecRefused, StreamBreaks, ExecReturns, Judge, Reattach,
        BackoffCancelled, ExecDone, Kill, KillFails, Deliver, podVars, dirVars
  <1>3. CASE (\E p \in Procs : Run(p)) \/ Follow
    BY <1>3 DEF Run, CreateLog, StartSupervisor, RecordSupervisor, RecordPid, RunFails, Follow,
                FollowOpen, Drain, CheckDone, CheckAlive, RecheckDone, FollowFails, PodUnchanged,
                podVars, dirVars
  <1>4. CASE Supervise \/ Command
    BY <1>1, <1>4 DEF Supervise, Command, OpenLogFails, StartFails, StartCommand, CopyChunk, LogOpen,
        WaitReturns, Settle, Finish, WriteDone, SupervisorExits, SupervisorDies, CommandWrites,
        CommandExits, LeftoverExits
  <1>5. CASE Environment \/ Terminated
    BY <1>5 DEF Environment, Cancel, PodDeleting, PodDown, DeadlinePasses, Terminated, vars,
                podVars, dirVars
  <1> QED
    BY <1>2, <1>3, <1>4, <1>5 DEF Next

\* The decoder hands out no exit record as output.
LEMMA OutIsOutput ==
    ASSUME TypeOK, StreamInv, DecodeInv, FollowInv, Next
    PROVE  \A i \in 1 .. Len(out') : out'[i].kind # "exit"
  <1>0. out \in Seq([kind : Kinds, val : Nat]) /\ log \in Seq(Unit) /\ pending \in Seq(Unit)
    BY DEF TypeOK, DecoderType, DirType
  <1>1. CASE UNCHANGED out
    BY <1>1 DEF FollowInv
  <1>2. CASE out' # out
    <2>1. Deliver
      BY <1>2, OnlyDeliverDecodes DEF decVars
    <2>2. PICK sent \in BOOLEAN : Decode(log[dpos + 1], sent)
      BY <1>2, <2>1 DEF Deliver, decVars
    <2> DEFINE f == [kind |-> pending[1].kind, val |-> log[dpos + 1].val]
    <2>3. out' = Append(out, f) /\ pending[1].kind # "exit"
      BY <1>2, <2>2 DEF Decode
    <2>4. f.kind # "exit"
      BY <2>3
    <2> HIDE DEF f
    <2>5. Len(out') = Len(out) + 1 /\ out'[Len(out) + 1] = f
          /\ \A i \in 1 .. Len(out) : out'[i] = out[i]
      BY <1>0, <2>3
    <2>6. Len(out) \in Nat
      BY <1>0
    <2>7. \A i \in 1 .. Len(out) : out[i].kind # "exit"
      BY DEF FollowInv
    <2> QED
      BY <2>4, <2>5, <2>6, <2>7
  <1> QED
    BY <1>1, <1>2

\* Every step keeps FollowInv: follow reads the done file before its last drain.
LEMMA FollowInductive ==
    ASSUME TypeOK, StartInv, LogInv, StreamInv, DecodeInv, DoneInv, FollowInv, Next
    PROVE  FollowInv'
  <1>1. \A i \in 1 .. Len(out') : out'[i].kind # "exit"
    BY OutIsOutput
  <1>2. doneFile = "ok" => doneFile' = "ok" /\ log' = log
    BY CompleteStays
  <1>3. ASSUME UNCHANGED <<streamVars, ppc, err>>, ppc # "judge" \/ UNCHANGED decVars
        PROVE FollowInv'
    BY <1>1, <1>2, <1>3 DEF streamVars, decVars, FollowInv
  <1>4. ASSUME ppc' \notin {"exec", "judge"}, fst' = fst, hstat' = hstat \/ hstat' = NoCode
        PROVE FollowInv'
    BY <1>1, <1>2, <1>4 DEF FollowInv, NoCode, ExitNoLog
  <1>5. ASSUME NEW p \in Procs, ExecStart(p) PROVE FollowInv'
    BY <1>1, <1>2, <1>5 DEF ExecStart, FollowInv, NoCode, ExitNoLog
  <1>6. CASE ExecRefused
    BY <1>1, <1>2, <1>6 DEF ExecRefused, BreakErrors, streamVars, FollowInv
  <1>7. CASE StreamBreaks
    BY <1>1, <1>7 DEF StreamBreaks, BreakErrors, Disconnect, FollowInv, NoCode, ExitNoLog
  <1>8. CASE ExecReturns
    <2>1. ASSUME hstat = 0, ~decErr PROVE exit # NoCode
      <3>1. fst = "final" /\ fpos = Len(log) /\ ExitLogged
        BY <1>8, <2>1 DEF ExecReturns, FollowInv, DoneInv
      <3>2. offset = Len(log)
        BY <1>8, <2>1, <3>1 DEF ExecReturns, StreamInv
      <3> QED
        BY <2>1, <3>1, <3>2, DecodedExit
    <2>2. hstat' = hstat /\ exit' = exit /\ decErr' = decErr /\ fst' = "open" /\ ppc' = "judge"
      BY <1>8 DEF ExecReturns, Disconnect, decVars
    <2> QED
      BY <1>1, <2>1, <2>2 DEF FollowInv
  <1>9. CASE Judge
    BY <1>4, <1>9 DEF Judge, Return, Again
  <1>10. CASE Reattach \/ BackoffCancelled \/ ExecDone \/ Kill \/ KillFails
    BY <1>4, <1>10 DEF Reattach, BackoffCancelled, Return, ExecDone, Kill, KillFails, streamVars
  <1>11. CASE Deliver
    BY <1>1, <1>2, <1>11 DEF Deliver, FollowInv
  <1>12. ASSUME NEW p \in Procs, Run(p) PROVE FollowInv'
    <2>1. CASE RunFails(p)
      BY <1>1, <1>2, <2>1 DEF RunFails, FollowInv, ExitNoLog, pluginVars, decVars
    <2>2. CASE ~RunFails(p)
      BY <1>3, <1>12, <2>2 DEF Run, CreateLog, StartSupervisor, RecordSupervisor, RecordPid,
                               pluginVars
    <2> QED
      BY <2>1, <2>2
  <1>13. CASE Follow
    <2>0. UNCHANGED <<pluginVars, decVars, dirVars>> /\ ppc = "exec" /\ hstat = NoCode
      <3>1. Following
        BY <1>13 DEF Follow, FollowOpen, Drain, CheckDone, CheckAlive, RecheckDone, FollowFails
      <3> QED
        BY <1>13, <3>1 DEF Follow, FollowOpen, Drain, CheckDone, CheckAlive, RecheckDone, FollowFails,
                    PodUnchanged, podVars, Following, StreamInv
    <2> USE <1>1, <1>2, <2>0 DEF pluginVars, decVars, dirVars, NoCode, ExitNoLog, FollowInv
    <2>1. CASE FollowOpen
      <3>1. logged
        BY <2>1 DEF FollowOpen, Following, DoneInv, TypeOK, StreamType
      <3>2. before <= Len(log)
        BY <2>1 DEF FollowOpen, StreamInv, DecodeInv, ExactlyOnce
      <3> QED
        BY <2>1, <3>1, <3>2 DEF FollowOpen
    <2>2. CASE Drain
      BY <2>2 DEF Drain, DrainedTo, ExitIncomplete, ExitSupervisorGone
    <2>3. CASE CheckDone
      BY <2>3 DEF CheckDone, Move, NextPoll
    <2>4. CASE CheckAlive \/ RecheckDone
      BY <2>4 DEF CheckAlive, RecheckDone, Move, NextPoll
    <2>5. CASE FollowFails
      BY <2>5 DEF FollowFails, Leave
    <2> QED
      BY <1>13, <2>1, <2>2, <2>3, <2>4, <2>5 DEF Follow
  <1>14. CASE Supervise
    BY <1>3, <1>14 DEF Supervise, OpenLogFails, StartFails, StartCommand, CopyChunk,
        WaitReturns, Settle, Finish, WriteDone, SupervisorExits, SupervisorDies, OutsideSup,
        pluginVars
  <1>15. CASE Command
    BY <1>3, <1>15 DEF Command, CommandWrites, CommandExits, LeftoverExits, OutsideSup, pluginVars
  <1>16. CASE Environment \/ Terminated
    BY <1>3, <1>16 DEF Environment, Cancel, PodDeleting, PodDown, DeadlinePasses, Terminated, vars,
                pluginVars
  <1> QED
    BY <1>5, <1>6, <1>7, <1>8, <1>9, <1>10, <1>11, <1>12, <1>13, <1>14, <1>15, <1>16
    DEF Next, Plugin

---------------------------------------------------------------------------
(* Exec's result.                                                          *)

\* Every step keeps ResultInv: runStep's verdict is the decoder's or the follower's.
LEMMA ResultInductive ==
    ASSUME TypeOK, StreamInv, DecodeInv, FollowInv, ResultInv, Next PROVE ResultInv'
  <1>1. exit # NoCode => exit' = exit
    BY OnlyDeliverDecodes, NothingAfterExit DEF decVars
  <1>2. ASSUME UNCHANGED result PROVE ResultInv'
    BY <1>1, <1>2 DEF ResultInv, FollowIsComplete
  <1>3. CASE Judge
    <2>1. UNCHANGED decVars
      BY <1>3 DEF Judge
    <2>2. exit = NoCode /\ ~decErr /\ err = "nil" => hstat \notin {0, ExitNoLog}
      BY <1>3 DEF Judge, FollowInv
    <2> QED
      BY <1>2, <1>3, <2>1, <2>2 DEF Judge, Return, Again, Verdict, NoRecord, decVars, ResultInv,
                                    FollowIsComplete
  <1>4. CASE BackoffCancelled \/ Kill \/ KillFails
    BY <1>4 DEF BackoffCancelled, Return, Kill, KillFails, Verdict, ResultInv, FollowIsComplete
  <1>5. CASE Plugin /\ ~Judge /\ ~BackoffCancelled /\ ~Kill /\ ~KillFails
    BY <1>2, <1>5 DEF Plugin, ExecStart, ExecRefused, StreamBreaks, ExecReturns, Reattach, ExecDone,
                      Deliver
  <1>6. CASE (\E p \in Procs : Run(p)) \/ Follow
    BY <1>2, <1>6 DEF Run, CreateLog, StartSupervisor, RecordSupervisor, RecordPid, RunFails, Follow,
                FollowOpen, Drain, CheckDone, CheckAlive, RecheckDone, FollowFails, PodUnchanged,
                pluginVars
  <1>7. CASE Supervise \/ Command
    BY <1>2, <1>7 DEF Supervise, Command, OpenLogFails, StartFails, StartCommand, CopyChunk,
        WaitReturns, Settle, Finish, WriteDone, SupervisorExits, SupervisorDies, CommandWrites,
        CommandExits, LeftoverExits, OutsideSup, pluginVars
  <1>8. CASE Environment \/ Terminated
    BY <1>2, <1>8 DEF Environment, Cancel, PodDeleting, PodDown, DeadlinePasses, Terminated, vars,
                pluginVars
  <1> QED
    BY <1>3, <1>4, <1>5, <1>6, <1>7, <1>8 DEF Next

---------------------------------------------------------------------------
(* The theorems.                                                           *)

\* The invariant holds when Exec is called.
LEMMA InitInv == ASSUME Init PROVE Inv
  <1>1. TypeOK
    BY InitType
  <1>2. StartInv
    BY DEF Init, StartInv
  <1>3. Len(log) = 0 /\ Len(out) = 0 /\ Len(pending) = 0 /\ pending = <<>>
    BY DEF Init
  <1>4. LogInv
    BY <1>3 DEF Init, LogInv
  <1>5. StreamInv
    BY <1>3 DEF Init, StreamInv
  <1>6. DecodeInv
    BY <1>3 DEF Init, DecodeInv, ExactlyOnce, NoCorruption
  <1>7. ResultInv
    BY DEF Init, ResultInv, FollowIsComplete, Verdict
  <1>8. DoneInv
    BY <1>3 DEF Init, DoneInv
  <1>9. FollowInv
    BY <1>3 DEF Init, FollowInv, NoCode, ExitNoLog
  <1> QED
    BY <1>1, <1>2, <1>4, <1>5, <1>6, <1>7, <1>8, <1>9 DEF Inv

\* The invariant holds on when nothing changes.
LEMMA StutterInv == ASSUME Inv, UNCHANGED vars PROVE Inv'
  <1> USE DEF Inv, vars, podVars
  <1>1. TypeOK'
    BY PluginTypeUnchanged, DecoderTypeUnchanged, StreamTypeUnchanged, DirTypeUnchanged,
       SupervisorTypeUnchanged DEF TypeOK
  <1>2. StartInv'
    BY StartUnchanged DEF dirVars, supVars
  <1>3. LogInv'
    BY DEF LogInv, LogClosed, dirVars, supVars
  <1>4. StreamInv'
    BY DEF StreamInv, pluginVars, decVars, streamVars, dirVars
  <1>5. DecodeInv'
    BY DEF DecodeInv, ExactlyOnce, NoCorruption, pluginVars, decVars, dirVars
  <1>6. ResultInv'
    BY DEF ResultInv, FollowIsComplete, pluginVars, decVars
  <1>7. DoneInv'
    BY DEF DoneInv, ExitLogged, dirVars, supVars
  <1>8. FollowInv'
    BY DEF FollowInv, pluginVars, decVars, streamVars, dirVars
  <1> QED
    BY <1>1, <1>2, <1>3, <1>4, <1>5, <1>6, <1>7, <1>8

\* The invariant is inductive: every step of the plugin, the helper, the
\* supervisor, the command and the environment preserves it.
THEOREM Invariance == Spec => []Inv
  <1>1. Init => Inv
    BY InitInv
  <1>2. Inv /\ [Next]_vars => Inv'
    <2>1. ASSUME Inv, Next PROVE Inv'
      <3>1. TypeOK'
        BY <2>1, PluginKeepsType, DecoderKeepsType, StreamKeepsType, DirKeepsType,
           SupervisorKeepsType DEF Inv, TypeOK
      <3> QED
        BY <2>1, <3>1, StartInductive, LogInductive, StreamInductive, DecodeInductive,
           DoneInductive, FollowInductive, ResultInductive DEF Inv
    <2> QED
      BY <2>1, StutterInv
  <1> QED
    BY <1>1, <1>2, PTL DEF Spec

\* Type correctness of the whole Exec RPC (runStep, Decoder, run, follow and
\* supervise), for any number of processes, chunks and exit codes.
THEOREM TypeCorrect == Spec => []TypeOK
  <1>1. Inv => TypeOK
    BY DEF Inv
  <1> QED
    BY <1>1, Invariance, PTL

\* However many `run` requests reach the pod, and however late, the command is
\* started at most once (helper.go: the log is created with O_EXCL).
THEOREM StepStartsOnce == Spec => []StartedOnce
  <1>1. Inv => StartedOnce
    BY DEF Inv, StartInv, StartedOnce
  <1> QED
    BY <1>1, Invariance, PTL

\* Across any number of broken and resumed streams the runner is sent the log's
\* frames in order, each exactly once (runStep's dec.Offset, Decoder.Write).
THEOREM DeliveredExactlyOnce == Spec => []ExactlyOnce
  <1>1. Inv => ExactlyOnce
    BY DEF Inv, DecodeInv
  <1> QED
    BY <1>1, Invariance, PTL

\* The log written by the helper never makes the decoder fail, torn writes and
\* resumed streams included: a decoding error means that the runner hung up.
THEOREM DecoderNeverCorrupt == Spec => []NoCorruption
  <1>1. Inv => NoCorruption
    BY DEF Inv, DecodeInv
  <1> QED
    BY <1>1, Invariance, PTL

\* runStep reports an exit code only when the supervisor recorded that code,
\* after the whole log was delivered (frameLog.finish, Decoder.Exit).
THEOREM ExitCodeIsReal == Spec => []ExitIsReal
  <1>1. Inv => ExitIsReal
    <2> SUFFICES ASSUME Inv, result.kind = "exit" PROVE ExitIsReal
      BY DEF ExitIsReal
    <2>1. Len(log) \in Nat
      BY DEF Inv, TypeOK, DirType
    <2>2. /\ result.code = exit /\ Len(log) >= 2 /\ log[Len(log) - 1].kind = "exit"
          /\ log[Len(log)].val = exit /\ offset = Len(log)
      BY DEF Inv, ResultInv, DecodeInv
    <2>3. LogClosed /\ log[(Len(log) - 1) + 1].val = code
      BY <2>1, <2>2 DEF Inv, LogInv
    <2>4. (Len(log) - 1) + 1 = Len(log)
      BY <2>1
    <2> QED
      BY <2>2, <2>3, <2>4 DEF LogClosed, ExitIsReal
  <1> QED
    BY <1>1, Invariance, PTL

\* A follower that reports a complete log (status 0) has delivered the exit record,
\* and a resumed follower is never asked for more than the log holds (follow reads
\* the done file before its last drain; runStep resumes at dec.Offset).
THEOREM FollowTellsTheTruth == Spec => []FollowIsComplete
  <1>1. Inv => FollowIsComplete
    BY DEF Inv, ResultInv
  <1> QED
    BY <1>1, Invariance, PTL
============================================================================
