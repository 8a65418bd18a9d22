------------------------ MODULE PodReadinessProofs ------------------------
(* The inductive invariant of PodReadiness and what follows from it for    *)
(* pods of any shape and limits of any size.                               *)
EXTENDS PodReadiness, TLAPS

\* A container that exited and was not restarted has exited more often than it
\* was restarted.
CountInv ==
    \A c \in Containers :
      /\ restarts[c] <= exits[c]
      /\ st[c] \in {"exited", "crashloop"} => restarts[c] < exits[c]

\* A container that is not restarted is in no crash loop, so that pullErrSince is
\* set for it exactly as long as every poll saw the error.
PullInv ==
    \A c \in Containers :
      /\ st[c] = "none" => pullErrSince[c] = NotSeen /\ streak[c] = NotSeen
      /\ c \notin Sidecars => st[c] # "crashloop" /\ pullErrSince[c] = streak[c]

\* What a verdict says, and that there is none before WaitReady returns.
VerdictInv ==
    /\ wpc # "done" => result.kind = "none"
    /\ BlamesRepeatOffenders
    /\ HiccupsForgiven

Inv == TypeOK /\ CountInv /\ PullInv /\ VerdictInv

USE PodReadinessAssumption DEF Containers

\* The types hold when WaitReady is called.
LEMMA InitType == ASSUME Init PROVE TypeOK
  BY DEF Init, TypeOK, Waits, States, Ages, NotSeen

\* Looking at the pod, and waiting, keep ages within their range.
LEMMA AgesStay ==
    ASSUME TypeOK, NEW c \in Containers
    PROVE  /\ FirstSeen(c) \in Ages /\ Older(pullErrSince[c]) \in Ages
           /\ Older(streak[c]) \in Ages
  BY DEF TypeOK, Ages, FirstSeen, Older, NotSeen

\* Every failure that assess finds is a verdict on a container.
LEMMA FailureType ==
    ASSUME NEW f \in Failures
    PROVE  /\ f \in [kind : {"ended", "pull", "start", "exit"}, container : Containers]
           /\ f.kind = "pull" => PullFailed(f.container)
           /\ f.kind = "start" => StartFailed(f.container)
           /\ f.kind = "exit" => ExitFailed(f.container)
  BY DEF Failures

\* Every step keeps the types of WaitReady's locals and of the pod.
LEMMA TypeInductive == ASSUME TypeOK, Next PROVE TypeOK'
  <1> USE DEF TypeOK
  <1>1. CASE Poll
    <2>1. pullErrSince' \in [Containers -> Ages]
      BY <1>1, AgesStay DEF Poll
    <2>2. streak' \in [Containers -> Ages]
      BY <1>1 DEF Poll, Observe, Ages
    <2>3. wpc' \in {"list", "wait", "done"}
          /\ result' \in [kind : {"none", "ready", "notready", "ended", "pull", "start", "exit"},
                          container : Containers]
      BY <1>1, FailureType DEF Poll, Returns
    <2> QED
      BY <1>1, <2>1, <2>2, <2>3 DEF Poll, podVars
  <1>2. CASE ListFails
    BY <1>2 DEF ListFails, podVars
  <1>3. CASE Tick
    BY <1>3, AgesStay DEF Tick, podVars
  <1>4. CASE NotReady
    BY <1>4 DEF NotReady, Returns, podVars
  <1>5. CASE Expire
    BY <1>5 DEF Expire, podVars
  <1>6. CASE PodCreated \/ PodEnds
    BY <1>6 DEF PodCreated, PodEnds
  <1>7. ASSUME NEW c \in Containers, Kubelet(c) PROVE TypeOK'
    <2>1. PICK s \in NextStates(c) :
            /\ st' = [st EXCEPT ![c] = s]
            /\ exits' = [exits EXCEPT ![c] = IF s = "exited" THEN @ + 1 ELSE @]
            /\ restarts' = [restarts EXCEPT ![c] = IF s = "running" THEN exits[c] ELSE @]
            /\ phase' = IF c \in {Main} \cup Extras /\ s = "running" THEN "Running" ELSE phase
      BY <1>7 DEF Kubelet
    <2>2. s \in States
      BY DEF NextStates, States
    <2> QED
      BY <1>7, <2>1, <2>2 DEF Kubelet
  <1>8. CASE Terminated
    BY <1>8 DEF Terminated, vars, podVars
  <1> QED
    BY <1>1, <1>2, <1>3, <1>4, <1>5, <1>6, <1>7, <1>8 DEF Next

\* Every step keeps CountInv: RestartCount is the number of exits when a container
\* runs again.
LEMMA CountInductive == ASSUME TypeOK, CountInv, Next PROVE CountInv'
  <1>1. CASE UNCHANGED <<st, restarts, exits>>
    BY <1>1 DEF CountInv
  <1>2. ASSUME NEW c \in Containers, Kubelet(c) PROVE CountInv'
    <2>1. PICK s \in NextStates(c) :
            /\ st' = [st EXCEPT ![c] = s]
            /\ exits' = [exits EXCEPT ![c] = IF s = "exited" THEN @ + 1 ELSE @]
            /\ restarts' = [restarts EXCEPT ![c] = IF s = "running" THEN exits[c] ELSE @]
      BY <1>2 DEF Kubelet
    <2>2. s = "crashloop" => st[c] = "exited"
      BY DEF NextStates
    <2> QED
      BY <2>1, <2>2 DEF CountInv, TypeOK
  <1> QED
    BY <1>1, <1>2 DEF Next, Poll, ListFails, Tick, NotReady, Expire, PodCreated, PodEnds, Terminated,
                      vars, podVars

\* Every step keeps PullInv: pullErrSince and the history of polls move together.
LEMMA PullInductive == ASSUME TypeOK, PullInv, Next PROVE PullInv'
  <1>1. CASE Poll
    <2>1. CASE phase = "absent"
      BY <1>1, <2>1 DEF Poll, podVars, PullInv
    <2>2. CASE phase # "absent"
      BY <1>1, <2>2 DEF Poll, Observe, FirstSeen, podVars, PullInv, TypeOK
    <2> QED
      BY <2>1, <2>2
  <1>2. CASE Tick
    BY <1>2 DEF Tick, Older, podVars, PullInv, TypeOK
  <1>3. CASE UNCHANGED <<st, pullErrSince, streak>>
    BY <1>3 DEF PullInv
  <1>4. ASSUME NEW c \in Containers, Kubelet(c) PROVE PullInv'
    <2>1. PICK s \in NextStates(c) : st' = [st EXCEPT ![c] = s]
      BY <1>4 DEF Kubelet
    <2>2. s # "none" /\ (s = "crashloop" => c \in Sidecars)
      BY DEF NextStates
    <2> QED
      BY <1>4, <2>1, <2>2 DEF Kubelet, PullInv, TypeOK
  <1> QED
    BY <1>1, <1>2, <1>3, <1>4 DEF Next, ListFails, NotReady, Expire, PodCreated, PodEnds, Terminated,
                                  vars, podVars

\* Every step keeps VerdictInv: a verdict is what assess saw, and the counts and
\* ages it saw are those of the history.
LEMMA VerdictInductive ==
    ASSUME TypeOK, CountInv, PullInv, VerdictInv, Next, PullInv' PROVE VerdictInv'
  <1> USE DEF VerdictInv
  <1>1. ASSUME result'.kind \in {"none", "ready", "notready", "ended"},
               wpc' # "done" => result'.kind = "none"
        PROVE VerdictInv'
    BY <1>1 DEF BlamesRepeatOffenders, HiccupsForgiven, PullVerdictEarned
  <1>2. ASSUME wpc # "done", UNCHANGED result PROVE VerdictInv'
    BY <1>1, <1>2
  <1>3. ASSUME NEW f \in Failures, Poll, Returns(f) PROVE VerdictInv'
    <2> DEFINE c == f.container
    <2>1. /\ result' = f /\ wpc' = "done" /\ c \in Containers /\ UNCHANGED <<st, restarts, exits>>
          /\ phase = "absent" => FALSE
      BY <1>3, FailureType DEF Poll, Returns, podVars
    <2>2. ASSUME ~Tolerated(c), c \in Sidecars, st[c] \in {"exited", "crashloop"}
          PROVE exits[c] > SidecarRestartLimit
      BY <2>1, <2>2 DEF Tolerated, CountInv, TypeOK
    <2>3. ASSUME st[c] = "exited" PROVE exits[c] > 0
      BY <2>1, <2>3 DEF CountInv, TypeOK
    <2>4. st[c] = "crashloop" => c \in Sidecars
      BY <2>1 DEF PullInv
    <2>5. BlamesRepeatOffenders'
      BY <2>1, <2>2, <2>3, <2>4, FailureType DEF BlamesRepeatOffenders, StartFailed, ExitFailed
    <2>6. ASSUME f.kind = "pull", st[c] = "pullerr", c \notin Sidecars
          PROVE  streak'[c] >= PullFailAfter
      <3>1. FirstSeen(c) >= PullFailAfter
        BY <2>6, FailureType DEF PullFailed
      <3>2. pullErrSince'[c] = FirstSeen(c)
        BY <1>3, <2>1 DEF Poll
      <3>3. pullErrSince'[c] = streak'[c]
        BY <2>1, <2>6 DEF PullInv
      <3> QED
        BY <3>1, <3>2, <3>3
    <2>7. HiccupsForgiven'
      BY <2>1, <2>6 DEF HiccupsForgiven, PullVerdictEarned
    <2> QED
      BY <2>1, <2>5, <2>7
  <1>4. CASE Poll
    <2>1. wpc # "done"
      BY <1>4 DEF Poll
    <2> QED
      BY <1>1, <1>2, <1>3, <1>4, <2>1 DEF Poll, Returns
  <1>5. CASE NotReady
    BY <1>1, <1>5 DEF NotReady, Returns
  <1>6. CASE ListFails \/ Tick \/ Expire \/ PodCreated \/ PodEnds
    BY <1>2, <1>6 DEF ListFails, Tick, Expire, PodCreated, PodEnds
  <1>7. ASSUME NEW c \in Containers, Kubelet(c) PROVE VerdictInv'
    BY <1>2, <1>7 DEF Kubelet
  <1>8. CASE Terminated
    BY <1>8 DEF Terminated, vars, podVars, BlamesRepeatOffenders, HiccupsForgiven, PullVerdictEarned
  <1> QED
    BY <1>4, <1>5, <1>6, <1>7, <1>8 DEF Next

\* The invariant is inductive: the polls, the passing of time, kubelet and the Job
\* controller preserve it.
THEOREM Invariance == Spec => []Inv
  <1>1. Init => Inv
    <2> SUFFICES ASSUME Init PROVE Inv
      OBVIOUS
    <2>1. TypeOK
      BY InitType
    <2>2. CountInv /\ PullInv
      BY DEF Init, CountInv, PullInv
    <2>3. VerdictInv
      BY DEF Init, Waits, VerdictInv, BlamesRepeatOffenders, HiccupsForgiven, PullVerdictEarned
    <2> QED
      BY <2>1, <2>2, <2>3 DEF Inv
  <1>2. Inv /\ [Next]_vars => Inv'
    <2>1. ASSUME Inv, Next PROVE Inv'
      BY <2>1, TypeInductive, CountInductive, PullInductive, VerdictInductive DEF Inv
    <2>2. ASSUME Inv, UNCHANGED vars PROVE Inv'
      BY <2>2 DEF Inv, vars, podVars, TypeOK, CountInv, PullInv, VerdictInv, BlamesRepeatOffenders,
                  HiccupsForgiven, PullVerdictEarned
    <2> QED
      BY <2>1, <2>2
  <1> QED
    BY <1>1, <1>2, PTL DEF Spec

\* WaitReady's locals and the pod keep their types: no age of a pull error and no
\* restart count leaves its range.
THEOREM TypeCorrect == Spec => []TypeOK
  <1>1. Inv => TypeOK
    BY DEF Inv
  <1> QED
    BY <1>1, Invariance, PTL

\* WaitReady blames a sidecar only after more exits than SidecarRestartLimit, for
\* every limit, zero included, and the main container only after an exit (assess).
THEOREM ServicesGetTheirRestarts == Spec => []BlamesRepeatOffenders
  <1>1. Inv => BlamesRepeatOffenders
    BY DEF Inv, VerdictInv
  <1> QED
    BY <1>1, Invariance, PTL

\* A pull error of a container that is not restarted ends the wait only after every
\* poll saw it for PullFailAfter (assess's pullErrSince).
THEOREM TransientPullsForgiven == Spec => []HiccupsForgiven
  <1>1. Inv => HiccupsForgiven
    BY DEF Inv, VerdictInv
  <1> QED
    BY <1>1, Invariance, PTL
============================================================================
