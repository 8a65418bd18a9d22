------------------------ MODULE EnvironmentsProofs ------------------------
(* The inductive invariant of Environments and what follows from it for    *)
(* any number of environments and any mixture of faults.                   *)
EXTENDS Environments, TLAPS

\* The handler of the streaming RPC on e holds e.lock.
Working(e) == op[e] \in {"create", "boot", "booted", "cleanup", "busy"}

\* Whoever works on an environment holds its lock; Shutdown past its deadline
\* ("force") is the exception (acquire, Remove, Shutdown).
LockInv ==
    \A e \in Envs : /\ Working(e) => holder[e] = "op"
                    /\ rem[e] = "delete" => holder[e] = "remove"
                    /\ sd[e] = "delete" => holder[e] = "shutdown"

\* A process that is not serving yet has no handlers, and only Shutdown has
\* goroutines per environment.
PhaseInv ==
    /\ phase \in {"down", "sweeping"} => \A e \in Envs : op[e] = "none" /\ rem[e] = "none"
    /\ phase # "shutdown" => \A e \in Envs : sd[e] = "none"

\* What the runner's view says of the handlers: the process knows the
\* environments that are in use, an RPC that Remove overtakes was cancelled, and
\* a Remove that does not find the environment has overtaken none.
RunInv ==
    \A e \in Envs :
      /\ op[e] # "none" => run[e] \in {"starting", "ready", "removed"}
      /\ op[e] # "none" /\ run[e] = "removed" => e \in ctx
      /\ rem[e] # "none" => run[e] = "removed"
      /\ run[e] \in {"created", "starting", "ready"} => e \in known \/ phase = "shutdown"
      /\ rem[e] = "wait" => e \in known \/ phase = "shutdown"
      /\ rem[e] = "sent" /\ op[e] # "none" => e \in known \/ phase = "shutdown"
      /\ rem[e] \in {"get", "owned"} => op[e] = "none" \/ phase = "shutdown"

\* Start runs first, and the states of its handler are its own.
CallInv ==
    \A e \in Envs :
      /\ op[e] \in {"create", "boot", "booted", "cleanup"} => call[e] = "start"
      /\ op[e] = "busy" => call[e] = "use"
      /\ op[e] # "none" /\ run[e] = "starting" => call[e] = "start"

\* Tended, without the handlers: they only ever work on Jobs of environments that
\* the process knows or that a failed call concerns.
JobInv ==
    /\ coming \subseteq fault
    /\ \A e \in Ours :
         job[e] # NoJob => e \in known \/ e \in fault \/ rem[e] = "delete" \/ phase = "shutdown"

\* Until Start has succeeded the Job exists only while its handler is at work.
StartInv ==
    \A e \in Ours :
      run[e] \in {"new", "created", "starting"} /\ op[e] \notin {"boot", "booted", "cleanup"}
        /\ e \notin fault => job[e] = NoJob

\* Of the other instance's environments the process knows nothing, and a Remove
\* of one gets no further than DeleteOwned's Get.
ForeignInv ==
    \A e \in Foreign :
      /\ job[e] = Other /\ e \notin coming /\ e \notin known /\ e \notin todo
      /\ run[e] \in {"lost", "removed"} /\ op[e] = "none" /\ sd[e] = "none"
      /\ rem[e] \in {"none", "sent", "get"}

Inv == TypeOK /\ LockInv /\ PhaseInv /\ RunInv /\ CallInv /\ JobInv /\ StartInv /\ ForeignInv

\* With an API server that loses no creation and runners that name this instance
\* only: what Remove reported gone does not come back.
GoneInv ==
    /\ coming = {}
    /\ \A e \in Envs : label[e] = Mine
    /\ \A e \in Ours : job[e] \in {Mine, NoJob}
    /\ \A e \in Ours : e \in gone => job[e] = NoJob /\ run[e] = "removed"

\* With an API server that does not fail besides: a process that begins has
\* every Job on its list.
SweepInv ==
    \A e \in Ours : job[e] # NoJob =>
        /\ phase = "sweeping" => e \in todo
        /\ phase \in {"serving", "stopping"} => e \in known \/ rem[e] = "delete"

USE EnvironmentsAssumption DEF Ours

\* The types hold when the plugin begins.
LEMMA InitType == ASSUME Init PROVE TypeOK
  BY DEF Init, TypeOK

\* Every step keeps the types.
LEMMA TypeInductive == ASSUME TypeOK, Next PROVE TypeOK'
  <1> USE DEF TypeOK, plugVars, opVars, EndOp, Unlock, DeleteJob, JobDeleted, DeleteFails, JobLabel
  <1>1. CASE Process
    BY <1>1 DEF Process, SigTerm, Shutdown, Exit, Crash, Dies, Restart, SweepList, Listen
  <1>2. ASSUME NEW e \in Envs, Runner(e) PROVE TypeOK'
    BY <1>2 DEF Runner, Create, Send, Cancel, CallRemove
  <1>3. ASSUME NEW e \in Envs, Handler(e) PROVE TypeOK'
    <2>1. CASE Lookup(e) \/ Acquire(e) \/ AcquireCancelled(e)
      BY <2>1 DEF Lookup, Acquire, AcquireCancelled
    <2>2. CASE CreateJob(e) \/ Boot(e)
      BY <2>2 DEF CreateJob, Boot
    <2>3. CASE StartFailed(e) \/ Started(e) \/ UseEnds(e)
      BY <2>3 DEF StartFailed, StartCleanup, Started, UseEnds
    <2> QED
      BY <1>3, <2>1, <2>2, <2>3 DEF Handler
  <1>4. ASSUME NEW e \in Envs, Remove(e) PROVE TypeOK'
    <2>1. CASE RemoveLookup(e) \/ RemoveForget(e) \/ RemoveTimeout(e)
      BY <2>1 DEF RemoveLookup, RemoveForget, RemoveTimeout
    <2>2. CASE RemoveDelete(e) \/ RemoveGet(e) \/ RemoveOwned(e)
      BY <2>2 DEF RemoveDelete, RemoveGet, RemoveOwned
    <2> QED
      BY <1>4, <2>1, <2>2 DEF Remove
  <1>5. ASSUME NEW e \in Envs, Stopping(e) PROVE TypeOK'
    BY <1>5 DEF Stopping, ShutdownLock, ShutdownDeadline, ShutdownDelete
  <1>6. ASSUME NEW e \in Envs, SweepDelete(e) \/ LateCreate(e) PROVE TypeOK'
    BY <1>6 DEF SweepDelete, LateCreate
  <1> QED
    BY <1>1, <1>2, <1>3, <1>4, <1>5, <1>6 DEF Next

\* Every step keeps LockInv: the lock is taken only when it is free, and given
\* back by the one who holds it.
LEMMA LockInductive == ASSUME TypeOK, LockInv, PhaseInv, Next PROVE LockInv'
  <1> USE DEF TypeOK, LockInv, Working, plugVars, opVars, EndOp, Unlock, Lockable
  <1>1. CASE Process
    BY <1>1 DEF PhaseInv, Process, SigTerm, Shutdown, Exit, Crash, Dies, Restart, Listen
  <1>2. ASSUME NEW e \in Envs, Runner(e) PROVE LockInv'
    BY <1>2 DEF Runner, Create, Send, Cancel, CallRemove
  <1>3. ASSUME NEW e \in Envs, Handler(e) PROVE LockInv'
    <2>1. CASE Lookup(e) \/ Acquire(e) \/ AcquireCancelled(e)
      BY <2>1 DEF Lookup, Acquire, AcquireCancelled
    <2>2. CASE CreateJob(e) \/ Boot(e)
      BY <2>2 DEF CreateJob, Boot
    <2>3. CASE StartFailed(e) \/ Started(e) \/ UseEnds(e)
      BY <2>3 DEF StartFailed, Started, UseEnds
    <2> QED
      BY <1>3, <2>1, <2>2, <2>3 DEF Handler
  <1>4. ASSUME NEW e \in Envs, Remove(e) PROVE LockInv'
    <2>1. CASE RemoveLookup(e) \/ RemoveForget(e) \/ RemoveTimeout(e)
      BY <2>1 DEF RemoveLookup, RemoveForget, RemoveTimeout
    <2>2. CASE RemoveDelete(e) \/ RemoveGet(e) \/ RemoveOwned(e)
      BY <2>2 DEF RemoveDelete, RemoveGet, RemoveOwned
    <2> QED
      BY <1>4, <2>1, <2>2 DEF Remove
  <1>5. ASSUME NEW e \in Envs, Stopping(e) PROVE LockInv'
    BY <1>5 DEF Stopping, ShutdownLock, ShutdownDeadline, ShutdownDelete
  <1>6. ASSUME NEW e \in Envs, SweepDelete(e) \/ LateCreate(e) PROVE LockInv'
    BY <1>6 DEF SweepDelete, LateCreate
  <1> QED
    BY <1>1, <1>2, <1>3, <1>4, <1>5, <1>6 DEF Next

\* Every step keeps PhaseInv: RPCs arrive only at a process that serves, and a
\* process that ends takes its handlers with it.
LEMMA PhaseInductive == ASSUME TypeOK, PhaseInv, Next PROVE PhaseInv'
  <1> USE DEF TypeOK, PhaseInv, plugVars, opVars, EndOp, Up, Serving
  <1>1. CASE Process
    BY <1>1 DEF Process, SigTerm, Shutdown, Exit, Crash, Dies, Restart, Listen
  <1>2. ASSUME NEW e \in Envs, Runner(e) PROVE PhaseInv'
    BY <1>2 DEF Runner, Create, Send, Cancel, CallRemove
  <1>3. ASSUME NEW e \in Envs, Handler(e) PROVE PhaseInv'
    BY <1>3 DEF Handler, Lookup, Acquire, AcquireCancelled, CreateJob, Boot, StartFailed, Started,
                UseEnds
  <1>4. ASSUME NEW e \in Envs, Remove(e) PROVE PhaseInv'
    BY <1>4 DEF Remove, RemoveLookup, RemoveForget, RemoveTimeout, RemoveDelete, RemoveGet, RemoveOwned
  <1>5. ASSUME NEW e \in Envs, Stopping(e) PROVE PhaseInv'
    BY <1>5 DEF Stopping, ShutdownLock, ShutdownDeadline, ShutdownDelete
  <1>6. ASSUME NEW e \in Envs, SweepDelete(e) \/ LateCreate(e) PROVE PhaseInv'
    BY <1>6 DEF SweepDelete, LateCreate
  <1> QED
    BY <1>1, <1>2, <1>3, <1>4, <1>5, <1>6 DEF Next

\* Every step keeps RunInv: Remove comes once, and after a cancellation.
LEMMA RunInductive == ASSUME TypeOK, PhaseInv, RunInv, Next PROVE RunInv'
  <1> USE DEF TypeOK, RunInv, plugVars, opVars, EndOp, Up, Serving
  <1>1. CASE Process
    BY <1>1 DEF PhaseInv, Process, SigTerm, Shutdown, Exit, Crash, Dies, Restart, Listen
  <1>2. ASSUME NEW e \in Envs, Runner(e) PROVE RunInv'
    BY <1>2 DEF PhaseInv, Runner, Create, Send, Cancel, CallRemove
  <1>3. ASSUME NEW e \in Envs, Handler(e) PROVE RunInv'
    <2>1. CASE Lookup(e) \/ Acquire(e) \/ AcquireCancelled(e)
      BY <2>1 DEF Lookup, Acquire, AcquireCancelled
    <2>2. CASE CreateJob(e) \/ Boot(e)
      BY <2>2 DEF CreateJob, Boot
    <2>3. CASE StartFailed(e) \/ Started(e) \/ UseEnds(e)
      BY <2>3 DEF StartFailed, Started, UseEnds
    <2> QED
      BY <1>3, <2>1, <2>2, <2>3 DEF Handler
  <1>4. ASSUME NEW e \in Envs, Remove(e) PROVE RunInv'
    <2>1. CASE RemoveLookup(e) \/ RemoveForget(e) \/ RemoveTimeout(e)
      BY <2>1 DEF RemoveLookup, RemoveForget, RemoveTimeout
    <2>2. CASE RemoveDelete(e) \/ RemoveGet(e) \/ RemoveOwned(e)
      BY <2>2 DEF RemoveDelete, RemoveGet, RemoveOwned
    <2> QED
      BY <1>4, <2>1, <2>2 DEF Remove
  <1>5. ASSUME NEW e \in Envs, Stopping(e) PROVE RunInv'
    BY <1>5 DEF Stopping, ShutdownLock, ShutdownDeadline, ShutdownDelete
  <1>6. ASSUME NEW e \in Envs, SweepDelete(e) \/ LateCreate(e) PROVE RunInv'
    BY <1>6 DEF SweepDelete, LateCreate
  <1> QED
    BY <1>1, <1>2, <1>3, <1>4, <1>5, <1>6 DEF Next

\* Every step keeps CallInv.
LEMMA CallInductive == ASSUME TypeOK, RunInv, CallInv, Next PROVE CallInv'
  <1> USE DEF TypeOK, RunInv, CallInv, plugVars, opVars, EndOp
  <1>1. CASE Process
    BY <1>1 DEF Process, SigTerm, Shutdown, Exit, Crash, Dies, Restart, Listen
  <1>2. ASSUME NEW e \in Envs, Runner(e) PROVE CallInv'
    BY <1>2 DEF Runner, Create, Send, Cancel, CallRemove
  <1>3. ASSUME NEW e \in Envs, Handler(e) PROVE CallInv'
    <2>1. CASE Lookup(e) \/ Acquire(e) \/ AcquireCancelled(e)
      BY <2>1 DEF Lookup, Acquire, AcquireCancelled
    <2>2. CASE CreateJob(e) \/ Boot(e)
      BY <2>2 DEF CreateJob, Boot
    <2>3. CASE StartFailed(e) \/ Started(e) \/ UseEnds(e)
      BY <2>3 DEF StartFailed, Started, UseEnds
    <2> QED
      BY <1>3, <2>1, <2>2, <2>3 DEF Handler
  <1>4. ASSUME NEW e \in Envs, Remove(e) PROVE CallInv'
    BY <1>4 DEF Remove, RemoveLookup, RemoveForget, RemoveTimeout, RemoveDelete, RemoveGet, RemoveOwned
  <1>5. ASSUME NEW e \in Envs, Stopping(e) PROVE CallInv'
    BY <1>5 DEF Stopping, ShutdownLock, ShutdownDeadline, ShutdownDelete
  <1>6. ASSUME NEW e \in Envs, SweepDelete(e) \/ LateCreate(e) PROVE CallInv'
    BY <1>6 DEF SweepDelete, LateCreate
  <1> QED
    BY <1>1, <1>2, <1>3, <1>4, <1>5, <1>6 DEF Next

\* Every step keeps JobInv: a creation that is sent belongs to an RPC that was not
\* cancelled, so that no Remove has forgotten its environment.
LEMMA JobInductive == ASSUME TypeOK, LockInv, PhaseInv, RunInv, JobInv, Next PROVE JobInv'
  <1> USE DEF TypeOK, JobInv, plugVars, opVars, DeleteJob, JobDeleted, DeleteFails
  <1>1. CASE Process
    <2>1. CASE Dies
      BY <2>1 DEF Dies
    <2>2. CASE SigTerm \/ Shutdown
      BY <2>2 DEF SigTerm, Serving, Shutdown
    <2>3. CASE Restart \/ Listen
      BY <2>3 DEF Restart, Listen
    <2> QED
      BY <1>1, <2>1, <2>2, <2>3 DEF Process, Exit, Crash
  <1>2. ASSUME NEW e \in Envs, Runner(e) PROVE JobInv'
    BY <1>2 DEF RunInv, Runner, Create, Send, Cancel, CallRemove, Serving
  <1>3. ASSUME NEW e \in Envs, Handler(e) PROVE JobInv'
    <2>1. CASE CreateJob(e)
      BY <2>1 DEF RunInv, CreateJob, Sendable
    <2>2. CASE StartFailed(e)
      BY <2>2 DEF StartFailed, StartCleanup
    <2>3. CASE Lookup(e) \/ Acquire(e) \/ AcquireCancelled(e) \/ Boot(e) \/ Started(e) \/ UseEnds(e)
      BY <2>3 DEF Lookup, Acquire, AcquireCancelled, Boot, Started, UseEnds
    <2> QED
      BY <1>3, <2>1, <2>2, <2>3 DEF Handler
  <1>4. ASSUME NEW e \in Envs, Remove(e) PROVE JobInv'
    <2>1. CASE RemoveLookup(e) \/ RemoveForget(e) \/ RemoveTimeout(e)
      BY <2>1 DEF RemoveLookup, RemoveForget, RemoveTimeout
    <2>2. CASE RemoveDelete(e) \/ RemoveGet(e) \/ RemoveOwned(e)
      BY <2>2 DEF RemoveDelete, RemoveGet, RemoveOwned
    <2> QED
      BY <1>4, <2>1, <2>2 DEF Remove
  <1>5. ASSUME NEW e \in Envs, Stopping(e) PROVE JobInv'
    BY <1>5 DEF Stopping, ShutdownLock, ShutdownDeadline, ShutdownDelete
  <1>6. ASSUME NEW e \in Envs, SweepDelete(e) \/ LateCreate(e) PROVE JobInv'
    BY <1>6 DEF SweepDelete, LateCreate, JobLabel
  <1> QED
    BY <1>1, <1>2, <1>3, <1>4, <1>5, <1>6 DEF Next

\* Every step keeps StartInv: Start deletes its Job on every way out but success.
LEMMA StartInductive ==
    ASSUME TypeOK, PhaseInv, RunInv, CallInv, JobInv, StartInv, Next PROVE StartInv'
  <1> USE DEF TypeOK, StartInv, plugVars, opVars, EndOp, DeleteJob, JobDeleted, DeleteFails
  <1>1. CASE Process
    BY <1>1 DEF Process, SigTerm, Shutdown, Exit, Crash, Dies, Restart, Listen
  <1>2. ASSUME NEW e \in Envs, Runner(e) PROVE StartInv'
    BY <1>2 DEF RunInv, Runner, Create, Send, Cancel, CallRemove
  <1>3. ASSUME NEW e \in Envs, Handler(e) PROVE StartInv'
    <2>1. CASE Lookup(e) \/ Acquire(e) \/ AcquireCancelled(e)
      BY <2>1 DEF Lookup, Acquire, AcquireCancelled
    <2>2. CASE CreateJob(e) \/ Boot(e)
      BY <2>2 DEF CreateJob, Boot
    <2>3. CASE StartFailed(e)
      BY <2>3 DEF StartFailed, StartCleanup
    <2>4. CASE Started(e) \/ UseEnds(e)
      BY <2>4 DEF RunInv, CallInv, Started, UseEnds
    <2> QED
      BY <1>3, <2>1, <2>2, <2>3, <2>4 DEF Handler
  <1>4. ASSUME NEW e \in Envs, Remove(e) PROVE StartInv'
    BY <1>4 DEF Remove, RemoveLookup, RemoveForget, RemoveTimeout, RemoveDelete, RemoveGet, RemoveOwned
  <1>5. ASSUME NEW e \in Envs, Stopping(e) PROVE StartInv'
    BY <1>5 DEF Stopping, ShutdownLock, ShutdownDeadline, ShutdownDelete
  <1>6. ASSUME NEW e \in Envs, SweepDelete(e) \/ LateCreate(e) PROVE StartInv'
    BY <1>6 DEF JobInv, SweepDelete, LateCreate
  <1> QED
    BY <1>1, <1>2, <1>3, <1>4, <1>5, <1>6 DEF Next

\* Every step keeps ForeignInv: Remove and Sweep select by label.
LEMMA ForeignInductive == ASSUME TypeOK, ForeignInv, Next PROVE ForeignInv'
  <1> USE DEF TypeOK, ForeignInv, plugVars, opVars, EndOp, DeleteJob, JobDeleted, DeleteFails
  <1>1. CASE Process
    BY <1>1 DEF Process, SigTerm, Shutdown, Exit, Crash, Dies, Restart, SweepList, Listen
  <1>2. ASSUME NEW e \in Envs, Runner(e) PROVE ForeignInv'
    BY <1>2 DEF Runner, Create, Send, Cancel, CallRemove
  <1>3. ASSUME NEW e \in Envs, Handler(e) PROVE ForeignInv'
    <2>1. e \notin Foreign
      BY <1>3 DEF Handler, Lookup, Acquire, AcquireCancelled, CreateJob, Boot, StartFailed, Started,
                  UseEnds
    <2> QED
      BY <1>3, <2>1 DEF Handler, Lookup, Acquire, AcquireCancelled, CreateJob, Boot, StartFailed,
                        StartCleanup, Started, UseEnds
  <1>4. ASSUME NEW e \in Envs, Remove(e) PROVE ForeignInv'
    <2>1. CASE RemoveLookup(e) \/ RemoveForget(e) \/ RemoveTimeout(e)
      BY <2>1 DEF RemoveLookup, RemoveForget, RemoveTimeout
    <2>2. CASE RemoveDelete(e) \/ RemoveGet(e) \/ RemoveOwned(e)
      BY <2>2 DEF RemoveDelete, RemoveGet, Owned, RemoveOwned
    <2> QED
      BY <1>4, <2>1, <2>2 DEF Remove
  <1>5. ASSUME NEW e \in Envs, Stopping(e) PROVE ForeignInv'
    BY <1>5 DEF Stopping, ShutdownLock, ShutdownDeadline, ShutdownDelete
  <1>6. ASSUME NEW e \in Envs, SweepDelete(e) \/ LateCreate(e) PROVE ForeignInv'
    BY <1>6 DEF SweepDelete, LateCreate
  <1> QED
    BY <1>1, <1>2, <1>3, <1>4, <1>5, <1>6 DEF Next

\* The invariant is inductive: runners, handlers, Remove, Shutdown, crashes, the
\* sweep and late creations preserve it, whatever faults there are.
THEOREM Invariance == Spec => []Inv
  <1>1. Init => Inv
    <2> SUFFICES ASSUME Init PROVE Inv
      OBVIOUS
    <2>1. LockInv /\ PhaseInv /\ RunInv /\ CallInv
      BY DEF Init, LockInv, Working, PhaseInv, RunInv, CallInv
    <2>2. JobInv /\ StartInv /\ ForeignInv
      BY DEF Init, JobInv, StartInv, ForeignInv
    <2> QED
      BY <2>1, <2>2, InitType DEF Inv
  <1>2. Inv /\ [Next]_vars => Inv'
    <2>1. ASSUME Inv, Next PROVE Inv'
      BY <2>1, TypeInductive, LockInductive, PhaseInductive, RunInductive, CallInductive, JobInductive,
         StartInductive, ForeignInductive DEF Inv
    <2>2. ASSUME Inv, UNCHANGED vars PROVE Inv'
      BY <2>2 DEF Inv, vars, plugVars, opVars, TypeOK, LockInv, Working, PhaseInv, RunInv, CallInv,
                  JobInv, StartInv, ForeignInv
    <2> QED
      BY <2>1, <2>2
  <1> QED
    BY <1>1, <1>2, PTL DEF Spec

\* The variables of the server, its handlers and the cluster keep their types.
THEOREM TypeCorrect == Spec => []TypeOK
  BY Invariance, PTL DEF Inv

\* No Remove and no sweep of this plugin ever deletes a Job of the other instance
\* in its namespace (DeleteOwned, Sweep).
THEOREM OtherInstancesAreSafe == Spec => []ForeignJobsStay
  <1>1. Inv => ForeignJobsStay
    BY DEF Inv, ForeignInv, ForeignJobsStay
  <1> QED
    BY <1>1, Invariance, PTL

\* A Job always has someone who will delete it, unless an API call failed or the
\* process died: no interleaving of Start, Remove, their timeouts and Shutdown
\* forgets one (Create, Remove, Shutdown).
THEOREM EveryJobIsTended == Spec => []NoUntendedJob
  <1>1. Inv => NoUntendedJob
    BY DEF Inv, JobInv, NoUntendedJob, Tended
  <1> QED
    BY <1>1, Invariance, PTL

\* A Start that failed, was cancelled or timed out leaves no Job behind unless an
\* API call failed (Start, boot).
THEOREM FailedStartsCleanUp == Spec => []FailedStartLeavesNothing
  <1>1. Inv => FailedStartLeavesNothing
    BY DEF Inv, StartInv, FailedStartLeavesNothing
  <1> QED
    BY <1>1, Invariance, PTL

\* No Job is deleted under a Start, Exec or copy that is working with it, except by
\* Shutdown after its deadline and, under a cancelled one, by a Remove that finds
\* s.envs taken (the environment's lock).
THEOREM WorkIsNotPulledAway == Spec => NoDeleteUnderway
  <1>1. ASSUME Inv, Next, NEW e \in Envs, Using(e), op'[e] = op[e], job[e] # NoJob, job'[e] = NoJob
        PROVE  sd[e] = "force" \/ Overtaken(e)
    <2> USE DEF Inv, TypeOK, Using, plugVars, opVars, DeleteJob, JobDeleted, DeleteFails
    <2>1. CASE Process
      BY <1>1, <2>1 DEF Process, SigTerm, Shutdown, Exit, Crash, Dies, Restart, Listen
    <2>2. ASSUME NEW d \in Envs, Runner(d) PROVE FALSE
      BY <1>1, <2>2 DEF Runner, Create, Send, Cancel, CallRemove
    <2>3. ASSUME NEW d \in Envs, Handler(d) PROVE FALSE
      BY <1>1, <2>3 DEF Handler, Lookup, Acquire, AcquireCancelled, CreateJob, JobLabel, Boot,
                        StartFailed, StartCleanup, EndOp, Started, UseEnds
    <2>4. ASSUME NEW d \in Envs, Remove(d) PROVE Overtaken(e)
      BY <1>1, <2>4 DEF Overtaken, LockInv, Working, RunInv, Remove, RemoveLookup, RemoveForget, RemoveTimeout,
                        RemoveDelete, RemoveGet, RemoveOwned
    <2>5. ASSUME NEW d \in Envs, Stopping(d) PROVE sd[e] = "force"
      BY <1>1, <2>5 DEF LockInv, Working, Stopping, ShutdownLock, ShutdownDeadline, ShutdownDelete
    <2>6. ASSUME NEW d \in Envs, SweepDelete(d) \/ LateCreate(d) PROVE FALSE
      BY <1>1, <2>6 DEF PhaseInv, SweepDelete, LateCreate, JobLabel
    <2> QED
      BY <1>1, <2>1, <2>2, <2>3, <2>4, <2>5, <2>6 DEF Next
  <1>2. Inv /\ [Next]_vars =>
          [\A e \in Envs : Using(e) /\ op'[e] = op[e] /\ job[e] # NoJob /\ job'[e] = NoJob
                             => sd[e] = "force" \/ Overtaken(e)]_vars
    BY <1>1
  <1> QED
    BY <1>2, Invariance, PTL DEF Spec, NoDeleteUnderway

\* Every step keeps GoneInv when the API server loses no creation and runners do
\* not name another instance: a cancelled Start does not create its Job again.
LEMMA GoneInductive ==
    ASSUME Labels \subseteq {Mine}, "late" \notin Faults, Inv, GoneInv, Next PROVE GoneInv'
  <1> USE DEF Inv, TypeOK, GoneInv, plugVars, opVars, DeleteJob, JobDeleted, DeleteFails, JobLabel
  <1>1. CASE Process
    BY <1>1 DEF Process, SigTerm, Shutdown, Exit, Crash, Dies, Restart, Listen
  <1>2. ASSUME NEW e \in Envs, Runner(e) PROVE GoneInv'
    BY <1>2 DEF Runner, Create, Send, Cancel, CallRemove
  <1>3. ASSUME NEW e \in Envs, Handler(e) PROVE GoneInv'
    <2>1. CASE CreateJob(e)
      BY <2>1 DEF RunInv, CreateJob, Sendable
    <2>2. CASE Lookup(e) \/ Acquire(e) \/ AcquireCancelled(e) \/ Boot(e)
      BY <2>2 DEF Lookup, Acquire, AcquireCancelled, Boot
    <2>3. CASE StartFailed(e) \/ Started(e) \/ UseEnds(e)
      BY <2>3 DEF StartFailed, StartCleanup, Started, UseEnds
    <2> QED
      BY <1>3, <2>1, <2>2, <2>3 DEF Handler
  <1>4. ASSUME NEW e \in Envs, Remove(e) PROVE GoneInv'
    BY <1>4 DEF RunInv, Remove, RemoveLookup, RemoveForget, RemoveTimeout, RemoveDelete, RemoveGet,
                Owned, RemoveOwned
  <1>5. ASSUME NEW e \in Envs, Stopping(e) PROVE GoneInv'
    BY <1>5 DEF Stopping, ShutdownLock, ShutdownDeadline, ShutdownDelete
  <1>6. ASSUME NEW e \in Envs, SweepDelete(e) \/ LateCreate(e) PROVE GoneInv'
    BY <1>6 DEF SweepDelete, LateCreate
  <1> QED
    BY <1>1, <1>2, <1>3, <1>4, <1>5, <1>6 DEF Next

\* Remove is final, also when other API calls fail, the plugin stops, crashes and
\* starts again: a Job it reported gone stays gone, as long as the API server
\* processes no creation after its caller gave up and runners do not use the
\* instance option to hand a Job to another plugin (Remove, acquire, boot).
THEOREM RemoveIsFinal ==
    ASSUME Labels \subseteq {Mine}, "late" \notin Faults PROVE Spec => []RemovedIsGone
  <1>1. Init => GoneInv
    BY DEF Init, GoneInv
  <1>2. Inv /\ GoneInv /\ [Next]_vars => GoneInv'
    <2>1. ASSUME Inv, GoneInv, UNCHANGED vars PROVE GoneInv'
      BY <2>1 DEF GoneInv, vars, plugVars
    <2> QED
      BY <2>1, GoneInductive
  <1>3. GoneInv => RemovedIsGone
    BY DEF GoneInv, RemovedIsGone
  <1> QED
    BY <1>1, <1>2, <1>3, Invariance, PTL DEF Spec

\* Every step keeps SweepInv when API calls do not fail either.
LEMMA SweepInductive ==
    ASSUME Labels \subseteq {Mine}, "late" \notin Faults, "api" \notin Faults,
           Inv, GoneInv, SweepInv, Next
    PROVE  SweepInv'
  <1> USE DEF Inv, TypeOK, SweepInv, plugVars, opVars, DeleteJob, JobDeleted, DeleteFails
  <1>1. CASE Process
    <2>1. CASE SigTerm \/ Shutdown
      BY <2>1 DEF SigTerm, Serving, Shutdown
    <2>2. CASE Dies
      BY <2>2 DEF Dies
    <2>3. CASE Restart \/ Listen
      BY <2>3 DEF GoneInv, Restart, SweepList, Listen
    <2> QED
      BY <1>1, <2>1, <2>2, <2>3 DEF Process, Exit, Crash
  <1>2. ASSUME NEW e \in Envs, Runner(e) PROVE SweepInv'
    BY <1>2 DEF RunInv, Runner, Create, Send, Cancel, CallRemove
  <1>3. ASSUME NEW e \in Envs, Handler(e) PROVE SweepInv'
    <2>1. CASE CreateJob(e)
      BY <2>1 DEF PhaseInv, RunInv, CreateJob, Sendable
    <2>2. CASE Lookup(e) \/ Acquire(e) \/ AcquireCancelled(e) \/ Boot(e)
      BY <2>2 DEF Lookup, Acquire, AcquireCancelled, Boot
    <2>3. CASE StartFailed(e) \/ Started(e) \/ UseEnds(e)
      BY <2>3 DEF StartFailed, StartCleanup, Started, UseEnds
    <2> QED
      BY <1>3, <2>1, <2>2, <2>3 DEF Handler
  <1>4. ASSUME NEW e \in Envs, Remove(e) PROVE SweepInv'
    BY <1>4 DEF RunInv, Remove, RemoveLookup, RemoveForget, RemoveTimeout, RemoveDelete, RemoveGet,
                RemoveOwned
  <1>5. ASSUME NEW e \in Envs, Stopping(e) PROVE SweepInv'
    BY <1>5 DEF Stopping, ShutdownLock, ShutdownDeadline, ShutdownDelete
  <1>6. ASSUME NEW e \in Envs, SweepDelete(e) \/ LateCreate(e) PROVE SweepInv'
    BY <1>6 DEF GoneInv, SweepDelete, LateCreate
  <1> QED
    BY <1>1, <1>2, <1>3, <1>4, <1>5, <1>6 DEF Next

\* When the API server works, a plugin that serves has swept every Job that an
\* earlier process left: those it may delete are of environments it knows, or a
\* Remove is deleting them (Sweep, main).
THEOREM SweepLeavesNoOrphan ==
    ASSUME Labels \subseteq {Mine}, "late" \notin Faults, "api" \notin Faults
    PROVE  Spec => []OrphansSwept
  <1>1. Init => GoneInv /\ SweepInv
    BY DEF Init, GoneInv, SweepInv
  <1>2. Inv /\ GoneInv /\ SweepInv /\ [Next]_vars => GoneInv' /\ SweepInv'
    <2>1. ASSUME Inv, GoneInv, SweepInv, UNCHANGED vars PROVE GoneInv' /\ SweepInv'
      BY <2>1 DEF GoneInv, SweepInv, vars, plugVars
    <2> QED
      BY <2>1, GoneInductive, SweepInductive
  <1>3. SweepInv => OrphansSwept
    BY DEF SweepInv, OrphansSwept, Serving
  <1> QED
    BY <1>1, <1>2, <1>3, Invariance, PTL DEF Spec
===========================================================================
