--------------------------- MODULE Environments ---------------------------
(***************************************************************************)
(* The plugin's environments: the Create, Start, Exec/Copy and Remove RPCs *)
(* of package server on the Jobs of one namespace, the shutdown and the    *)
(* start-up sweep of the plugin process, and a runner that issues one RPC  *)
(* at a time per environment but may call Remove while a cancelled one is  *)
(* still unwinding.  The namespace is shared with another plugin instance. *)
(***************************************************************************)
EXTENDS Integers

CONSTANTS
    Envs,       \* environment ids, one per workflow job; also the Job's name
    Foreign,    \* ids whose Job belongs to the other instance
    Mine,       \* this plugin's --instance
    Other,      \* the other plugin's --instance
    Labels,     \* values of the `instance` backend option that runners send
    NoJob,      \* the namespace holds no Job of that name
    Faults      \* bound: the kinds of fault an instance explores

ASSUME EnvironmentsAssumption ==
    /\ Foreign \subseteq Envs
    /\ Labels \subseteq {Mine, Other}
    /\ Mine # Other /\ NoJob \notin {Mine, Other}
    /\ Faults \subseteq {"api", "late", "timeout", "crash", "sigterm"}

VARIABLES
    job,     \* the cluster: the instance label of the Job named e, or NoJob
    coming,  \* the cluster: Job creations it still processes, their caller gone
    phase,   \* the plugin process
    known,   \* s.envs
    label,   \* e.opts.Instance
    pod,     \* e.pod is set
    holder,  \* who holds e.lock
    todo,    \* Sweep's list
    call,    \* the streaming RPC on e: Start, or a use (Exec, CopyIn, CopyOut)
    op,      \* where its handler stands
    ctx,     \* its context is done
    rem,     \* where the Remove RPC on e stands
    sd,      \* where Shutdown's goroutine for e stands
    run,     \* the runner's view of e
    fault,   \* history: a failed or lost API call, or a crash, concerned e
    gone     \* history: Remove of e succeeded

plugVars   == <<phase, known, label, pod, todo>>
opVars     == <<call, op, ctx>>
vars == <<job, coming, plugVars, holder, opVars, rem, sd, run, fault, gone>>

Ours == Envs \ Foreign

Init ==
    /\ job = [e \in Envs |-> IF e \in Foreign THEN Other ELSE NoJob] /\ coming = {}
    /\ phase = "serving" /\ known = {} /\ label = [e \in Envs |-> Mine]
    /\ pod = {} /\ todo = {} /\ holder = [e \in Envs |-> "free"]
    /\ call = [e \in Envs |-> "start"] /\ op = [e \in Envs |-> "none"] /\ ctx = {}
    /\ rem = [e \in Envs |-> "none"] /\ sd = [e \in Envs |-> "none"]
    /\ run = [e \in Envs |-> IF e \in Foreign THEN "lost" ELSE "new"]
    /\ fault = {} /\ gone = {}

Up == phase # "down"
Serving == phase = "serving"

---------------------------------------------------------------------------
(* Calls to the API server (k8s.Backend).                                  *)

\* jobLabels: the ownership label of e's Job.  Seeded fault: it is not set.
NoLabel(e) == ""
JobLabel(e) == label[e]

\* backend.Delete: gone, or an error and the Job stays.
JobDeleted(e) == job' = [job EXCEPT ![e] = NoJob] /\ UNCHANGED fault
DeleteFails(e) == "api" \in Faults /\ fault' = fault \cup {e} /\ UNCHANGED job
DeleteJob(e) == JobDeleted(e) \/ DeleteFails(e)

\* The API server commits a creation whose caller has given up.
LateCreate(e) ==
    /\ e \in coming
    /\ coming' = coming \ {e}
    /\ job' = [job EXCEPT ![e] = JobLabel(e)]
    /\ UNCHANGED <<plugVars, holder, opVars, rem, sd, run, fault, gone>>

---------------------------------------------------------------------------
(* The runner.                                                             *)

\* Create registers the environment; nothing is booted.
Create(e) ==
    /\ Serving /\ run[e] = "new"
    /\ run' = [run EXCEPT ![e] = "created"]
    /\ \E l \in Labels : label' = [label EXCEPT ![e] = l]
    /\ known' = known \cup {e}
    /\ UNCHANGED <<job, coming, phase, pod, todo, holder, opVars, rem, sd, fault, gone>>

\* The next streaming RPC: Start once, then uses while the environment is up.
Send(e) ==
    /\ Serving /\ op[e] = "none" /\ run[e] \in {"created", "ready"}
    /\ call' = [call EXCEPT ![e] = IF run[e] = "created" THEN "start" ELSE "use"]
    /\ op' = [op EXCEPT ![e] = "sent"] /\ UNCHANGED ctx
    /\ run' = [run EXCEPT ![e] = IF @ = "created" THEN "starting" ELSE @]
    /\ UNCHANGED <<job, coming, plugVars, holder, rem, sd, fault, gone>>

\* The job is cancelled or times out: the stream's context is done.
Cancel(e) ==
    /\ op[e] # "none" /\ e \notin ctx
    /\ ctx' = ctx \cup {e}
    /\ UNCHANGED <<job, coming, plugVars, holder, call, op, rem, sd, run, fault, gone>>

\* Remove, once, when no RPC is running that was not cancelled first.  A plugin
\* that does not answer is not asked again.
CallRemove(e) ==
    /\ run[e] \in {"created", "starting", "ready", "lost"}
    /\ op[e] = "none" \/ e \in ctx
    /\ run' = [run EXCEPT ![e] = "removed"]
    /\ rem' = [rem EXCEPT ![e] = IF Serving THEN "sent" ELSE @]
    /\ UNCHANGED <<job, coming, plugVars, holder, opVars, sd, fault, gone>>

---------------------------------------------------------------------------
(* acquire, and the streaming RPCs.                                        *)

\* The handler returns; its locals and its context end with it.
EndOp(e) == /\ op' = [op EXCEPT ![e] = "none"] /\ call' = [call EXCEPT ![e] = "start"]
            /\ ctx' = ctx \ {e}

\* acquire reads s.envs; an unknown environment ends the call.
Lookup(e) ==
    /\ Up /\ op[e] = "sent"
    /\ IF e \in known THEN op' = [op EXCEPT ![e] = "wait"] /\ UNCHANGED <<call, ctx>>
                      ELSE EndOp(e)
    /\ UNCHANGED <<job, coming, plugVars, holder, rem, sd, run, fault, gone>>

\* The lock is a channel of capacity one.  Seeded faults: nobody waits for it; a
\* handler does not give it back.
Unguarded(e) == TRUE
Lockable(e) == holder[e] = "free"
KeepLock(e) == UNCHANGED holder
Unlock(e) == holder' = [holder EXCEPT ![e] = "free"]

\* The lock is taken and e.pod looked at: Start wants it unset, a use set.
Acquire(e) ==
    /\ Up /\ op[e] = "wait" /\ Lockable(e)
    /\ IF (call[e] = "start") = (e \notin pod)
       THEN /\ holder' = [holder EXCEPT ![e] = "op"]
            /\ op' = [op EXCEPT ![e] = IF call[e] = "start" THEN "create" ELSE "busy"]
            /\ UNCHANGED <<call, ctx>>
       ELSE EndOp(e) /\ UNCHANGED holder
    /\ UNCHANGED <<job, coming, plugVars, rem, sd, run, fault, gone>>

AcquireCancelled(e) ==
    /\ Up /\ op[e] = "wait" /\ e \in ctx
    /\ EndOp(e)
    /\ UNCHANGED <<job, coming, plugVars, holder, rem, sd, run, fault, gone>>

\* A request under a context that is done is not sent.  Seeded fault: Start does
\* not pass its context on.
Detached(e) == TRUE
Sendable(e) == e \notin ctx

\* boot creates the Job: created; refused; or the answer is lost and the API
\* server may still create it.
CreateJob(e) ==
    /\ Up /\ op[e] = "create"
    /\ \/ /\ Sendable(e)
          /\ job' = [job EXCEPT ![e] = JobLabel(e)]
          /\ op' = [op EXCEPT ![e] = "boot"]
          /\ UNCHANGED <<coming, fault>>
       \/ /\ "late" \in Faults /\ Sendable(e)
          /\ coming' = coming \cup {e} /\ fault' = fault \cup {e}
          /\ op' = [op EXCEPT ![e] = "cleanup"]
          /\ UNCHANGED job
       \/ /\ "api" \in Faults \/ ~Sendable(e)
          /\ op' = [op EXCEPT ![e] = "cleanup"]
          /\ UNCHANGED <<job, coming, fault>>
    /\ UNCHANGED <<plugVars, holder, call, ctx, rem, sd, run, gone>>

\* WaitReady and prepare: the pod is ready, or failed, timed out or cancelled.
Boot(e) ==
    /\ Up /\ op[e] = "boot"
    /\ op' \in {[op EXCEPT ![e] = s] : s \in IF e \in ctx THEN {"cleanup"}
                                              ELSE {"booted", "cleanup"}}
    /\ UNCHANGED <<job, coming, plugVars, holder, call, ctx, rem, sd, run, fault, gone>>

\* A failed Start deletes its Job before it unlocks.  Seeded fault: it does not.
NoCleanup(e) == UNCHANGED <<job, fault>>
StartCleanup(e) == DeleteJob(e)

StartFailed(e) ==
    /\ Up /\ op[e] = "cleanup"
    /\ StartCleanup(e)
    /\ EndOp(e) /\ Unlock(e)
    /\ UNCHANGED <<coming, plugVars, rem, sd, run, gone>>

Started(e) ==
    /\ Up /\ op[e] = "booted"
    /\ pod' = pod \cup {e}
    /\ EndOp(e) /\ Unlock(e)
    /\ run' = [run EXCEPT ![e] = IF @ = "starting" THEN "ready" ELSE @]
    /\ UNCHANGED <<job, coming, phase, known, label, todo, rem, sd, fault, gone>>

\* Exec, CopyIn or CopyOut ends (see StepResume for what Exec does meanwhile).
UseEnds(e) ==
    /\ Up /\ op[e] = "busy"
    /\ EndOp(e) /\ Unlock(e)
    /\ UNCHANGED <<job, coming, plugVars, rem, sd, run, fault, gone>>

---------------------------------------------------------------------------
(* Remove.                                                                 *)

\* Seeded fault: the environment is forgotten before its lock is held.
RemoveLookupForgets(e) ==
    /\ Up /\ rem[e] = "sent"
    /\ rem' = [rem EXCEPT ![e] = IF e \in known THEN "wait" ELSE "get"]
    /\ known' = known \ {e}
    /\ UNCHANGED <<job, coming, phase, label, pod, todo, holder, opVars, sd, run, fault, gone>>

RemoveLookup(e) ==
    /\ Up /\ rem[e] = "sent"
    /\ rem' = [rem EXCEPT ![e] = IF e \in known THEN "wait" ELSE "get"]
    /\ UNCHANGED <<job, coming, plugVars, holder, opVars, sd, run, fault, gone>>

\* The running RPC has unwound: take the lock and forget the environment.
RemoveForget(e) ==
    /\ Up /\ rem[e] = "wait" /\ Lockable(e)
    /\ holder' = [holder EXCEPT ![e] = "remove"]
    /\ known' = known \ {e}
    /\ rem' = [rem EXCEPT ![e] = "delete"]
    /\ UNCHANGED <<job, coming, phase, label, pod, todo, opVars, sd, run, fault, gone>>

\* removeTimeout passes first; the environment stays known.
RemoveTimeout(e) ==
    /\ Up /\ rem[e] = "wait" /\ "timeout" \in Faults
    /\ rem' = [rem EXCEPT ![e] = "none"]
    /\ UNCHANGED <<job, coming, plugVars, holder, opVars, sd, run, fault, gone>>

RemoveDelete(e) ==
    /\ Up /\ rem[e] = "delete"
    /\ \/ JobDeleted(e) /\ gone' = gone \cup {e}
       \/ DeleteFails(e) /\ UNCHANGED gone
    /\ rem' = [rem EXCEPT ![e] = "none"]
    /\ Unlock(e)
    /\ UNCHANGED <<coming, plugVars, opVars, sd, run>>

\* DeleteOwned deletes a Job only if it carries our labels.  Seeded fault: it
\* deletes any Job of that name.
AnyOwner(e) == job[e] # NoJob
Owned(e) == job[e] = Mine

\* DeleteOwned's Get; the Delete follows it.
RemoveGet(e) ==
    /\ Up /\ rem[e] = "get"
    /\ \/ Owned(e) /\ rem' = [rem EXCEPT ![e] = "owned"] /\ UNCHANGED <<fault, gone>>
       \/ /\ ~Owned(e)
          /\ rem' = [rem EXCEPT ![e] = "none"] /\ gone' = gone \cup {e} /\ UNCHANGED fault
       \/ /\ "api" \in Faults
          /\ rem' = [rem EXCEPT ![e] = "none"] /\ fault' = fault \cup {e} /\ UNCHANGED gone
    /\ UNCHANGED <<job, coming, plugVars, holder, opVars, sd, run>>

RemoveOwned(e) ==
    /\ Up /\ rem[e] = "owned"
    /\ \/ JobDeleted(e) /\ gone' = gone \cup {e}
       \/ DeleteFails(e) /\ UNCHANGED gone
    /\ rem' = [rem EXCEPT ![e] = "none"]
    /\ UNCHANGED <<coming, plugVars, holder, opVars, sd, run>>

---------------------------------------------------------------------------
(* The plugin process: SIGTERM, crash, restart.                            *)

\* GracefulStop: no new RPC is accepted, running ones go on.
SigTerm ==
    /\ Serving /\ "sigterm" \in Faults
    /\ phase' = "stopping"
    /\ UNCHANGED <<job, coming, known, label, pod, todo, holder, opVars, rem, sd, run, fault, gone>>

\* The calls have ended, or their time is up: Shutdown takes s.envs.
Shutdown ==
    /\ phase = "stopping"
    /\ phase' = "shutdown"
    /\ known' = {}
    /\ sd' = [e \in Envs |-> IF e \in known THEN "wait" ELSE "none"]
    /\ UNCHANGED <<job, coming, label, pod, todo, holder, opVars, rem, run, fault, gone>>

\* One goroutine per environment waits for its lock ...
ShutdownLock(e) ==
    /\ Up /\ sd[e] = "wait" /\ Lockable(e)
    /\ holder' = [holder EXCEPT ![e] = "shutdown"]
    /\ sd' = [sd EXCEPT ![e] = "delete"]
    /\ UNCHANGED <<job, coming, plugVars, opVars, rem, run, fault, gone>>

\* ... until the deadline, and then deletes the Job regardless.
ShutdownDeadline(e) ==
    /\ Up /\ sd[e] = "wait"
    /\ sd' = [sd EXCEPT ![e] = "force"]
    /\ UNCHANGED <<job, coming, plugVars, holder, opVars, rem, run, fault, gone>>

ShutdownDelete(e) ==
    /\ Up /\ sd[e] \in {"delete", "force"}
    /\ DeleteJob(e)
    /\ sd' = [sd EXCEPT ![e] = "none"]
    /\ holder' = [holder EXCEPT ![e] = IF sd[e] = "delete" THEN "free" ELSE @]
    /\ UNCHANGED <<coming, plugVars, opVars, rem, run, gone>>

\* The process ends; what its handlers were doing is lost.
Dies ==
    /\ phase' = "down" /\ known' = {} /\ pod' = {} /\ todo' = {}
    /\ holder' = [e \in Envs |-> "free"]
    /\ op' = [e \in Envs |-> "none"] /\ rem' = [e \in Envs |-> "none"]
    /\ sd' = [e \in Envs |-> "none"] /\ call' = [e \in Envs |-> "start"] /\ ctx' = {}
    /\ fault' = fault \cup {e \in Ours : job[e] # NoJob}
    /\ run' = [e \in Envs |-> IF run[e] \in {"created", "starting", "ready"} THEN "lost" ELSE run[e]]
    /\ UNCHANGED <<job, coming, label, gone>>

Exit ==
    /\ phase = "shutdown" /\ \A e \in Envs : sd[e] = "none"
    /\ Dies

Crash == Up /\ "crash" \in Faults /\ Dies

\* Sweep lists the Jobs with our instance label.  Seeded fault: only those of
\* environments this process knows.
SweepKnown == {e \in known : job[e] = Mine}
SweepList == {e \in Envs : job[e] = Mine}

\* The next process: its sweep cannot even list the Jobs, or has them to delete.
Restart ==
    /\ phase = "down"
    /\ phase' = "sweeping"
    /\ todo' \in {SweepList} \cup (IF "api" \in Faults THEN {{}} ELSE {})
    /\ UNCHANGED <<job, coming, known, label, pod, holder, opVars, rem, sd, run, fault, gone>>

SweepDelete(e) ==
    /\ phase = "sweeping" /\ e \in todo
    /\ DeleteJob(e)
    /\ todo' = todo \ {e}
    /\ UNCHANGED <<coming, phase, known, label, pod, holder, opVars, rem, sd, run, gone>>

\* Serving starts whether or not the sweep was complete.
Listen ==
    /\ phase = "sweeping" /\ todo = {}
    /\ phase' = "serving"
    /\ UNCHANGED <<job, coming, known, label, pod, todo, holder, opVars, rem, sd, run, fault, gone>>

---------------------------------------------------------------------------

Runner(e) == Create(e) \/ Send(e) \/ Cancel(e) \/ CallRemove(e)

Handler(e) == \/ Lookup(e) \/ Acquire(e) \/ AcquireCancelled(e) \/ CreateJob(e) \/ Boot(e)
              \/ StartFailed(e) \/ Started(e) \/ UseEnds(e)

Remove(e) == \/ RemoveLookup(e) \/ RemoveForget(e) \/ RemoveTimeout(e) \/ RemoveDelete(e)
             \/ RemoveGet(e) \/ RemoveOwned(e)

Process == SigTerm \/ Shutdown \/ Exit \/ Crash \/ Restart \/ Listen

Stopping(e) == ShutdownLock(e) \/ ShutdownDeadline(e) \/ ShutdownDelete(e)

Next == \/ Process
        \/ \E e \in Envs : \/ Runner(e) \/ Handler(e) \/ Remove(e) \/ Stopping(e)
                           \/ SweepDelete(e) \/ LateCreate(e)

Spec == Init /\ [][Next]_vars

\* Handlers and the process run, the runner ends every job with Remove (a job has
\* finitely many steps), and the plugin does not crash for ever, so that a sweep
\* begun again and again gets to each Job and to serving.
Fairness ==
    /\ \A e \in Envs : /\ WF_vars(Handler(e)) /\ WF_vars(Remove(e)) /\ WF_vars(Stopping(e))
                       /\ SF_vars(CallRemove(e)) /\ SF_vars(SweepDelete(e))
    /\ WF_vars(Shutdown) /\ WF_vars(Exit) /\ WF_vars(Restart) /\ SF_vars(Listen)

FairSpec == Spec /\ Fairness

---------------------------------------------------------------------------
(* Properties.                                                             *)

\* The variables keep their types (server.Server, environment, the handlers).
TypeOK ==
    /\ job \in [Envs -> {Mine, Other, NoJob}] /\ coming \subseteq Envs
    /\ phase \in {"serving", "stopping", "shutdown", "down", "sweeping"}
    /\ known \subseteq Envs /\ label \in [Envs -> {Mine, Other}]
    /\ pod \subseteq Envs /\ todo \subseteq Envs
    /\ holder \in [Envs -> {"free", "op", "remove", "shutdown"}]
    /\ call \in [Envs -> {"start", "use"}] /\ ctx \subseteq Envs
    /\ op \in [Envs -> {"none", "sent", "wait", "create", "boot", "booted", "cleanup", "busy"}]
    /\ rem \in [Envs -> {"none", "sent", "wait", "delete", "get", "owned"}]
    /\ sd \in [Envs -> {"none", "wait", "delete", "force"}]
    /\ run \in [Envs -> {"new", "created", "starting", "ready", "lost", "removed"}]
    /\ fault \subseteq Envs /\ gone \subseteq Envs

\* Instances sharing a namespace never remove each other's Jobs, not by a Remove
\* of an id this process never saw nor by the start-up sweep (Delete, DeleteOwned,
\* Sweep).
ForeignJobsStay == \A e \in Foreign : job[e] = Other

Using(e) == op[e] \in {"boot", "booted", "busy"}

\* Shutdown has taken s.envs, and a Remove that was sent before SIGTERM, for a call
\* that was cancelled, has to go by the Job's labels.
Overtaken(e) == phase = "shutdown" /\ e \in ctx /\ rem[e] = "owned"

\* Per environment, work is serialised by its lock: no RPC loses its Job while it
\* works on it, except to Shutdown once its deadline has passed, and a cancelled one
\* to a Remove that came after Shutdown took s.envs (acquire, Remove, Shutdown).
NoDeleteUnderway ==
    [][\A e \in Envs : Using(e) /\ op'[e] = op[e] /\ job[e] # NoJob /\ job'[e] = NoJob
                         => sd[e] = "force" \/ Overtaken(e)]_vars

\* A Job always has someone who will delete it, a known environment, a handler
\* at work or Shutdown, unless an API call failed or the process died.
Tended(e) ==
    \/ e \in known \/ e \in fault \/ op[e] # "none"
    \/ rem[e] \in {"wait", "delete", "owned"} \/ phase = "shutdown"
NoUntendedJob == \A e \in Ours : job[e] # NoJob => Tended(e)

\* A Start that failed leaves no Job behind, "Remove may never come if the runner
\* gives up" (Start), unless an API call failed.
FailedStartLeavesNothing ==
    \A e \in Ours : run[e] = "starting" /\ op[e] = "none" /\ e \notin fault => job[e] = NoJob

\* Remove is final: once it succeeded the Job is gone and the cancelled RPC that
\* was still unwinding does not create it again (acquire, boot).
RemovedIsGone == \A e \in Ours : e \in gone => job[e] = NoJob

\* At startup the plugin deletes the Jobs a previous process left behind: when it
\* serves, every Job it may delete has an environment or a Remove at work.
OrphansSwept ==
    Serving => \A e \in Ours : job[e] # NoJob => e \in known \/ rem[e] = "delete"

\* Every Job ends: by Remove, by Shutdown or by the next process's sweep.
JobsEnd == \A e \in Ours : job[e] # NoJob ~> job[e] = NoJob
============================================================================
