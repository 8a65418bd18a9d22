--------------------------- MODULE PodReadiness ---------------------------
(***************************************************************************)
(* WaitReady: the plugin polls the pod of a new Job until it can run       *)
(* commands, while kubelet pulls, starts, probes and restarts containers.  *)
(*                                                                         *)
(* A container is seen through its status: "none" (no status yet),         *)
(* "creating" (waiting for anything harmless), "pullerr", "badimage",      *)
(* "badconfig", "crashloop", "running", "ready" and "exited".  Time is     *)
(* counted in polls; ages stop at PullFailAfter, beyond which nothing      *)
(* depends on them.                                                        *)
(***************************************************************************)
EXTENDS Integers

CONSTANTS
    Inits,                \* init containers that run once (the step helper's)
    Sidecars,             \* native sidecars (services)
    Main,                 \* the container of the steps
    Extras,               \* other containers of the operator's podspec
    PullFailAfter,        \* polls an image pull error may persist
    SidecarRestartLimit,  \* restarts of a sidecar that are tolerated
    MaxExits              \* bound: exits of a sidecar

Containers == Inits \cup Sidecars \cup {Main} \cup Extras

ASSUME PodReadinessAssumption ==
    /\ Inits \cap Sidecars = {} /\ (Inits \cup Sidecars) \cap (Extras \cup {Main}) = {}
    /\ Main \notin Extras
    /\ PullFailAfter \in Nat /\ SidecarRestartLimit \in Nat /\ MaxExits \in Nat

VARIABLES
    \* the pod
    phase,         \* its phase; "absent" before the Job controller creates it
    st,            \* the state of each container
    restarts,      \* RestartCount
    exits,         \* history: how often each container exited
    \* WaitReady
    wpc,           \* its place in the loop
    expired,       \* ctx is done
    pullErrSince,  \* how long ago a pull error was first seen, or NotSeen
    result,
    streak         \* history: for how long every poll saw a pull error, or NotSeen

podVars == <<phase, st, restarts, exits>>
vars == <<podVars, wpc, expired, pullErrSince, result, streak>>

NotSeen == -1
Waits == [kind |-> "none", container |-> Main]

Init ==
    /\ phase = "absent" /\ st = [c \in Containers |-> "none"]
    /\ restarts = [c \in Containers |-> 0] /\ exits = [c \in Containers |-> 0]
    /\ wpc = "list" /\ expired = FALSE /\ result = Waits
    /\ pullErrSince = [c \in Containers |-> NotSeen]
    /\ streak = [c \in Containers |-> NotSeen]

---------------------------------------------------------------------------
(* assess: what one look at the pod says.                                  *)

\* A sidecar that kubelet will restart within the limit.  Seeded fault: the
\* restart that is pending counts as well.
ToleratedBefore(c) == c \in Sidecars /\ restarts[c] + 1 < SidecarRestartLimit
Tolerated(c) == c \in Sidecars /\ restarts[c] < SidecarRestartLimit

\* pullErrSince[c] once this poll has looked at c: set at the first pull error,
\* kept by a tolerated crash loop, deleted by any other state.  Seeded fault: it
\* is never deleted.
NeverForgotten(c) ==
    IF st[c] = "pullerr" /\ pullErrSince[c] = NotSeen THEN 0 ELSE pullErrSince[c]
FirstSeen(c) ==
    CASE st[c] = "pullerr" -> IF pullErrSince[c] = NotSeen THEN 0 ELSE pullErrSince[c]
      [] st[c] \in {"none", "crashloop"} -> pullErrSince[c]
      [] OTHER -> NotSeen

PullFailed(c) ==
    st[c] = "badimage" \/ (st[c] = "pullerr" /\ FirstSeen(c) >= PullFailAfter)

StartFailed(c) == st[c] = "badconfig" \/ (st[c] = "crashloop" /\ ~Tolerated(c))

ExitFailed(c) == st[c] = "exited" /\ c \in Sidecars \cup {Main} /\ ~Tolerated(c)

\* The containers that must be ready.  Seeded fault: those that run once too.
EveryContainer == Containers
MustBeReady == Containers \ Inits
AllReady == \A c \in MustBeReady : st[c] = "ready"

Failures ==
    IF phase \in {"Failed", "Succeeded"}
    THEN {[kind |-> "ended", container |-> Main]}
    ELSE     {[kind |-> "pull", container |-> c] : c \in {x \in Containers : PullFailed(x)}}
        \cup {[kind |-> "start", container |-> c] : c \in {x \in Containers : StartFailed(x)}}
        \cup {[kind |-> "exit", container |-> c] : c \in {x \in Containers : ExitFailed(x)}}

---------------------------------------------------------------------------
(* WaitReady's loop.                                                       *)

Returns(r) == result' = r /\ wpc' = "done"

\* What this poll adds to the history of pull errors.
Observe == streak' = [c \in Containers |->
                        IF st[c] # "pullerr" THEN NotSeen
                        ELSE IF streak[c] = NotSeen THEN 0 ELSE streak[c]]

\* The pod is listed and assessed (newest has one to choose from: backoffLimit is
\* 0).  Of several failures the order of the statuses decides, which is left open.
Poll ==
    /\ wpc = "list" /\ ~expired
    /\ IF phase = "absent"
       THEN wpc' = "wait" /\ UNCHANGED <<pullErrSince, result, streak>>
       ELSE /\ Observe
            /\ pullErrSince' = [c \in Containers |-> FirstSeen(c)]
            /\ \/ \E f \in Failures : Returns(f)
               \/ /\ Failures = {} /\ phase = "Running" /\ AllReady
                  /\ Returns([kind |-> "ready", container |-> Main])
               \/ /\ Failures = {} /\ ~(phase = "Running" /\ AllReady)
                  /\ wpc' = "wait" /\ UNCHANGED result
    /\ UNCHANGED <<podVars, expired>>

\* The API server does not answer, or ctx is done and it is not asked.
ListFails ==
    /\ wpc = "list"
    /\ wpc' = "wait"
    /\ UNCHANGED <<podVars, expired, pullErrSince, result, streak>>

\* time.Since of an entry, one interval later.  Seeded fault: a missing entry ages
\* like one that was set.
OlderAlways(age) == age + 1
Older(age) == IF age = NotSeen \/ age = PullFailAfter THEN age ELSE age + 1

\* The ticker fires, or a slow List takes another interval.
Tick ==
    /\ wpc \in {"wait", "list"}
    /\ wpc' = "list"
    /\ pullErrSince' = [c \in Containers |-> Older(pullErrSince[c])]
    /\ streak' = [c \in Containers |-> Older(streak[c])]
    /\ UNCHANGED <<podVars, expired, result>>

\* notReadyError: ctx is done; select may also have taken the ticker.
NotReady ==
    /\ wpc = "wait" /\ expired
    /\ Returns([kind |-> "notready", container |-> Main])
    /\ UNCHANGED <<podVars, expired, pullErrSince, streak>>

---------------------------------------------------------------------------
(* The environment: Start's context, the Job controller and kubelet, as    *)
(* far as assess tells states apart.                                       *)

\* ready_timeout is over or Start is cancelled.
Expire ==
    /\ wpc # "done" /\ ~expired
    /\ expired' = TRUE
    /\ UNCHANGED <<podVars, wpc, pullErrSince, result, streak>>

PodCreated ==
    /\ wpc # "done" /\ phase = "absent"
    /\ phase' = "Pending"
    /\ UNCHANGED <<st, restarts, exits, wpc, expired, pullErrSince, result, streak>>

\* Init containers run in turn, then the sidecars start, then the others.
MayStart(c) ==
    /\ c \notin Inits => \A i \in Inits : st[i] = "exited"
    /\ c \in {Main} \cup Extras => \A s \in Sidecars : st[s] = "ready"

\* The states kubelet may report next.  Only sidecars are restarted
\* (restartPolicy: Never), and each restart may pull the image again.
NextStates(c) ==
    CASE st[c] = "none" -> {"creating"}
      [] st[c] = "creating" -> IF MayStart(c) THEN {"pullerr", "badimage", "badconfig", "running"}
                                              ELSE {}
      [] st[c] \in {"pullerr", "badconfig"} -> {"creating", "running"}
      [] st[c] = "running" -> IF c \in Inits THEN {"exited"} ELSE {"ready", "exited"}
      [] st[c] = "ready" -> {"running", "exited"}
      [] st[c] = "exited" -> IF c \in Sidecars THEN {"running", "crashloop", "pullerr"} ELSE {}
      [] st[c] = "crashloop" -> {"running", "pullerr"}
      [] OTHER -> {}

Kubelet(c) ==
    /\ wpc # "done" /\ phase \in {"Pending", "Running"}
    /\ \E s \in NextStates(c) :
         /\ st' = [st EXCEPT ![c] = s]
         /\ s = "exited" => exits[c] < MaxExits
         /\ exits' = [exits EXCEPT ![c] = IF s = "exited" THEN @ + 1 ELSE @]
         /\ restarts' = [restarts EXCEPT ![c] = IF s = "running" THEN exits[c] ELSE @]
         /\ phase' = IF c \in {Main} \cup Extras /\ s = "running" THEN "Running" ELSE phase
    /\ UNCHANGED <<wpc, expired, pullErrSince, result, streak>>

\* The pod ends: evicted, past its deadline, failed, or its containers are over.
PodEnds ==
    /\ wpc # "done" /\ phase \in {"Pending", "Running"}
    /\ phase' \in {"Failed"} \cup (IF st[Main] = "exited" THEN {"Succeeded"} ELSE {})
    /\ UNCHANGED <<st, restarts, exits, wpc, expired, pullErrSince, result, streak>>

\* WaitReady has returned; what becomes of the pod is no longer its concern.
Terminated == wpc = "done" /\ UNCHANGED vars

---------------------------------------------------------------------------

Next == \/ Poll \/ ListFails \/ Tick \/ NotReady \/ Expire
        \/ PodCreated \/ (\E c \in Containers : Kubelet(c)) \/ PodEnds \/ Terminated

Spec == Init /\ [][Next]_vars

\* The loop runs, the API server answers a list that is asked for again and again,
\* and select does not pick the ticker for ever when ctx is done.  Nothing is
\* assumed of the pod, nor that ctx ever ends.
Fairness ==
    /\ SF_vars(Poll) /\ SF_vars(NotReady) /\ WF_vars(Tick)
    /\ WF_vars(ListFails /\ expired)

FairSpec == Spec /\ Fairness

---------------------------------------------------------------------------
(* Properties.                                                             *)

States == {"none", "creating", "pullerr", "badimage", "badconfig", "crashloop",
           "running", "ready", "exited"}
Ages == {NotSeen} \cup 0 .. PullFailAfter

\* The variables keep their types (WaitReady's locals and the pod it reads).
TypeOK ==
    /\ phase \in {"absent", "Pending", "Running", "Failed", "Succeeded"}
    /\ st \in [Containers -> States]
    /\ restarts \in [Containers -> Nat] /\ exits \in [Containers -> Nat]
    /\ wpc \in {"list", "wait", "done"} /\ expired \in BOOLEAN
    /\ pullErrSince \in [Containers -> Ages] /\ streak \in [Containers -> Ages]
    /\ result \in [kind : {"none", "ready", "notready", "ended", "pull", "start", "exit"},
                   container : Containers]

\* A service gets its restarts: WaitReady blames a sidecar only after it exited
\* more often than SidecarRestartLimit, and an exit of the main container only if
\* there was one (assess's two restart checks).
BlamesRepeatOffenders ==
    LET c == result.container IN
    /\ result.kind = "exit" => exits[c] > (IF c \in Sidecars THEN SidecarRestartLimit ELSE 0)
    /\ result.kind = "start" /\ st[c] = "crashloop" => exits[c] > SidecarRestartLimit

\* A pull verdict on a name that can be pulled: the error was there at every poll
\* for PullFailAfter.
PullVerdictEarned(c) ==
    result = [kind |-> "pull", container |-> c] /\ st[c] = "pullerr" => streak[c] >= PullFailAfter

\* A registry's hiccups are forgiven: an image pull of a container that is not
\* restarted fails the environment only if it failed at every poll for
\* PullFailAfter (pullErrSince and its deletes).
HiccupsForgiven == \A c \in Containers \ Sidecars : PullVerdictEarned(c)

\* Nothing that can be told before the ready timeout waits for it: once the pod is
\* up, has ended or has lost its main container for good, or ctx is done,
\* WaitReady returns, whatever lists fail on the way.
Settled == \/ phase = "Running" /\ \A c \in {Main} \cup Sidecars \cup Extras : st[c] = "ready"
           \/ phase \in {"Failed", "Succeeded"}
           \/ phase # "absent" /\ st[Main] \in {"exited", "badimage"}
SettledIsReported == <>[](Settled \/ expired) => <>(wpc = "done")
============================================================================
