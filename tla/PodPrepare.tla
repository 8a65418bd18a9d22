---------------------------- MODULE PodPrepare ----------------------------
(***************************************************************************)
(* The end of Start: prepare runs prepareScript in the main container over *)
(* pods/exec, again when the exec fails, and imageEnv reads main's         *)
(* environment.  A script whose stream broke may have been lost, may have  *)
(* died, or may still run, or only start, beside the next one.             *)
(***************************************************************************)
EXTENDS Naturals

CONSTANTS
    LastAttempt,   \* the attempt after which prepare stops trying (10 in the code)
    Boxes          \* main containers to look at

\* What a tool cache variable names: nothing, toolCachePath itself, a relative
\* path, a directory the step user can write, or one it cannot.
CacheVar == {"unset", "default", "relative", "usable", "readonly"}

Box == [runnerVar : CacheVar, agentVar : CacheVar,
        mounted : BOOLEAN,                \* a volume is mounted at toolCachePath
        links : {"yes", "no", "flaky"},   \* ln -s works on the shared volume
        writable : BOOLEAN,               \* the layout directories can be made
        shell : BOOLEAN]                  \* /bin/sh is there

ASSUME PrepareAssumption == LastAttempt \in Nat /\ Boxes \subseteq Box /\ Boxes # {}

Attempts == 0 .. LastAttempt

VARIABLES
    box,       \* the main container
    tool,      \* what is at toolCachePath: "none", "dir" or "link"
    script,    \* where the script of each attempt stands
    start,     \* where Start stands
    attempt,
    expired,   \* rctx is done: ReadyTimeout passed, or the runner cancelled
    broken,    \* history: execs that failed
    why,       \* why prepare failed
    cache,     \* resolvedToolCache: "target" (the image's) or "default"
    imageEnv   \* which of the two commands imageEnv's answer is from

prepareVars == <<box, tool, script, start, attempt, expired, broken, why, cache, imageEnv>>

PrepareInit ==
    /\ box \in Boxes
    /\ tool = IF box.mounted THEN "dir" ELSE "none"
    /\ script = [a \in Attempts |-> "none"]
    /\ start = "exec" /\ attempt = 0 /\ expired = FALSE
    /\ broken = 0 /\ why = "none" /\ cache = "default" /\ imageEnv = "none"

---------------------------------------------------------------------------
(* prepareScript.                                                          *)

\* t=${RUNNER_TOOL_CACHE:-${AGENT_TOOLSDIRECTORY:-$d}}
Target == IF box.runnerVar # "unset" THEN box.runnerVar
          ELSE IF box.agentVar # "unset" THEN box.agentVar ELSE "default"

\* The tests before ln: absolute, not $d, nothing at $d, a writable directory.
\* Seeded fault: what is already at $d is not looked at.
LinkableBlind == Target = "usable"
Linkable == Target = "usable" /\ tool = "none"

ScriptAt(a, from, to) == script[a] = from /\ script' = [script EXCEPT ![a] = to]

scriptFrame == UNCHANGED <<box, start, attempt, expired, broken, why, cache, imageEnv>>

MakeLayout(a) ==
    /\ ScriptAt(a, "layout", IF box.writable THEN "test" ELSE "failed")
    /\ UNCHANGED tool /\ scriptFrame

TestTarget(a) ==
    /\ ScriptAt(a, "test", IF Linkable THEN "link" ELSE "look")
    /\ UNCHANGED tool /\ scriptFrame

\* Where the new link goes: when $d has become a directory, or a link to one, it
\* goes inside that.  Seeded fault: it replaces what is there (ln -sfT).
LinkedOver == "link"
Linked == IF tool = "none" THEN "link" ELSE tool

\* ln -s "$t" "$d".  It may fail inside a directory: one of that name is there.
LinkTool(a) ==
    \/ /\ ScriptAt(a, "link", "target")
       /\ box.links # "no"
       /\ tool' = Linked
       /\ scriptFrame
    \/ /\ ScriptAt(a, "link", "look")
       /\ box.links # "yes" \/ tool # "none"
       /\ UNCHANGED tool /\ scriptFrame

\* [ -L "$d" ] and readlink.
LookAtTool(a) ==
    /\ ScriptAt(a, "look", IF tool = "link" THEN "target" ELSE "make")
    /\ UNCHANGED tool /\ scriptFrame

\* mkdir -p "$d": an existing directory, or a link to one, is left alone; it may
\* fail to make one, and the script with it.
MakeTool(a) ==
    \/ /\ ScriptAt(a, "make", "default")
       /\ tool' = IF tool = "none" THEN "dir" ELSE tool
       /\ scriptFrame
    \/ /\ ScriptAt(a, "make", "failed")
       /\ tool = "none"
       /\ UNCHANGED tool /\ scriptFrame

Script(a) == MakeLayout(a) \/ TestTarget(a) \/ LinkTool(a) \/ LookAtTool(a) \/ MakeTool(a)

ScriptOver == {"none", "lost", "target", "default", "failed"}

---------------------------------------------------------------------------
(* prepare and imageEnv.                                                   *)

\* The exec of attempt a reaches the container and the shell starts, perhaps
\* only when prepare has given up on it.
ExecScript(a) ==
    /\ start # "idle" /\ a <= attempt /\ box.shell
    /\ a = attempt /\ start = "exec" => ~expired
    /\ ScriptAt(a, "none", "layout")
    /\ UNCHANGED tool /\ scriptFrame

\* The last line printed, if it is an absolute path, else toolCachePath.  A script
\* prints the image's directory, which is one, or toolCachePath.
resolvedToolCache(out) == IF out = "target" THEN "target" ELSE "default"

ScriptOk ==
    /\ start = "exec" /\ script[attempt] \in {"target", "default"}
    /\ cache' = resolvedToolCache(script[attempt]) /\ start' = "env0"
    /\ UNCHANGED <<box, tool, script, attempt, expired, broken, why, imageEnv>>

PrepareFails(reason) == start' = "failed" /\ why' = reason

\* Any other exit status, and a missing shell, are final.
missingBinary == ~box.shell

ScriptFailed ==
    /\ start = "exec" /\ script[attempt] = "failed"
    /\ PrepareFails("layout")
    /\ UNCHANGED <<box, tool, script, attempt, expired, broken, cache, imageEnv>>

NoShell ==
    /\ start = "exec" /\ missingBinary /\ ~expired
    /\ PrepareFails("shell")
    /\ UNCHANGED <<box, tool, script, attempt, expired, broken, cache, imageEnv>>

\* Seeded faults: one attempt too few, or too many.
StopsShort == attempt + 1 >= LastAttempt
StopsLate == attempt > LastAttempt
Stops == attempt >= LastAttempt

\* The exec fails: refused, its stream broke, or rctx is done.  The script goes
\* on without it, or dies, or was never started.
ExecBroken ==
    /\ start = "exec"
    /\ broken' = IF broken <= LastAttempt THEN broken + 1 ELSE broken
    /\ script' \in {script, [script EXCEPT ![attempt] = "lost"]}
    /\ IF Stops THEN PrepareFails("exec") ELSE start' = "wait" /\ UNCHANGED why
    /\ UNCHANGED <<box, tool, attempt, expired, cache, imageEnv>>

\* The loop's attempt++.  Seeded fault: it is missing.
SameAttempt == attempt
NextAttempt == attempt + 1

TryAgain ==
    /\ start = "wait"
    /\ attempt' = NextAttempt /\ start' = "exec"
    /\ UNCHANGED <<box, tool, script, expired, broken, why, cache, imageEnv>>

WaitExpired ==
    /\ start = "wait" /\ expired
    /\ PrepareFails("exec")
    /\ UNCHANGED <<box, tool, script, attempt, expired, broken, cache, imageEnv>>

Expire ==
    /\ start \notin {"idle", "failed", "started"} /\ ~expired
    /\ expired' = TRUE
    /\ UNCHANGED <<box, tool, script, start, attempt, broken, why, cache, imageEnv>>

\* env -0, else env, else nothing: Start succeeds in any case.
ReadEnv ==
    /\ start \in {"env0", "env"}
    /\ imageEnv' = start /\ start' = "started"
    /\ UNCHANGED <<box, tool, script, attempt, expired, broken, why, cache>>

ReadEnvFails ==
    /\ start \in {"env0", "env"}
    /\ start' = IF start = "env0" THEN "env" ELSE "started"
    /\ UNCHANGED <<box, tool, script, attempt, expired, broken, why, cache, imageEnv>>

---------------------------------------------------------------------------

PrepareReturns == ScriptOk \/ ScriptFailed \/ NoShell

PrepareNext ==
    \/ \E a \in Attempts : ExecScript(a) \/ Script(a)
    \/ PrepareReturns \/ ExecBroken \/ TryAgain \/ WaitExpired
    \/ Expire \/ ReadEnv \/ ReadEnvFails

\* ReadyTimeout passes if nothing else happens; an exec whose context is done
\* returns; a timer fires; imageEnv's execs are bounded by the same context.
PrepareFairness ==
    /\ WF_prepareVars(Expire)
    /\ WF_prepareVars(expired /\ ExecBroken)
    /\ WF_prepareVars(TryAgain)
    /\ WF_prepareVars(ReadEnv \/ ReadEnvFails)

PrepareSpec == PrepareInit /\ [][PrepareNext]_prepareVars /\ PrepareFairness

PrepareTypeOK ==
    /\ box \in Boxes
    /\ tool \in {"none", "dir", "link"}
    /\ script \in [Attempts -> ScriptOver \cup {"layout", "test", "link", "look", "make"}]
    /\ start \in {"idle", "exec", "wait", "env0", "env", "started", "failed"}
    /\ attempt \in Attempts /\ broken \in 0 .. LastAttempt + 1
    /\ expired \in BOOLEAN
    /\ why \in {"none", "exec", "layout", "shell"}
    /\ cache \in {"default", "target"} /\ imageEnv \in {"none", "env0", "env"}

Prepared == start \in {"env0", "env", "started"}

\* Whatever scripts of earlier attempts are still doing, once prepare succeeded
\* there is a tool cache, a mounted one was not replaced, a link leads to a
\* directory the step user can write, and the path Start announces is the one in
\* use.  (The last only when ln does not fail now and then: a script may then
\* make the directory between another's tests and its ln.)
CacheInUse ==
    Prepared =>
        /\ tool # "none"
        /\ tool = "link" => Target = "usable" /\ ~box.mounted
        /\ box.links # "flaky" => (cache = "target" <=> tool = "link")

\* What steps find at toolCachePath is settled when prepare returns: no late
\* script changes it under them.
CacheSettled == [][Prepared => tool' = tool]_prepareVars

\* prepare doubles as the exec probe: while its time is not over it gives up on
\* a container only when LastAttempt + 1 execs failed.
FewBreaksForgiven ==
    start = "failed" /\ why = "exec" => expired \/ broken = LastAttempt + 1

\* prepare always comes back, whatever becomes of its execs.
PrepareEnds == start = "exec" ~> start \in {"started", "failed"}

===========================================================================
