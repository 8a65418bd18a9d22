------------------------ MODULE StepResumeInvariant ------------------------
(* The inductive invariant behind StepResume's safety properties: why a    *)
(* step starts once, and why resuming neither loses nor repeats output.    *)
EXTENDS StepResume

\* The supervisor can no longer write to the log.
LogClosed == sup \in {"record", "drain", "gone"}

\* Whoever created the log is alone in starting the supervisor, and the
\* supervisor starts the command at most once (run, supervise).
StartInv ==
    /\ ~logged => sup = "none" /\ \A p \in Procs : pc[p] # "created"
    /\ \A p \in Procs : pc[p] = "created" => sup = "none"
    /\ \A p, q \in Procs : pc[p] = "created" /\ pc[q] = "created" => p = q
    /\ sup \in {"none", "boot"} => starts = 0 /\ cmd = "none"
    /\ starts <= 1

\* The log is a sequence of whole frames unless a write failed, and an exit
\* record is the last thing written, with the command's exit code (frameLog).
LogInv ==
    /\ ~lerr => Len(log) % 2 = 0
    /\ \A i \in 1 .. Len(log) :
         /\ i % 2 = 1 => log[i].kind \in Streams \cup {"exit"} /\ log[i] = Header(log[i].kind)
         /\ i % 2 = 0 => log[i] = Payload(log[i].val)
         /\ log[i].kind = "exit" => LogClosed /\ i >= Len(log) - 1 /\ cmd # "running"
         /\ log[i].kind = "exit" /\ i < Len(log) => log[i + 1].val = code
    /\ sup \in {"settle", "finish", "record", "drain"} => cmd # "running"
    /\ sup \in {"settle", "finish"} => code \in Nat
    /\ cmd = "exited" => code \in Nat

\* An attempt begins at the decoder's offset and never passes the log's end
\* (runStep, follow).
StreamInv ==
    /\ ppc # "exec" => cur = NoProc /\ fst = "open"
    /\ fst = "open" => dpos = 0 /\ fpos = 0
    /\ ppc \in {"connect", "backoff"} \/ (ppc = "exec" /\ fst = "open") =>
         ~decErr /\ exit = NoCode
    /\ ppc = "connect" \/ (ppc = "exec" /\ fst = "open") => before = offset
    /\ ppc = "exec" /\ fst # "open" /\ ~decErr => dpos = offset
    /\ dpos <= fpos /\ fpos <= Len(log)

\* What the decoder holds (Decoder.Write): ExactlyOnce, and an exit code is the
\* one the log ends with.
DecodeInv ==
    /\ ExactlyOnce
    /\ NoCorruption
    /\ pending # <<>> => exit = NoCode
    /\ exit # NoCode => /\ Len(log) >= 2 /\ log[Len(log) - 1].kind = "exit"
                        /\ log[Len(log)].val = exit
                        /\ ~decErr /\ offset = Len(log)

\* The log ends with a whole exit record.
ExitLogged == Len(log) >= 2 /\ log[Len(log) - 1].kind = "exit"

\* What the files of the step directory say of each other: nobody follows a log
\* that does not exist, and a done file without a message means that the exit
\* record is in the log (run, supervise).
DoneInv ==
    /\ ~logged => Len(log) = 0
    /\ \A p \in Procs : pc[p] \notin {"none", "run"} => logged
    /\ sup = "record" /\ ~lerr => ExitLogged
    /\ doneFile = "ok" => ExitLogged /\ sup \in {"drain", "gone"}

\* A follower that reports a complete log saw such a done file and drained the
\* log after it, so that once all has arrived the decoder has the exit code.
FollowInv ==
    /\ \A i \in 1 .. Len(out) : out[i].kind # "exit"
    /\ fst = "final" => doneFile = "ok"
    /\ hstat # ExitNoLog
    /\ ppc = "exec" /\ hstat = 0 => fst = "final" /\ fpos = Len(log)
    /\ ppc = "judge" /\ err = "nil" /\ hstat = 0 => decErr \/ exit # NoCode

\* An exit verdict is the decoder's exit code, and no verdict blames a follower
\* that did its work.
ResultInv ==
    /\ result.kind = "exit" => exit # NoCode /\ result.code = exit
    /\ FollowIsComplete

Inv == /\ TypeOK /\ StartInv /\ LogInv /\ StreamInv /\ DecodeInv
       /\ DoneInv /\ FollowInv /\ ResultInv
============================================================================
