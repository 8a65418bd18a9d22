----------------------- MODULE StepResumeRefinement -----------------------
(* StepResume implements StepDelivery: the log's whole frames are what the *)
(* step produced, the decoder's output is what was delivered, and Exec's   *)
(* outcome counts once it has returned.                                    *)
EXTENDS StepResume

\* Index of the frame that is the exit record, if it is complete.
Whole == Len(log) \div 2
FrameKind(i) == log[2 * i - 1].kind
Exited == Whole > 0 /\ FrameKind(Whole) = "exit"

\* The output in the log, the exit code in it, and what Exec has reported.
Frames   == IF Exited THEN Whole - 1 ELSE Whole
Produced == [i \in 1 .. Frames |-> [kind |-> FrameKind(i), val |-> log[2 * i].val]]
Recorded == IF Exited THEN log[Len(log)].val ELSE NoCode
Reported == IF ppc # "done" THEN [kind |-> "pending", code |-> NoCode]
            ELSE IF result.kind = "exit" THEN result
            ELSE [kind |-> "error", code |-> NoCode]

Delivery == INSTANCE StepDelivery WITH
    Frame     <- [kind : Streams, val : 0 .. MaxChunks],
    ExitCode  <- Codes \cup FailCodes,
    Open      <- NoCode,
    produced  <- Produced,
    recorded  <- Recorded,
    delivered <- out,
    outcome   <- Reported

\* Exec keeps StepDelivery's promise to the runner, whatever breaks underneath:
\* exactly-once, in-order output, and an exit code only after all of it.
ImplementsDelivery == Delivery!Spec
============================================================================
