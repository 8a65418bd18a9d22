--------------------------- MODULE StepDelivery ---------------------------
(***************************************************************************)
(* What Exec promises the runner about one step: output is delivered in    *)
(* order, exactly once, and an exit code is reported only when the step    *)
(* recorded it and after all of its output; otherwise Exec ends with an    *)
(* error.  Broken streams, retries and processes do not appear.            *)
(***************************************************************************)
EXTENDS Naturals, Sequences

CONSTANTS Frame,    \* a chunk of output on one stream
          ExitCode, \* what a step may exit with
          Open      \* no exit code

VARIABLES produced,   \* the step's output so far
          recorded,   \* the exit code the step recorded, or Open
          delivered,  \* the output the runner received
          outcome     \* nothing reported yet, an exit code, or an error

Outcome(kind, c) == [kind |-> kind, code |-> c]
Pending == Outcome("pending", Open)

vars == <<produced, recorded, delivered, outcome>>

Init == /\ produced = <<>> /\ recorded = Open
        /\ delivered = <<>> /\ outcome = Pending

Produce == /\ recorded = Open
           /\ \E f \in Frame : produced' = Append(produced, f)
           /\ UNCHANGED <<recorded, delivered, outcome>>

RecordExit == /\ recorded = Open
              /\ recorded' \in ExitCode
              /\ UNCHANGED <<produced, delivered, outcome>>

Deliver == /\ outcome = Pending
           /\ Len(delivered) < Len(produced)
           /\ delivered' = Append(delivered, produced[Len(delivered) + 1])
           /\ UNCHANGED <<produced, recorded, outcome>>

ReportExit == /\ outcome = Pending
              /\ recorded # Open /\ delivered = produced
              /\ outcome' = Outcome("exit", recorded)
              /\ UNCHANGED <<produced, recorded, delivered>>

ReportError == /\ outcome = Pending
               /\ outcome' = Outcome("error", Open)
               /\ UNCHANGED <<produced, recorded, delivered>>

Next == Produce \/ RecordExit \/ Deliver \/ ReportExit \/ ReportError

Spec == Init /\ [][Next]_vars
============================================================================
