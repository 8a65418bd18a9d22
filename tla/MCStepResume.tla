--------------------------- MODULE MCStepResume ---------------------------
(* StepResume on small instances. *)
EXTENDS StepResumeInvariant, StepResumeRefinement, TLC

Symmetry == Permutations(Procs)
============================================================================
