-------------------------- MODULE MCEnvironments --------------------------
(* Environments on small instances. *)
EXTENDS Environments
============================================================================
