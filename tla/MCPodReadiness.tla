-------------------------- MODULE MCPodReadiness --------------------------
(* PodReadiness on small instances. *)
EXTENDS PodReadiness
============================================================================
