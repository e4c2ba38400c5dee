------------------------- MODULE MCOrchestrationQueue -------------------------
(***************************************************************************)
(* Instances of OrchestrationQueue for TLC.  The state spaces are finite:  *)
(* attempts are bounded and a session holds at most one copy of each row.  *)
(***************************************************************************)
EXTENDS OrchestrationQueue, TLC

Symmetry == Permutations(Workers) \union Permutations(Callers)
=============================================================================
