------------------------- MODULE MCRemediationHandoff -------------------------
(***************************************************************************)
(* Instances of RemediationHandoff for TLC.  The state space is finite:    *)
(* issues and appended references are bounded.                             *)
(***************************************************************************)
EXTENDS RemediationHandoff, TLC

Symmetry == Permutations(Confirmers) \union Permutations(Keys)
=============================================================================
