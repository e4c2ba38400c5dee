---------------------------- MODULE MCReviewIntake ----------------------------
(***************************************************************************)
(* An instance of ReviewIntake for TLC.  A request inserts a scan job only *)
(* if its lookup saw none, so there are never more than requests.          *)
(***************************************************************************)
EXTENDS ReviewIntake, TLC

Symmetry == Permutations(Handlers)
=============================================================================
