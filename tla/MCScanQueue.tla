---------------------------- MODULE MCScanQueue ----------------------------
(***************************************************************************)
(* Instances of ScanQueue for TLC, their constants given in the cfg files. *)
(* Every state space is finite: a worker starts an execution only by       *)
(* spending an attempt, a direct executor only by inserting a row.         *)
(* Liveness is checked beside the invariants, so no symmetry is used.      *)
(***************************************************************************)
EXTENDS ScanQueue
=============================================================================
