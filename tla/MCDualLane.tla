----------------------------- MODULE MCDualLane -----------------------------
(***************************************************************************)
(* Instance of DualLane for TLC: three turns are enough for a backlog of   *)
(* two snapshots behind a hanging analysis; with a threshold of one turn   *)
(* each of them may be followed by a compression and a pruning.            *)
(***************************************************************************)
EXTENDS DualLane
=============================================================================
