------------------------- MODULE MCSessionRegistry -------------------------
(***************************************************************************)
(* Instances of SessionRegistry for TLC: two ids, so that the cleanup task *)
(* can have a second id on its list while it closes the first.             *)
(***************************************************************************)
EXTENDS SessionRegistry
=============================================================================
