--------------------------- MODULE MCSessionStore ---------------------------
(***************************************************************************)
(* Instance of SessionStore for TLC.  Managers only ever compare equal or  *)
(* not, so that they may be permuted.                                      *)
(***************************************************************************)
EXTENDS SessionStore, TLC

ManagerSymmetry == Permutations(Managers)
=============================================================================
