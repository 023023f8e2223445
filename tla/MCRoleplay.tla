----------------------------- MODULE MCRoleplay -----------------------------
(***************************************************************************)
(* Instances of Roleplay for TLC: days of four poll intervals, the last of *)
(* which is quiet.                                                         *)
(***************************************************************************)
EXTENDS Roleplay
=============================================================================
