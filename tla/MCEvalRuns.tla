----------------------------- MODULE MCEvalRuns -----------------------------
(***************************************************************************)
(* Instance of EvalRuns for TLC.  Runs only compare equal or not, so that  *)
(* they may be permuted.                                                   *)
(***************************************************************************)
EXTENDS EvalRuns, TLC

RunSymmetry == Permutations(Runs)
=============================================================================
