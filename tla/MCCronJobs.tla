----------------------------- MODULE MCCronJobs -----------------------------
(***************************************************************************)
(* Instances of CronJobs for TLC.  Run requests only ever compare equal or *)
(* not, so that they may be permuted; the jobs may not, since one of them  *)
(* is a one-shot job.                                                      *)
(***************************************************************************)
EXTENDS CronJobs, TLC

RunSymmetry == Permutations(Runs)
=============================================================================
