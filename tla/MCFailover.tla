----------------------------- MODULE MCFailover -----------------------------
(* Small instances of FailoverStrategy for TLC.                            *)
EXTENDS FailoverStrategy, TLC

\* Jobs are only compared for equality.
JobSymmetry == Permutations(JobIds)
=============================================================================
