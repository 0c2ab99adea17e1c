----------------------------- MODULE MCNetwork -----------------------------
(* Small instances of Network for TLC.                                     *)
EXTENDS Network, TLC

\* Jobs are only compared for equality.
JobSymmetry == Permutations(JobIds)
=============================================================================
