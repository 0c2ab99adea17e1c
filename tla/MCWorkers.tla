----------------------------- MODULE MCWorkers -----------------------------
(* Small instances of Workers for TLC.                                     *)
EXTENDS Workers, TLC

\* Threads are interchangeable, and so are the jobs; used for safety only.
ThreadSymmetry == Permutations(Threads) \cup Permutations(Jobs)
=============================================================================
