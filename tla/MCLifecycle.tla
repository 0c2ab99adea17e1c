---------------------------- MODULE MCLifecycle ----------------------------
(* Two GPUs, the first with two threads, and two signals, for TLC.            *)
EXTENDS Lifecycle

MCThreads == <<"g1", "g1", "g2">>
=============================================================================
