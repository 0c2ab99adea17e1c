---------------------------- MODULE MCSubmission ----------------------------
(* Instances of Submission for TLC: the constants are in the .cfg files. *)
EXTENDS Submission
=============================================================================
