---------------------------- MODULE MCComponents ----------------------------
(***************************************************************************)
(* The components that no other one can disturb, checked in one run: the   *)
(* receive buffer, the parsing of a job, the configuration, the clocks of  *)
(* the GPUs, the hashrate and the nonces.  part says whose behaviour it    *)
(* is; the others stay in one of their initial states.  The states are the *)
(* disjoint union of those of the components.                              *)
(***************************************************************************)
EXTENDS RecvBuffer, MCJobData, MCOptions, MCAdl, Hashrate, Nonces

VARIABLE part

\* The choices that a component has in its initial state are its own.
AdlAtRest ==
  /\ profile = <<>> /\ settings.power = 0
  /\ \A b \in Busses : driver[b].table = CHOOSE table \in Tables : TRUE

HashrateAtRest == \A t \in ThreadIds : ring[t][0].stamp = 0

Init ==
  /\ part \in {"recv", "job", "options", "adl", "hashrate", "nonces"}
  /\ RecvInit /\ JobInit /\ OptionsInit /\ AdlInit /\ HashrateInit /\ NoncesInit
  /\ part # "adl" => AdlAtRest
  /\ part # "hashrate" => HashrateAtRest

Next ==
  \/ /\ part = "recv" /\ RecvNext
     /\ UNCHANGED <<part, jobVars, optionsVars, adlVars, hashrateVars, noncesVars>>
  \/ /\ part = "job" /\ JobNext
     /\ UNCHANGED <<part, recvVars, optionsVars, adlVars, hashrateVars, noncesVars>>
  \/ /\ part = "options" /\ OptionsNext
     /\ UNCHANGED <<part, recvVars, jobVars, adlVars, hashrateVars, noncesVars>>
  \/ /\ part = "adl" /\ AdlNext
     /\ UNCHANGED <<part, recvVars, jobVars, optionsVars, hashrateVars, noncesVars>>
  \/ /\ part = "hashrate" /\ HashrateNext
     /\ UNCHANGED <<part, recvVars, jobVars, optionsVars, adlVars, noncesVars>>
  \/ /\ part = "nonces" /\ NoncesNext
     /\ UNCHANGED <<part, recvVars, jobVars, optionsVars, adlVars, hashrateVars>>

Spec ==
  Init /\ [][Next]_<<part, recvVars, jobVars, optionsVars, adlVars, hashrateVars, noncesVars>>
=============================================================================
