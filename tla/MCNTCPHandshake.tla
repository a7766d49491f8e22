-------------------------- MODULE MCNTCPHandshake --------------------------
(* Model-checking instance of NTCPHandshake: a two-block SessionConfirmA,  *)
(* so that it can arrive in parts, and up to two data frames from Bob, so  *)
(* that a data frame can arrive with SessionConfirmB and after the switch. *)
EXTENDS NTCPHandshake

\* Every fault the environment can inject.
MCAllFaults == FaultKinds
=============================================================================
