-------------------------- MODULE MCRefreshChain --------------------------
(* Small instances of RefreshChain for TLC. *)
EXTENDS RefreshChain

AllFaults == FaultKinds
=============================================================================
