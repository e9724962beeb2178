-------------------------- MODULE MCOpenWebUIPush --------------------------
(* Small instances of OpenWebUIPush for TLC.                               *)
EXTENDS OpenWebUIPush

AllFaults == FaultKinds
=============================================================================
