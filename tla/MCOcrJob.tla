----------------------------- MODULE MCOcrJob -----------------------------
(* Small instances of OcrJob for TLC: one or two jobs, one or two workers. *)
EXTENDS OcrJob

AllRequests == RequestKinds
AllFaults   == FaultKinds

\* What may happen to a job whose workers and API process stay up.
TaskFaults == {"fail", "request"}

\* What a restarted worker recovers from.
WorkerFaults == {"worker", "fail"}
=============================================================================
