--------------------------- MODULE ImportPromise ---------------------------
(***************************************************************************)
(* What a Confluence import promises the user who started it, whatever     *)
(* workers, duplicates and API requests do: as long as the run is active   *)
(* its pages become jobs, each at most once; once it has ended no page is  *)
(* added any more; and only an ended run can be deleted.  ImportRun shows  *)
(* that the chunked task of src/backend/app/workers/import_tasks.py and    *)
(* the handlers of src/backend/app/api/import_routes.py implement this.    *)
(***************************************************************************)
EXTENDS Naturals

CONSTANT Pages

VARIABLES
  phase,     \* "active", "ended" or "deleted"
  imported   \* imported[p]: the page jobs the run has created for p

promiseVars == <<phase, imported>>

PromiseInit ==
  /\ phase = "active"
  /\ imported = [p \in Pages |-> 0]

\* _import_one_page commits the page's job.
ImportPage(p) ==
  /\ phase = "active" /\ imported[p] = 0
  /\ imported' = [imported EXCEPT ![p] = 1]
  /\ UNCHANGED phase

\* Finished, failed or cancelled, by the worker or by a request.
EndRun ==
  /\ phase = "active" /\ phase' = "ended"
  /\ UNCHANGED imported

\* DELETE /runs/{id}, keeping the jobs or deleting them as well.
DeleteRun ==
  /\ phase = "ended" /\ phase' = "deleted"
  /\ imported' \in {imported, [p \in Pages |-> 0]}

PromiseNext == (\E p \in Pages : ImportPage(p)) \/ EndRun \/ DeleteRun

PromiseSpec == PromiseInit /\ [][PromiseNext]_promiseVars
=============================================================================
