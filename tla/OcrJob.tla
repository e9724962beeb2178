------------------------------- MODULE OcrJob -------------------------------
(***************************************************************************)
(* The life of OCR jobs: the Celery task `process_job`, the recovery hook  *)
(* of a worker that becomes ready (src/backend/app/workers/tasks.py), and  *)
(* the API requests that restart, edit and delete jobs                     *)
(* (src/backend/app/api/routes.py).                                        *)
(*                                                                         *)
(* A job row has no version and no lease.  The only guard is the claim: an *)
(* UPDATE that takes a PENDING job, or a RUNNING one not written to for    *)
(* two minutes.  Everything after the claim goes through the ORM, which    *)
(* writes the columns whose value differs from what the session loaded,    *)
(* whatever the row has become since (autoflush and expiry are off).       *)
(*                                                                         *)
(* Abstractions.  processing_info is the one bit `chosen`: the settings    *)
(* selected by start_collection_processing are in it.  result is whether   *)
(* result_markdown is set.  A worker has one slot (worker_concurrency is 1 *)
(* by default); a request acts on one job, except restart-pending.         *)
(***************************************************************************)
EXTENDS Naturals, Sequences, FiniteSets

CONSTANTS
  Jobs,        \* ids of the jobs
  Collected,   \* those uploaded to a collection that is not started yet
  Heavy,       \* those whose profile has a lower one to suggest
  Workers,     \* worker processes
  Callers,     \* slots for API requests, each used once
  Requests,    \* kinds of requests this instance considers
  FirstSends,  \* messages queued for an uploaded job when the behaviour starts
  Faults,      \* kinds of faults this instance considers
  MaxFaults    \* bound on the number of faults in one behaviour

FaultKinds   == {"child", "killed", "worker", "hook", "request", "slow", "fail", "inspect"}
RequestKinds == {"restart", "folder", "collection", "pending", "save", "delete"}

ASSUME ConstantsAssumption ==
  /\ IsFiniteSet(Jobs) /\ Jobs # {}
  /\ Collected \subseteq Jobs /\ Heavy \subseteq Jobs
  /\ Requests \subseteq RequestKinds /\ Faults \subseteq FaultKinds
  /\ FirstSends \in Nat /\ MaxFaults \in Nat

VARIABLES
  row,       \* row[j]: the jobs row
  old,       \* old[j]: updated_at is more than two minutes ago
  later,     \* the pairs of jobs <<j, k>> with j's updated_at after k's
  notified,  \* terminal events dispatched since the last claim
  pc, ctx,   \* the executions of process_job: where they are, what they hold
  up, hook,  \* the worker processes, and the jobs their recovery found RUNNING
  lock,      \* holder of the Redis lock worker:recovery:startup-lock
  queue,     \* queued messages of a job, new ones and redelivered ones
  unacked,   \* messages whose worker died, until the visibility timeout
  api,       \* API requests
  faults

jobVars    == <<row, old, later, notified>>
execVars   == <<pc, ctx>>
workerVars == <<up, hook, lock>>
mqVars     == <<queue, unacked>>
vars       == <<jobVars, execVars, workerVars, mqVars, api, faults>>

Statuses == {"PENDING", "RUNNING", "FINISHED", "FAILED", "GONE"}
Row      == [status : Statuses, chosen : BOOLEAN, result : BOOLEAN]
NewRow   == [status |-> "PENDING", chosen |-> FALSE, result |-> FALSE]

Context  == [job : Jobs, again : BOOLEAN, row : Row, event : {"FINISHED", "FAILED"}]
Nothing  == [job |-> CHOOSE j \in Jobs : TRUE, again |-> FALSE, row |-> NewRow,
             event |-> "FAILED"]

\* What each kind of request does, in order, after it was received.
Program == [restart    |-> <<"read", "inspect", "write", "send">>,
            folder     |-> <<"inspect", "read", "send", "write">>,
            collection |-> <<"read", "send", "write">>,
            pending    |-> <<"inspect", "read", "write", "send">>,
            save       |-> <<"save">>,
            delete     |-> <<"delete">>]

\* step 0: not received; beyond the last step: answered.
Request   == [step : 0..5, op : RequestKinds, targets : SUBSET Jobs,
              seen : [Jobs -> Row], active : SUBSET Jobs]
NoRequest == [step |-> 0, op |-> "restart", targets |-> {},
              seen |-> [j \in Jobs |-> NewRow], active |-> {}]
Answered  == [NoRequest EXCEPT !.step = 5]

NoHolder == "none"

TypeOK ==
  /\ row \in [Jobs -> Row]
  /\ old \in [Jobs -> BOOLEAN]
  /\ later \subseteq Jobs \X Jobs
  /\ notified \in [Jobs -> SUBSET {"FINISHED", "FAILED"}]
  /\ pc \in [Workers -> {"idle", "claimed", "loaded", "convert", "dispatch"}]
  /\ ctx \in [Workers -> Context]
  /\ up \in [Workers -> {"up", "down", "scan", "commit", "send"}]
  /\ hook \in [Workers -> SUBSET Jobs]
  /\ lock \in Workers \cup {NoHolder}
  /\ queue \in [Jobs -> [new : Nat, again : Nat]]
  /\ unacked \in [Jobs -> Nat]
  /\ api \in [Callers -> Request]
  /\ faults \in Nat

StrictOrder(r) == \A j, k, l \in Jobs :
  /\ <<j, k>> \in r <=> j # k /\ <<k, j>> \notin r
  /\ <<j, k>> \in r /\ <<k, l>> \in r => <<j, l>> \in r

\* Uploaded jobs were committed and sent; a collection's jobs are not sent yet.
\* A worker is running or about to become ready.
Init ==
  /\ row = [j \in Jobs |-> NewRow]
  /\ old = [j \in Jobs |-> FALSE]
  /\ later \in SUBSET (Jobs \X Jobs) /\ StrictOrder(later)
  /\ notified = [j \in Jobs |-> {}]
  /\ pc = [w \in Workers |-> "idle"] /\ ctx = [w \in Workers |-> Nothing]
  /\ up \in [Workers -> IF "worker" \in Faults THEN {"up", "down"} ELSE {"up"}]
  /\ hook = [w \in Workers |-> {}] /\ lock = NoHolder
  /\ queue = [j \in Jobs |-> [new |-> IF j \in Collected THEN 0 ELSE FirstSends, again |-> 0]]
  /\ unacked = [j \in Jobs |-> 0]
  /\ api = [c \in Callers |-> NoRequest]
  /\ faults = 0

-----------------------------------------------------------------------------
(* Helpers                                                                 *)

Fault(kind) ==
  /\ kind \in Faults /\ faults < MaxFaults
  /\ faults' = faults + 1

\* Is there a row to load or to UPDATE?  Mutant: a row that is missing is
\* inserted again.
Stored_Inserted(j) == TRUE
Stored(j) == row[j].status # "GONE"

Executors(j) == {w \in Workers : pc[w] # "idle" /\ ctx[w].job = j}

\* An UPDATE of the rows js sets updated_at (onupdate).
Touch(js) ==
  /\ old' = [j \in Jobs |-> old[j] /\ j \notin js]
  /\ later' = {p \in Jobs \X Jobs : \/ p[1] \in js /\ p[2] \notin js
                                    \/ p \in later /\ (p[1] \in js <=> p[2] \in js)}

\* session.commit(): a column is written if its value is not the loaded one.
\* processing_info always differs, its execution part is written anew.
Flushed(j, seen, new) ==
  [status |-> IF new.status = seen.status THEN row[j].status ELSE new.status,
   chosen |-> new.chosen,
   result |-> IF new.result = seen.result THEN row[j].result ELSE new.result]

SetRow(j, r) == row' = [row EXCEPT ![j] = r] /\ Touch({j})

Send(js) == queue' = [j \in Jobs |-> IF j \in js THEN [queue[j] EXCEPT !.new = @ + 1] ELSE queue[j]]

Goto(w, point) == pc' = [pc EXCEPT ![w] = point]
Ack(w)         == Goto(w, "idle") /\ ctx' = [ctx EXCEPT ![w] = Nothing]

-----------------------------------------------------------------------------
(* process_job                                                             *)

\* The two UPDATEs that claim.  Mutant: no second one, for a job whose worker
\* died.
Claimable_NoReclaim(j) == row[j].status = "PENDING"
Claimable(j) == row[j].status = "PENDING" \/ (row[j].status = "RUNNING" /\ old[j])

TakeMessage(w, j, kind) ==
  /\ up[w] = "up" /\ pc[w] = "idle" /\ queue[j][kind] > 0
  /\ queue' = [queue EXCEPT ![j][kind] = @ - 1]

ClaimJob(w, j, kind) ==
  /\ TakeMessage(w, j, kind) /\ Claimable(j)
  /\ SetRow(j, [row[j] EXCEPT !.status = "RUNNING"])
  /\ notified' = [notified EXCEPT ![j] = {}]
  /\ Goto(w, "claimed")
  /\ ctx' = [ctx EXCEPT ![w] = [Nothing EXCEPT !.job = j, !.again = (kind = "again")]]
  /\ UNCHANGED <<workerVars, unacked, api, faults>>

IgnoreMessage(w, j, kind) ==
  /\ TakeMessage(w, j, kind) /\ ~Claimable(j)
  /\ UNCHANGED <<jobVars, execVars, workerVars, unacked, api, faults>>

\* db.get(Job, job_id): from here on the session works on this copy.
LoadJob(w) ==
  /\ pc[w] = "claimed" /\ Stored(ctx[w].job)
  /\ Goto(w, "loaded")
  /\ ctx' = [ctx EXCEPT ![w].row = row[ctx[w].job]]
  /\ UNCHANGED <<jobVars, workerVars, mqVars, api, faults>>

\* The row is gone: nothing to load, or the UPDATE matches no row and raises.
Abandon(w) ==
  /\ pc[w] \in {"claimed", "loaded", "convert"} /\ ~Stored(ctx[w].job)
  /\ Ack(w)
  /\ UNCHANGED <<jobVars, workerVars, mqVars, api, faults>>

\* A redelivered job is not tried again with a profile that may have killed
\* its worker: it fails with the suggestion of a lower one.
StopsRedelivered(w) == ctx[w].again /\ ctx[w].job \in Heavy

\* The markdown of a conversion has another processed_at each time, so it is
\* written even if there was a result before.
CommitEnd(w, new) ==
  /\ Stored(ctx[w].job)
  /\ SetRow(ctx[w].job, [Flushed(ctx[w].job, ctx[w].row, new) EXCEPT
                           !.result = IF new.status = "FINISHED" THEN new.result ELSE @])
  /\ Goto(w, "dispatch")
  /\ ctx' = [ctx EXCEPT ![w].row = new, ![w].event = new.status]
  /\ UNCHANGED <<notified, workerVars, mqVars, api>>

FailRedelivered(w) ==
  /\ pc[w] = "loaded" /\ StopsRedelivered(w)
  /\ CommitEnd(w, [ctx[w].row EXCEPT !.status = "FAILED"])
  /\ UNCHANGED faults

\* processing_info is written as a whole: settings as loaded, now running.
StartConversion(w) ==
  /\ pc[w] = "loaded" /\ ~StopsRedelivered(w)
  /\ Stored(ctx[w].job)
  /\ SetRow(ctx[w].job, [row[ctx[w].job] EXCEPT !.chosen = ctx[w].row.chosen])
  /\ Goto(w, "convert")
  /\ UNCHANGED <<notified, ctx, workerVars, mqVars, api, faults>>

\* Mutant: the status is committed without the markdown.
Converted_NoMarkdown(r) == [r EXCEPT !.status = "FINISHED"]
Converted(r) == [r EXCEPT !.status = "FINISHED", !.result = TRUE]

FinishJob(w) ==
  /\ pc[w] = "convert"
  /\ CommitEnd(w, Converted(ctx[w].row))
  /\ UNCHANGED faults

\* Any exception: the conversion, the soft time limit, a missing input file,
\* or a VL connection that was removed.
FailJob(w) ==
  /\ pc[w] = "convert" \/ (pc[w] = "loaded" /\ ~StopsRedelivered(w))
  /\ Fault("fail")
  /\ CommitEnd(w, [ctx[w].row EXCEPT !.status = "FAILED"])

\* webhook_tasks.dispatch_job_event, after the commit of the end state.
\* Mutant: failed jobs are not announced.
Announced_FinishedOnly(event) == {event} \cap {"FINISHED"}
Announced(event) == {event}

DispatchEvent(w) ==
  /\ pc[w] = "dispatch"
  /\ notified' = [notified EXCEPT ![ctx[w].job] = @ \cup Announced(ctx[w].event)]
  /\ Ack(w)
  /\ UNCHANGED <<row, old, later, workerVars, mqVars, api, faults>>

-----------------------------------------------------------------------------
(* Worker processes and the broker                                         *)

\* The child process that runs the task dies (OOM): reject_on_worker_lost puts
\* the message back at once, marked as redelivered.
ChildDies(w) ==
  /\ pc[w] # "idle" /\ Fault("child")
  /\ queue' = [queue EXCEPT ![ctx[w].job].again = @ + 1]
  /\ Ack(w)
  /\ UNCHANGED <<jobVars, workerVars, unacked, api>>

\* The hard time limit kills the task and acknowledges its message.
HardLimit(w) ==
  /\ pc[w] # "idle" /\ Fault("killed")
  /\ Ack(w)
  /\ UNCHANGED <<jobVars, workerVars, mqVars, api>>

\* The container is killed; the message it held stays with the broker.
WorkerDies(w) ==
  /\ \/ up[w] = "up" /\ Fault("worker")
     \/ up[w] \in {"scan", "commit", "send"} /\ Fault("hook")
  /\ up' = [up EXCEPT ![w] = "down"] /\ hook' = [hook EXCEPT ![w] = {}]
  /\ unacked' = IF pc[w] = "idle" THEN unacked
                ELSE [unacked EXCEPT ![ctx[w].job] = @ + 1]
  /\ Ack(w)
  /\ UNCHANGED <<jobVars, lock, queue, api>>

\* A request is answered within seconds, so no timeout expires during one.  A
\* conversion writes nothing while it runs, "slow" lets one (or a request) take
\* longer than two minutes.
Unhurried(js) ==
  "slow" \in Faults \/ ((\A j \in js : Executors(j) = {}) /\ (\A c \in Callers : api[c].step \in {0, 5}))

\* The visibility timeout (half an hour) is longer than the two minutes after which
\* the row of a dead execution is old.
RestoreUnacked(j) ==
  /\ unacked[j] > 0
  /\ Unhurried({})
  /\ row[j].status = "RUNNING" => old[j] \/ Executors(j) # {}
  /\ unacked' = [unacked EXCEPT ![j] = @ - 1]
  /\ queue' = [queue EXCEPT ![j].again = @ + 1]
  /\ UNCHANGED <<jobVars, execVars, workerVars, api, faults>>

\* The lock expires after 120 seconds; the recovery takes less than that.
LockExpires ==
  /\ lock # NoHolder /\ up[lock] \notin {"scan", "commit", "send"}
  /\ lock' = NoHolder
  /\ UNCHANGED <<jobVars, execVars, up, hook, mqVars, api, faults>>

\* Two minutes go by without a write to j or to a row written before it; only
\* for RUNNING rows it matters.
Aged(j) == {k \in Jobs : row[k].status = "RUNNING" /\ <<k, j>> \notin later}

TwoMinutesPass(j) ==
  /\ row[j].status = "RUNNING" /\ ~old[j]
  /\ Unhurried(Aged(j))
  /\ old' = [k \in Jobs |-> old[k] \/ k \in Aged(j)]
  /\ UNCHANGED <<row, later, notified, execVars, workerVars, mqVars, api, faults>>

-----------------------------------------------------------------------------
(* The worker_ready hook                                                   *)

Boot(w) ==
  /\ up[w] = "down"
  /\ \/ /\ lock = NoHolder
        /\ lock' = w /\ up' = [up EXCEPT ![w] = "scan"]
     \/ /\ lock # NoHolder                        \* another worker recovers
        /\ up' = [up EXCEPT ![w] = "up"] /\ UNCHANGED lock
  /\ UNCHANGED <<jobVars, execVars, hook, mqVars, api, faults>>

ScanRunning(w) ==
  /\ up[w] = "scan"
  /\ hook' = [hook EXCEPT ![w] = {j \in Jobs : row[j].status = "RUNNING"}]
  /\ up' = [up EXCEPT ![w] = "commit"]
  /\ UNCHANGED <<jobVars, execVars, lock, mqVars, api, faults>>

\* Every RUNNING job becomes PENDING, whoever runs it.  If one was deleted
\* meanwhile the UPDATE raises and the hook gives up.
Requeue(w) ==
  /\ up[w] = "commit"
  /\ \/ /\ \A j \in hook[w] : Stored(j)
        /\ row' = [j \in Jobs |-> IF j \in hook[w] THEN [row[j] EXCEPT !.status = "PENDING"] ELSE row[j]]
        /\ Touch(hook[w]) /\ UNCHANGED hook
     \/ /\ \E j \in hook[w] : ~Stored(j)
        /\ hook' = [hook EXCEPT ![w] = {}]
        /\ UNCHANGED <<row, old, later>>
  /\ up' = [up EXCEPT ![w] = "send"]
  /\ UNCHANGED <<notified, execVars, lock, mqVars, api, faults>>

\* One message per job, then the lock is released if it is still this
\* worker's.  Mutant: no messages.
SendRecovered_Nothing(w, j) == UNCHANGED queue
SendRecovered(w, j) == Send({j})

SendNext(w) ==
  /\ up[w] = "send"
  /\ \E j \in hook[w] : SendRecovered(w, j) /\ hook' = [hook EXCEPT ![w] = @ \ {j}]
  /\ UNCHANGED <<jobVars, execVars, up, lock, unacked, api, faults>>

BecomeReady(w) ==
  /\ up[w] = "send" /\ hook[w] = {}
  /\ up' = [up EXCEPT ![w] = "up"]
  /\ lock' = IF lock = w THEN NoHolder ELSE lock
  /\ UNCHANGED <<jobVars, execVars, hook, mqVars, api, faults>>

-----------------------------------------------------------------------------
(* API requests                                                            *)

Step(c)  == IF api[c].step \in DOMAIN Program[api[c].op] THEN Program[api[c].op][api[c].step]
            ELSE "none"
Advanced(c) == [api[c] EXCEPT !.step = @ + 1]
Onward(c)   == IF api[c].step < Len(Program[api[c].op]) THEN Advanced(c) ELSE Answered
Answer(c)   == api' = [api EXCEPT ![c] = Answered]
Present(c)  == \A j \in api[c].targets : Stored(j)

\* The messages sent for a request: one per job it names; restart-pending sends
\* one for every job that is PENDING by now.
Recipients(c) == IF api[c].op = "pending" THEN {j \in Jobs : row[j].status = "PENDING"}
                 ELSE api[c].targets

ReceiveRequest(c) ==
  /\ api[c].step = 0
  /\ \E op \in Requests :
       \E js \in IF op = "pending" THEN {{}} ELSE {{j} : j \in Jobs} :
         api' = [api EXCEPT ![c] = [NoRequest EXCEPT !.step = 1, !.op = op, !.targets = js]]
  /\ UNCHANGED <<jobVars, execVars, workerVars, mqVars, faults>>

\* _active_process_job_ids: asks the workers; an error counts as no answer.
Inspect(c) ==
  /\ Step(c) = "inspect"
  /\ \/ /\ api' = [api EXCEPT ![c] = [Advanced(c) EXCEPT !.active = {j \in Jobs : Executors(j) # {}}]]
        /\ UNCHANGED faults
     \/ /\ Fault("inspect")
        /\ api' = [api EXCEPT ![c] = Advanced(c)]
  /\ UNCHANGED <<jobVars, execVars, workerVars, mqVars>>

\* restart-pending spares as many RUNNING jobs as there are active tasks, those
\* with the latest updated_at.
Excess(n) ==
  LET running == {j \in Jobs : row[j].status = "RUNNING"}
  IN  {j \in running : Cardinality({k \in running : <<k, j>> \in later}) >= n}

ReadRow(c) ==
  /\ Step(c) = "read"
  /\ Present(c)
  /\ api' = [api EXCEPT ![c] = [Advanced(c) EXCEPT
               !.seen = row,
               !.targets = IF api[c].op = "pending" THEN Excess(Cardinality(api[c].active)) ELSE @]]
  /\ UNCHANGED <<jobVars, execVars, workerVars, mqVars, faults>>

\* 409 "Job is currently running", or skipped by restart_folder.  Mutant: the
\* list of active tasks is not consulted.
Blocked_Never(c) == FALSE
Blocked(c) ==
  /\ api[c].op \in {"restart", "folder"} /\ api[c].step = 3
  /\ \E j \in api[c].targets : api[c].seen[j].status = "RUNNING" /\ j \in api[c].active

Refuse(c) ==
  /\ \/ Step(c) = "read" /\ ~Present(c)
     \/ Blocked(c)
  /\ Answer(c)
  /\ UNCHANGED <<jobVars, execVars, workerVars, mqVars, faults>>

\* What a request makes of a row it has read.  processing_info is written as a
\* whole, and a restart also drops the result.
Edited(c, j) ==
  CASE api[c].op \in {"restart", "folder"} -> [api[c].seen[j] EXCEPT !.status = "PENDING", !.result = FALSE]
    [] api[c].op = "pending"              -> [api[c].seen[j] EXCEPT !.status = "PENDING"]
    [] api[c].op = "collection"           -> [api[c].seen[j] EXCEPT !.chosen = TRUE]

\* The commit.  It fails as a whole if a row is gone by now.
Write(c) ==
  /\ Step(c) = "write" /\ ~Blocked(c)
  /\ IF Present(c)
     THEN /\ row' = [j \in Jobs |->
                      IF j \in api[c].targets
                      THEN Flushed(j, api[c].seen[j], Edited(c, j))
                      ELSE row[j]]
          /\ Touch(api[c].targets)
          /\ api' = [api EXCEPT ![c] = Onward(c)]
     ELSE UNCHANGED <<row, old, later>> /\ Answer(c)
  /\ UNCHANGED <<notified, execVars, workerVars, mqVars, faults>>

SendMessages(c) ==
  /\ Step(c) = "send" /\ ~Blocked(c)
  /\ Send(Recipients(c))
  /\ api' = [api EXCEPT ![c] = Onward(c)]
  /\ UNCHANGED <<jobVars, execVars, workerVars, unacked, faults>>

\* save_markdown holds the row lock from its read to its commit.
SaveMarkdown(c) ==
  /\ Step(c) = "save" /\ Answer(c)
  /\ \E j \in api[c].targets :
       IF row[j].status = "FINISHED" THEN SetRow(j, [row[j] EXCEPT !.result = TRUE])
       ELSE UNCHANGED <<row, old, later>>
  /\ UNCHANGED <<notified, execVars, workerVars, mqVars, faults>>

DeleteJob(c) ==
  /\ Step(c) = "delete" /\ Answer(c)
  /\ \E j \in api[c].targets :
       IF Stored(j) THEN SetRow(j, [NewRow EXCEPT !.status = "GONE"])
       ELSE UNCHANGED <<row, old, later>>
  /\ UNCHANGED <<notified, execVars, workerVars, mqVars, faults>>

\* The API process dies between two steps of a request.
RequestDies(c) ==
  /\ Step(c) # "none" /\ Fault("request")
  /\ Answer(c)
  /\ UNCHANGED <<jobVars, execVars, workerVars, mqVars>>

-----------------------------------------------------------------------------
(* The specification                                                       *)

Receive(j) == \E w \in Workers, kind \in {"new", "again"} :
                ClaimJob(w, j, kind) \/ IgnoreMessage(w, j, kind)

Execute(w) == \/ LoadJob(w) \/ Abandon(w) \/ FailRedelivered(w) \/ StartConversion(w)
              \/ FinishJob(w) \/ DispatchEvent(w)

Recover(w) == Boot(w) \/ ScanRunning(w) \/ Requeue(w) \/ SendNext(w) \/ BecomeReady(w)

Serve(c) == \/ Inspect(c) \/ ReadRow(c) \/ Refuse(c) \/ Write(c) \/ SendMessages(c)
            \/ SaveMarkdown(c) \/ DeleteJob(c)

Next ==
  \/ \E j \in Jobs : Receive(j) \/ RestoreUnacked(j) \/ TwoMinutesPass(j)
  \/ \E w \in Workers : Execute(w) \/ FailJob(w) \/ ChildDies(w) \/ HardLimit(w)
                        \/ WorkerDies(w) \/ Recover(w)
  \/ LockExpires
  \/ \E c \in Callers : ReceiveRequest(c) \/ Serve(c) \/ RequestDies(c)

Spec == Init /\ [][Next]_vars

\* A Redis list is first in, first out: a message is not overtaken for ever.
\* Containers that died are restarted, and time passes.
FairSpec ==
  /\ Spec
  /\ \A j \in Jobs : SF_vars(Receive(j)) /\ WF_vars(RestoreUnacked(j)) /\ WF_vars(TwoMinutesPass(j))
  /\ \A w \in Workers : WF_vars(Execute(w)) /\ WF_vars(Recover(w))
  /\ WF_vars(LockExpires)
  /\ \A c \in Callers : WF_vars(Serve(c))

-----------------------------------------------------------------------------
(* Properties                                                              *)

Ended == {"FINISHED", "FAILED"}

\* A document is converted by one worker at a time: the claim keeps a second
\* message for a job (a duplicate send, a restart) from starting it again.
OneExecutor == \A j \in Jobs : Cardinality({w \in Executors(j) : pc[w] # "dispatch"}) <= 1

\* A finished job has its markdown, whatever restarts, saves and late failures
\* did to the row.
FinishedHasResult == \A j \in Jobs : row[j].status = "FINISHED" => row[j].result

\* No job waits for a message nobody will send: a started PENDING job has one
\* queued or kept by the broker, or whoever made it PENDING is about to send it.
Started(j) == j \in Collected => row[j].chosen
PendingIsQueued ==
  \A j \in Jobs : row[j].status = "PENDING" /\ Started(j) =>
    \/ queue[j].new + queue[j].again + unacked[j] > 0
    \/ \E w \in Workers : up[w] = "send" /\ j \in hook[w]
    \/ \E c \in Callers : Step(c) = "send" /\ j \in Recipients(c)

\* The end of a job that did end is announced to the webhooks, as the end it
\* has, by the execution that committed it.
EndAnnounced ==
  \A j \in Jobs : row[j].status \in Ended =>
    \/ row[j].status \in notified[j]
    \/ \E w \in Executors(j) : pc[w] = "dispatch" /\ ctx[w].event = row[j].status

\* The end of a job, whoever else wrote its row meanwhile, is one its users and
\* webhooks can rely on (process_job and restart_job).
EndIsComplete == FinishedHasResult /\ EndAnnounced

\* A deleted job does not come back: executions, restarts and the recovery that
\* read its row before leave nothing behind.
DeletedStaysDeleted ==
  [][\A j \in Jobs : row[j].status = "GONE" => row'[j] = row[j]]_vars

\* A queued job is finished, failed or deleted at last, also if workers die.
EventuallyDone == \A j \in Jobs : row[j].status = "PENDING" ~> row[j].status \in Ended \cup {"GONE"}

-----------------------------------------------------------------------------
(* Statements of the documentation the code does not keep                  *)

\* "Keep truly active RUNNING tasks": restart-pending resets no job a worker
\* has been executing since before the workers were asked.
PendingSparesActive ==
  [][\A c \in Callers, j \in Jobs :
       Step(c) = "write" /\ api[c].op = "pending" /\ j \in api[c].active /\ api'[c] # api[c]
         /\ Executors(j) # {} /\ row[j].status = "RUNNING" => row'[j].status = "RUNNING"]_vars

\* "block truly active jobs": a restart makes no job PENDING that a worker is
\* executing.
RestartSparesActive ==
  [][\A c \in Callers, j \in Jobs :
       Step(c) = "write" /\ api[c].op = "restart" /\ api'[c] # api[c]
         /\ Executors(j) # {} /\ row[j].status = "RUNNING" => row'[j].status = "RUNNING"]_vars

\* "Requeue jobs that were RUNNING when the worker/container died": the
\* recovery takes no job away from a worker that is alive.
RecoverySparesActive ==
  [][\A w \in Workers, j \in Jobs :
       up[w] = "commit" /\ up'[w] = "send" /\ Executors(j) # {} /\ row[j].status = "RUNNING" =>
         row'[j].status = "RUNNING"]_vars

\* "must survive the RUNNING transition": the selection committed by
\* start_collection_processing is not overwritten.
SelectionKept ==
  [][\A j \in Jobs : row[j].chosen /\ row'[j].status # "GONE" => row'[j].chosen]_vars
=============================================================================
