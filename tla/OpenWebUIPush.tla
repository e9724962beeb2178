--------------------------- MODULE OpenWebUIPush ---------------------------
(***************************************************************************)
(* Pushes of finished jobs into one knowledge collection of an OpenWebUI   *)
(* server: the request that creates them and the Celery task               *)
(* `push_openwebui` that uploads the Markdown, waits until the server has  *)
(* processed it, attaches the file and removes the file of the previous    *)
(* push (src/backend/app/workers/openwebui_tasks.py,                       *)
(* api/openwebui_routes.py, services/openwebui.py).                        *)
(*                                                                         *)
(* Abstractions.  A request makes one push per job, so a push is a pair.   *)
(* All go through one connection into one collection; the content of a job *)
(* and its hash are a version number.  A request to the server is one step *)
(* with an outcome; an error reply may come for something that was done.   *)
(***************************************************************************)
EXTENDS Naturals, FiniteSets

CONSTANTS
  Requests,    \* POST /openwebui/pushes, numbered in the order of their INSERTs
  Jobs,
  Workers,     \* worker processes, numbered: the first idle one takes a message
  Cap,         \* settings.openwebui_push_max_pending_per_user
  Faults,      \* kinds of faults this instance considers
  MaxFaults    \* bound on the number of faults in one behaviour

FaultKinds == {"child", "worker", "sender", "remote", "exception", "job", "connection"}

ASSUME ConstantsAssumption ==
  /\ Requests \subseteq Nat /\ Workers \subseteq Nat
  /\ IsFiniteSet(Requests) /\ IsFiniteSet(Jobs) /\ IsFiniteSet(Workers)
  /\ Cap \in Nat \ {0} /\ Faults \subseteq FaultKinds /\ MaxFaults \in Nat

Pushes  == Requests \X Jobs
JobOf(p) == p[2]

VARIABLES
  status, recorded, hash,   \* openwebui_pushes: status, openwebui_file_id, pushed_content_sha256
  fresh,                    \* running pushes whose updated_at is within the stale window
  job, version,             \* the jobs: state, and version of their Markdown
  connection,
  request, eligible,        \* the requests: where they are, the jobs they push
  queue, unacked,           \* messages: queued, and held by dead worker containers
  pc, ctx,                  \* executions of push_openwebui
  store, attached, uploads, \* the server: files, those in the collection, and how many it was given
  faults,
  killed, mixed             \* pushes whose child died; jobs whose pushes overlapped or
                            \* ran in another order than they were made

rows    == <<status, recorded, hash, fresh>>
env     == <<job, version, connection>>
clients == <<request, eligible>>
broker  == <<queue, unacked>>
execs   == <<pc, ctx>>
server  == <<store, attached, uploads>>
history == <<killed, mixed>>
vars    == <<rows, env, clients, broker, execs, server, faults, history>>

\* A file is known by the push that uploaded it, its version and a number of its
\* own, as the server gives no id twice.  NoFile is NULL.
File    == [push : Pushes, version : Nat, try : Nat]
NoFile  == [push |-> <<>>, version |-> 0, try |-> 0]
Context == [push : Pushes \cup {<<>>}, version : Nat, file : File \cup {NoFile}, old : File \cup {NoFile}]
Nothing == [push |-> <<>>, version |-> 0, file |-> NoFile, old |-> NoFile]

TypeOK ==
  /\ status \in [Pushes -> {"none", "pending", "running", "finished", "failed", "deleted"}]
  /\ recorded \in [Pushes -> File \cup {NoFile}] /\ hash \in [Pushes -> Nat]
  /\ fresh \subseteq Pushes
  /\ job \in [Jobs -> {"ready", "blocked", "empty", "deleted"}] /\ version \in [Jobs -> Nat]
  /\ connection \in {"usable", "unreadable", "deleted"}
  /\ request \in [Requests -> {"start", "counted", "send", "done", "dead"}]
  /\ eligible \in [Requests -> SUBSET Jobs]
  /\ queue \in [Pushes -> Nat] /\ unacked \in [Pushes -> Nat]
  /\ pc \in [Workers -> {"idle", "claimed", "upload", "wait", "cleanup", "find",
                         "replace", "finish", "raised"}]
  /\ ctx \in [Workers -> Context]
  /\ store \subseteq File /\ attached \subseteq File /\ uploads \in [Pushes -> Nat]
  /\ faults \in 0..MaxFaults /\ killed \subseteq Pushes /\ mixed \subseteq Jobs

Init ==
  /\ status = [p \in Pushes |-> "none"] /\ recorded = [p \in Pushes |-> NoFile]
  /\ hash = [p \in Pushes |-> 0] /\ fresh = {}
  /\ job = [j \in Jobs |-> "ready"] /\ version = [j \in Jobs |-> 1]
  /\ connection = "usable"
  /\ request = [r \in Requests |-> "start"] /\ eligible = [r \in Requests |-> {}]
  /\ queue = [p \in Pushes |-> 0] /\ unacked = [p \in Pushes |-> 0]
  /\ pc = [w \in Workers |-> "idle"] /\ ctx = [w \in Workers |-> Nothing]
  /\ store = {} /\ attached = {} /\ uploads = [p \in Pushes |-> 0]
  /\ faults = 0 /\ killed = {} /\ mixed = {}

-----------------------------------------------------------------------------
(* Helpers                                                                 *)

Fault(kind) ==
  /\ kind \in Faults /\ faults < MaxFaults
  /\ faults' = faults + 1

Push(w)      == ctx[w].push
Exists(p)    == status[p] \notin {"none", "deleted"}
Goto(w, p)   == pc' = [pc EXCEPT ![w] = p]
Ack(w)       == Goto(w, "idle") /\ ctx' = [ctx EXCEPT ![w] = Nothing]
Executing(p) == {w \in Workers : pc[w] # "idle" /\ Push(w) = p}
Enqueue(p)   == queue' = [queue EXCEPT ![p] = @ + 1]

-----------------------------------------------------------------------------
(* create_openwebui_pushes                                                 *)

Unfinished == {p \in Pushes : status[p] \in {"pending", "running"}}

\* A job that has no Markdown (any more), or is gone, is answered in the
\* response and gets no push; the others must fit under the cap together.
CheckCap(r) ==
  /\ request[r] = "start"
  /\ \E asked \in SUBSET Jobs \ {{}} :
       LET fit == {j \in asked : job[j] \in {"ready", "blocked"}}
           ok  == connection # "deleted" /\ fit # {} /\ Cardinality(Unfinished) + Cardinality(fit) <= Cap
       IN /\ request' = [request EXCEPT ![r] = IF ok THEN "counted" ELSE "done"]
          /\ eligible' = [eligible EXCEPT ![r] = IF ok THEN fit ELSE {}]
  /\ UNCHANGED <<rows, env, broker, execs, server, faults, history>>

\* One commit for all pushes; a foreign key that is gone fails it.
InsertPushes(r) ==
  /\ request[r] = "counted"
  /\ \A q \in Requests : q < r => request[q] \notin {"start", "counted"}
  /\ IF connection # "deleted" /\ \A j \in eligible[r] : job[j] # "deleted"
     THEN /\ status' = [p \in Pushes |-> IF p[1] = r /\ JobOf(p) \in eligible[r]
                                         THEN "pending" ELSE status[p]]
           /\ request' = [request EXCEPT ![r] = "send"]
     ELSE request' = [request EXCEPT ![r] = "done"] /\ UNCHANGED status
  /\ UNCHANGED <<recorded, hash, fresh, env, eligible, broker, execs, server, faults, history>>

SendMessage(r) ==
  /\ request[r] = "send"
  /\ \E j \in eligible[r] :
       /\ Enqueue(<<r, j>>)
       /\ eligible' = [eligible EXCEPT ![r] = @ \ {j}]
       /\ request' = [request EXCEPT ![r] = IF eligible[r] = {j} THEN "done" ELSE "send"]
  /\ UNCHANGED <<rows, env, unacked, execs, server, faults, history>>

SenderDies(r) ==
  /\ request[r] = "send" /\ Fault("sender")
  /\ request' = [request EXCEPT ![r] = "dead"]
  /\ UNCHANGED <<rows, env, eligible, broker, execs, server, history>>

-----------------------------------------------------------------------------
(* push_openwebui                                                          *)

\* _claim_push: a pending push, or a running one that looks abandoned.
\* Mutant: only a pending one.
Claimable_PendingOnly(p) == status[p] = "pending"
Claimable(p) == status[p] = "pending" \/ (status[p] = "running" /\ p \notin fresh)

Rank(p)        == p[1]     \* created_at
Idle(j)        == \A w \in Workers : pc[w] = "idle" \/ JobOf(Push(w)) # j
OvertakenBy(p) == \E q \in Pushes : /\ JobOf(q) = JobOf(p) /\ status[q] \notin {"none", "pending"}
                                    /\ Rank(q) > Rank(p)

TakeMessage(w, p) ==
  /\ pc[w] = "idle" /\ (\A v \in Workers : v < w => pc[v] # "idle") /\ queue[p] > 0
  /\ queue' = [queue EXCEPT ![p] = @ - 1]
  /\ IF Claimable(p)
     THEN /\ status' = [status EXCEPT ![p] = "running"] /\ fresh' = fresh \cup {p}
          /\ Goto(w, "claimed") /\ ctx' = [ctx EXCEPT ![w].push = p]
          /\ mixed' = IF Idle(JobOf(p)) /\ ~OvertakenBy(p) THEN mixed ELSE mixed \cup {JobOf(p)}
     ELSE UNCHANGED <<status, fresh, pc, ctx, mixed>>
  /\ UNCHANGED <<recorded, hash, env, clients, unacked, server, faults, killed>>

\* Everything the push needs is read before anything is sent.
Usable(w) == connection = "usable" /\ job[JobOf(Push(w))] = "ready"

LoadContent(w) ==
  /\ pc[w] = "claimed"
  /\ IF ~Exists(Push(w)) THEN Ack(w)
     ELSE IF Usable(w)
     THEN Goto(w, "upload") /\ ctx' = [ctx EXCEPT ![w].version = version[JobOf(Push(w))]]
     ELSE Goto(w, "raised") /\ UNCHANGED ctx
  /\ UNCHANGED <<rows, env, clients, broker, server, faults, history>>

NewFile(w) == [push |-> Push(w), version |-> ctx[w].version, try |-> uploads[Push(w)] + 1]
Keep(w) == /\ store' = store \cup {NewFile(w)}
           /\ uploads' = [uploads EXCEPT ![Push(w)] = @ + 1]

\* upload_file; with an error reply the server may have kept the file.
UploadFile(w) ==
  /\ pc[w] = "upload"
  /\ \/ /\ Keep(w) /\ UNCHANGED faults
        /\ Goto(w, "wait") /\ ctx' = [ctx EXCEPT ![w].file = NewFile(w)]
     \/ Goto(w, "raised") /\ UNCHANGED <<store, uploads, ctx, faults>>
     \/ Keep(w) /\ Fault("remote") /\ Goto(w, "raised") /\ UNCHANGED ctx
  /\ UNCHANGED <<rows, env, clients, broker, attached, history>>

\* What follows an attach.  Mutants: its error is ignored; it leads nowhere.
AfterAttach_Ignored(ok) == "find"
AfterAttach_Nowhere(ok) == IF ok THEN "find" ELSE "failed"
AfterAttach(ok) == IF ok THEN "find" ELSE "cleanup"

\* wait_for_processing, which changes nothing and may fail or take too long, and
\* add_to_knowledge.
AddToKnowledge(w) ==
  /\ pc[w] = "wait"
  /\ \/ /\ attached' = attached \cup {ctx[w].file}
        /\ Goto(w, AfterAttach(TRUE)) \/ Goto(w, AfterAttach(FALSE))
     \/ Goto(w, AfterAttach(FALSE)) /\ UNCHANGED attached
  /\ UNCHANGED <<rows, env, clients, broker, ctx, store, uploads, faults, history>>

\* delete_file of an upload that leads nowhere, as far as the server lets us.
\* Mutant: it is not deleted.
Discarded_Kept(w) == store
Discarded(w) == store \ {ctx[w].file}

DeleteUpload(w) ==
  /\ pc[w] = "cleanup"
  /\ \/ store' = Discarded(w) /\ UNCHANGED faults
     \/ Fault("remote") /\ UNCHANGED store
  /\ Goto(w, "raised")
  /\ UNCHANGED <<rows, env, clients, broker, ctx, attached, uploads, history>>

\* The last finished push of the job into the collection, by created_at.
\* Mutant: the first one.
Finished(j) == {p \in Pushes : status[p] = "finished" /\ JobOf(p) = j /\ recorded[p] # NoFile}
Predecessor_First(p) ==
  LET known == Finished(JobOf(p)) \ {p}
  IN IF known = {} \/ connection = "deleted" THEN NoFile
     ELSE recorded[CHOOSE q \in known : \A o \in known : Rank(q) <= Rank(o)]
Predecessor(p) ==
  LET known == Finished(JobOf(p)) \ {p}
  IN IF known = {} \/ connection = "deleted" THEN NoFile
     ELSE recorded[CHOOSE q \in known : \A o \in known : Rank(o) <= Rank(q)]

FindPrevious(w) ==
  /\ pc[w] = "find"
  /\ ctx' = [ctx EXCEPT ![w].old = Predecessor(Push(w))]
  /\ Goto(w, IF Predecessor(Push(w)) = NoFile THEN "finish" ELSE "replace")
  /\ UNCHANGED <<rows, env, clients, broker, server, faults, history>>

\* remove_from_knowledge, then delete_file: errors of either are ignored.
RemovePrevious(w) ==
  /\ pc[w] = "replace"
  /\ \/ attached' = attached \ {ctx[w].old} /\ store' = store \ {ctx[w].old} /\ UNCHANGED faults
     \/ Fault("remote") /\ attached' = attached \ {ctx[w].old} /\ UNCHANGED store
     \/ Fault("remote") /\ store' = store \ {ctx[w].old} /\ UNCHANGED attached
     \/ Fault("remote") /\ UNCHANGED <<store, attached>>
  /\ Goto(w, "finish")
  /\ UNCHANGED <<rows, env, clients, broker, ctx, uploads, history>>

\* The hash that is stored.  Mutant: of the content the job has by then.
PushedHash_Current(w) == version[JobOf(Push(w))]
PushedHash(w) == ctx[w].version

\* The UPDATE names the row by its id only; without the row it raises.
CommitFinished(w) ==
  /\ pc[w] = "finish"
  /\ IF Exists(Push(w))
     THEN /\ status' = [status EXCEPT ![Push(w)] = "finished"]
          /\ recorded' = [recorded EXCEPT ![Push(w)] = ctx[w].file]
          /\ hash' = [hash EXCEPT ![Push(w)] = PushedHash(w)]
          /\ fresh' = fresh \ {Push(w)}
          /\ Ack(w)
     ELSE Goto(w, "raised") /\ UNCHANGED <<status, recorded, hash, fresh, ctx>>
  /\ UNCHANGED <<env, clients, broker, server, faults, history>>

\* _fail_push, whatever the row has become since.
FailPush(w) ==
  /\ pc[w] = "raised"
  /\ status' = IF Exists(Push(w)) THEN [status EXCEPT ![Push(w)] = "failed"] ELSE status
  /\ fresh' = fresh \ {Push(w)}
  /\ Ack(w)
  /\ UNCHANGED <<recorded, hash, env, clients, broker, server, faults, history>>

\* The database or anything else raises where only the outer handler catches.
Raise(w) ==
  /\ pc[w] \in {"claimed", "find", "finish"} /\ Fault("exception")
  /\ Goto(w, "raised")
  /\ UNCHANGED <<rows, env, clients, broker, ctx, server, history>>

\* reject_on_worker_lost: the message of a child process is redelivered at once.
ChildDies(w) ==
  /\ pc[w] # "idle" /\ Fault("child")
  /\ Enqueue(Push(w)) /\ killed' = killed \cup {Push(w)} /\ Ack(w)
  /\ UNCHANGED <<rows, env, clients, unacked, server, mixed>>

\* That of a whole container only after the visibility timeout, which is longer
\* than the stale window of a push.  task_acks_late: a message is acknowledged
\* when its task has ended.  Mutant: when it is taken.
Held_EarlyAck(p) == unacked
Held(p) == [unacked EXCEPT ![p] = @ + 1]

WorkerDies(w) ==
  /\ pc[w] # "idle" /\ Fault("worker")
  /\ unacked' = Held(Push(w)) /\ Ack(w)
  /\ UNCHANGED <<rows, env, clients, queue, server, history>>

RestoreUnacked(p) ==
  /\ unacked[p] > 0 /\ p \notin fresh
  /\ unacked' = [unacked EXCEPT ![p] = @ - 1] /\ Enqueue(p)
  /\ UNCHANGED <<rows, env, clients, execs, server, faults, history>>

WindowPasses(p) ==
  /\ p \in fresh /\ Executing(p) = {}
  /\ fresh' = fresh \ {p}
  /\ UNCHANGED <<status, recorded, hash, env, clients, broker, execs, server, faults, history>>

-----------------------------------------------------------------------------
(* What users do meanwhile                                                 *)

\* An edit, or a conversion that ends without Markdown or with a bad grade.
ChangeJob(j) ==
  /\ job[j] # "deleted" /\ Fault("job")
  /\ version' = [version EXCEPT ![j] = @ + 1]
  /\ \E s \in {"ready", "blocked", "empty"} : job' = [job EXCEPT ![j] = s]
  /\ UNCHANGED <<rows, connection, clients, broker, execs, server, history>>

\* ON DELETE CASCADE.
DeleteJob(j) ==
  /\ job[j] # "deleted" /\ Fault("job")
  /\ job' = [job EXCEPT ![j] = "deleted"]
  /\ status' = [p \in Pushes |-> IF JobOf(p) = j /\ status[p] # "none" THEN "deleted" ELSE status[p]]
  /\ fresh' = {p \in fresh : JobOf(p) # j}
  /\ UNCHANGED <<recorded, hash, version, connection, clients, broker, execs, server, history>>

\* The pushes keep their history, their connection_id becomes NULL.
DeleteConnection ==
  /\ connection # "deleted" /\ Fault("connection") /\ connection' = "deleted"
  /\ UNCHANGED <<rows, job, version, clients, broker, execs, server, history>>

\* SECRET_KEY changes, the stored key cannot be decrypted; it is entered again.
ChangeKey ==
  /\ connection # "deleted" /\ Fault("connection")
  /\ connection' = IF connection = "usable" THEN "unreadable" ELSE "usable"
  /\ UNCHANGED <<rows, job, version, clients, broker, execs, server, history>>

-----------------------------------------------------------------------------
(* The specification                                                       *)

Create(r)  == CheckCap(r) \/ InsertPushes(r) \/ SendMessage(r)
Receive(p) == \E w \in Workers : TakeMessage(w, p)
Execute(w) == \/ LoadContent(w) \/ UploadFile(w) \/ AddToKnowledge(w)
              \/ DeleteUpload(w) \/ FindPrevious(w) \/ RemovePrevious(w)
              \/ CommitFinished(w) \/ FailPush(w)
Wait(p)    == RestoreUnacked(p) \/ WindowPasses(p)

Next ==
  \/ \E r \in Requests : Create(r) \/ SenderDies(r)
  \/ \E p \in Pushes : Receive(p) \/ Wait(p)
  \/ \E w \in Workers : Execute(w) \/ Raise(w) \/ ChildDies(w) \/ WorkerDies(w)
  \/ \E j \in Jobs : ChangeJob(j) \/ DeleteJob(j)
  \/ DeleteConnection \/ ChangeKey

Spec == Init /\ [][Next]_vars

\* Requests and executions go on, messages are taken, time passes.  There is only
\* a bounded number of steps of each kind, so that one condition per kind is enough.
FairSpec ==
  /\ Spec
  /\ WF_vars(\E r \in Requests : Create(r))
  /\ WF_vars(\E p \in Pushes : Receive(p)) /\ WF_vars(\E p \in Pushes : Wait(p))
  /\ WF_vars(\E w \in Workers : Execute(w))

-----------------------------------------------------------------------------
(* Properties                                                              *)

Visible == attached \cap store
Of(j)   == {f \in Visible : JobOf(f.push) = j}
Ended   == {"finished", "failed", "deleted"}

\* However pushes of a job overlap, fail or are repeated while they replace each
\* other's files, the collection never loses the document again once a push of
\* the job has finished: a file is only removed when another one is attached.
NeverVanishes == \A j \in Jobs : Finished(j) # {} => Of(j) # {}

\* Files nobody knows of: no push of an existing job recorded them and no
\* execution holds them.  Each takes a fault of its own: the cleanup after a
\* failed wait or attach leaves none behind, nor does the replacement.
Orphans == {f \in store : /\ job[JobOf(f.push)] # "deleted"
                          /\ \A p \in Pushes : recorded[p] # f
                          /\ \A w \in Workers : ctx[w].file # f}
OrphansExplained == Cardinality(Orphans) <= faults

\* Pushes of one job that run one after the other leave one file: while nothing
\* failed and they ran in the order they were made, the collection has the
\* document once.
OneFile == \A j \in Jobs : faults = 0 /\ j \notin mixed /\ Idle(j) => Cardinality(Of(j)) <= 1

\* _replace_previous_push: a document that was pushed is there, and once unless
\* pushes failed or overtook each other.
DocumentIsHeld == NeverVanishes /\ OneFile

\* content_stale of the response compares the stored hash with the content the
\* job has now.  A finished push that is not shown as stale has uploaded the
\* very content the job has, though the job may change at any time.
Stale(p) == hash[p] # 0 /\ hash[p] # version[JobOf(p)]
NotStaleIsCurrent ==
  \A p \in Pushes : status[p] = "finished" /\ ~Stale(p) => recorded[p].version = version[JobOf(p)]

\* An unfinished push, which counts against the cap of its owner, has a message,
\* an execution, a request about to send one, or lost them to a death: that of
\* the request between commit and send, or that of its child process.
UnfinishedIsHandled ==
  \A p \in Unfinished :
    \/ queue[p] + unacked[p] > 0 \/ Executing(p) # {} \/ p \in killed
    \/ request[p[1]] = "dead" \/ (request[p[1]] = "send" /\ JobOf(p) \in eligible[p[1]])

\* Neither an upload nor a push that counts against its owner is left lying unless
\* something failed or died (push_openwebui, _claim_push).
NothingLeftLying == OrphansExplained /\ UnfinishedIsHandled

\* A push whose message was sent ends, also if containers die meanwhile: the
\* redelivered message comes after the stale window and claims it again.
\* After the death of a child process alone that is not so (EveryPushEnds).
EventuallyEnds ==
  \A p \in Pushes : queue[p] > 0 ~> status[p] \in Ended \/ p \in killed

\* _claim_push calls its reclaim the "recovery path for acks_late redelivery" of
\* a push whose worker died mid-flight.
EveryPushEnds == \A p \in Pushes : queue[p] > 0 ~> status[p] \in Ended
=============================================================================
