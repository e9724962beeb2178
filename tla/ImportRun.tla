----------------------------- MODULE ImportRun -----------------------------
(***************************************************************************)
(* One Confluence import run: the chunked Celery task `import_confluence`  *)
(* (src/backend/app/workers/import_tasks.py), the rows it shares with its  *)
(* own duplicates, the API handlers that act on a run, and the broker.     *)
(*                                                                         *)
(* `chunk_seq` is an optimistic lease.  An execution claims a chunk by     *)
(* incrementing it, keeps the crawl in memory, and every commit it makes   *)
(* is guarded on "chunk_seq is still mine and the run is still RUNNING".   *)
(* The broker redelivers messages (acks_late), executions crash between    *)
(* any two commits, stall until their heartbeat is stale, or are cut short *)
(* by the soft time limit.                                                 *)
(*                                                                         *)
(* Abstractions.  The crawl order is left open (the frontier is a set), a  *)
(* page has at most one OCR attachment, and wall-clock time is the single  *)
(* bit `stale`: "updated_at is older than IMPORT_STALE_RUN_SECONDS".       *)
(***************************************************************************)
EXTENDS Naturals, FiniteSets

CONSTANTS
  Pages,        \* page ids of the source wiki
  Root,         \* the page (or space homepage) the run starts at
  Kids,         \* Kids[p]: the children iter_children(p) lists
  Docs,         \* pages carrying an attachment that spawns an OCR child job
  Unchanged,    \* pages a refresh run finds at their known version
  Execs,        \* slots for concurrent executions of the task
  Callers,      \* slots for concurrent API requests
  MaxPages,     \* options.max_pages after clamping
  MaxDepth,     \* options.max_depth after clamping
  ChunkPages,   \* settings.import_chunk_pages
  Faults,       \* kinds of fault this instance considers
  FaultPoints,  \* program points at which an execution may die or raise
  MaxFaults     \* bound on the number of faults in one behaviour

FaultKinds == {"crash", "killed", "slow", "redeliver", "softlimit", "exception",
               "pagefail", "listfail", "bytecap", "setup", "lostsend"}

PCs == {"idle", "setup", "loop", "fetch", "page", "attached", "enqueue",
        "discover", "more", "backstop", "raised", "failing"}

Active   == {"PENDING", "RUNNING"}
Terminal == {"FINISHED", "FAILED", "CANCELLED"}
Gone     == "DELETED"     \* the row no longer exists

\* One frontier entry [page_id, depth]; path titles and parent are data.
Entry     == [id : Pages, depth : Nat]
Frontiers == {f \in SUBSET Entry : IsFiniteSet(f)}

\* What state.visited says of a page: absent, None, the id of a job of this
\* run, or the id of the job an earlier run left (an unchanged page).
Mark == {"no", "failed", "job", "prior"}

ASSUME ConstantsAssumption ==
  /\ IsFiniteSet(Pages) /\ Root \in Pages
  /\ Kids \in [Pages -> SUBSET Pages]
  /\ Docs \subseteq Pages /\ Unchanged \subseteq Pages
  /\ MaxPages \in Nat /\ MaxDepth \in Nat /\ ChunkPages \in Nat \ {0}
  /\ Faults \subseteq FaultKinds /\ FaultPoints \subseteq PCs
  /\ MaxFaults \in Nat

VARIABLES
  (* the import_runs row *)
  status,            \* ImportRun.status, or Gone
  chunk_seq,         \* ImportRun.chunk_seq
  stale,             \* updated_at < now - import_stale_run_seconds
  cancel_requested,  \* ImportRun.cancel_requested
  saved,             \* ImportRun.state and the page counters
  (* rows of the jobs table that belong to the run *)
  jobs,              \* jobs[p]: how many page jobs were committed for p
  child,             \* child[p]: the OCR child job of p's attachment
  (* executions of import_confluence *)
  pc, msg, claimed,  \* where it is, the seq it was sent, the seq it claimed
  mem,               \* its in-memory _RunState and the page in flight
  (* the broker *)
  queue,             \* chunk_seq arguments of the queued import messages
  childQueue,        \* pages whose child job has a queued process_job message
  (* API requests *)
  api,
  (* history and bounds *)
  subtree,           \* what became of the children of a committed page
  faults

rowVars  == <<status, chunk_seq, stale, cancel_requested, saved>>
jobVars  == <<jobs, child>>
execVars == <<pc, msg, claimed, mem>>
mqVars   == <<queue, childQueue>>
vars     == <<rowVars, jobVars, execVars, mqVars, api, subtree, faults>>

NoEntry == [id |-> Root, depth |-> 0]

Mem   == [frontier : Frontiers, visited : [Pages -> Mark],
          errors : SUBSET Pages, page : Entry, pages : Nat]
Saved == [frontier : Frontiers, visited : [Pages -> Mark],
          errors : SUBSET Pages,
          discovered : Nat, imported : Nat, failed : Nat]

EmptyMem == [frontier |-> {}, visited |-> [p \in Pages |-> "no"],
             errors |-> {}, page |-> NoEntry, pages |-> 0]

\* An API request: not received, decided upon what it read but not committed
\* (a cancel that only asks, a cancel by force, ...), or answered.
Ops     == {"ask", "force", "reap", "delete", "purge"}
Request == {"idle", "done"} \cup Ops

TypeOK ==
  /\ status \in Active \cup Terminal \cup {Gone}
  /\ chunk_seq \in Nat
  /\ stale \in BOOLEAN
  /\ cancel_requested \in BOOLEAN
  /\ saved \in Saved
  /\ jobs \in [Pages -> Nat]
  /\ child \in [Pages -> {"none", "PENDING", "taken"}]
  /\ pc \in [Execs -> PCs]
  /\ msg \in [Execs -> Nat]
  /\ claimed \in [Execs -> Nat]
  /\ mem \in [Execs -> Mem]
  /\ queue \subseteq Nat
  /\ childQueue \subseteq Pages
  /\ api \in [Callers -> Request]
  /\ subtree \in [Pages -> {"none", "owed", "listed", "noted", "capped"}]
  /\ faults \in Nat

-----------------------------------------------------------------------------
(* create_import_run: the row is committed, then the message is sent.  A   *)
(* page-scoped run starts with its root in the frontier, a space-scoped    *)
(* one with an empty frontier.  send_task may be lost.                     *)

Init ==
  /\ status = "PENDING" /\ chunk_seq = 0
  /\ stale = FALSE /\ cancel_requested = FALSE
  /\ \E f \in {{}, {NoEntry}} :
       saved = [frontier |-> f, visited |-> [p \in Pages |-> "no"], errors |-> {},
                discovered |-> 0, imported |-> 0, failed |-> 0]
  /\ jobs = [p \in Pages |-> 0]
  /\ child = [p \in Pages |-> "none"]
  /\ pc = [e \in Execs |-> "idle"]
  /\ msg = [e \in Execs |-> 0]
  /\ claimed = [e \in Execs |-> 0]
  /\ mem = [e \in Execs |-> EmptyMem]
  /\ queue \in IF "lostsend" \in Faults THEN {{}, {0}} ELSE {{0}}
  /\ childQueue = {}
  /\ api = [a \in Callers |-> "idle"]
  /\ subtree = [p \in Pages |-> "none"]
  /\ faults = 0

-----------------------------------------------------------------------------
(* Helpers                                                                 *)

Fault(kind) ==
  /\ kind \in Faults /\ faults < MaxFaults
  /\ faults' = faults + 1

\* The guard of _commit_owned: the lease is still this execution's and the
\* run is still RUNNING in the database.
\* Mutants: without the chunk_seq condition; without the status condition.
Owns_AnyRunningChunk(e) == status = "RUNNING"
Owns_AnyStatus(e) == chunk_seq = claimed[e]
Owns(e) == status = "RUNNING" /\ chunk_seq = claimed[e]

\* The task returns: its message is acknowledged and the slot is free.
Ack(e) ==
  /\ pc' = [pc EXCEPT ![e] = "idle"]
  /\ msg' = [msg EXCEPT ![e] = 0]
  /\ claimed' = [claimed EXCEPT ![e] = 0]
  /\ mem' = [mem EXCEPT ![e] = EmptyMem]

Goto(e, point) ==
  /\ pc' = [pc EXCEPT ![e] = point]
  /\ UNCHANGED <<msg, claimed>>

\* state.persist(run): the in-memory crawl replaces the stored one.
Persisted(m) == [saved EXCEPT !.frontier = m.frontier,
                              !.visited  = m.visited,
                              !.errors   = m.errors]

\* The lease-guarded commit, which is also the heartbeat.
CommitOwned(e, row) ==
  /\ Owns(e)
  /\ saved' = row
  /\ stale' = FALSE

\* _RunState(run): a new execution reads the stored crawl.
Loaded == [frontier |-> saved.frontier, visited |-> saved.visited,
           errors |-> saved.errors, page |-> NoEntry, pages |-> 0]

Visited(visited) == {p \in Pages : visited[p] # "no"}
Ids(frontier)    == {x.id : x \in frontier}
InFlight(e)      == mem[e].page.id

Remember(e, m)        == mem' = [mem EXCEPT ![e] = m]
MarkSubtree(p, what)  == subtree' = [subtree EXCEPT ![p] = what]
NoteOwedSubtree(p)    == subtree' = [subtree EXCEPT ![p] = IF @ = "owed" THEN "noted" ELSE @]

-----------------------------------------------------------------------------
(* _claim_chunk: a message carrying the current chunk_seq claims the next  *)
(* chunk; one carrying the previous chunk_seq claims it only from an owner *)
(* whose heartbeat is stale; any other delivery is acknowledged unused.    *)

CanClaim(s)   == chunk_seq = s /\ status \in Active
CanReclaim(s) == chunk_seq = s + 1 /\ status = "RUNNING" /\ stale

\* Both UPDATEs of _claim_chunk increment the column.
\* Mutant: the reclaim keeps the dead owner's seq instead of taking a new one.
NextSeq_ReclaimKeepsSeq(s) == s + 1
NextSeq(s) == chunk_seq + 1

ClaimChunk(e, s) ==
  /\ pc[e] = "idle" /\ s \in queue
  /\ CanClaim(s) \/ CanReclaim(s)
  /\ queue' = queue \ {s}
  /\ status' = "RUNNING" /\ chunk_seq' = NextSeq(s) /\ stale' = FALSE
  /\ pc' = [pc EXCEPT ![e] = "setup"]
  /\ msg' = [msg EXCEPT ![e] = s]
  /\ claimed' = [claimed EXCEPT ![e] = NextSeq(s)]
  /\ Remember(e, Loaded)
  /\ UNCHANGED <<cancel_requested, saved, jobVars, childQueue, api, subtree, faults>>

IgnoreMessage(e, s) ==
  /\ pc[e] = "idle" /\ s \in queue
  /\ ~CanClaim(s) /\ ~CanReclaim(s)
  /\ queue' = queue \ {s}
  /\ UNCHANGED <<rowVars, jobVars, execVars, childQueue, api, subtree, faults>>

-----------------------------------------------------------------------------
(* The ends of a run an owner can write: _fail_run, _cancel_run and the    *)
(* terminal transition of _finalize_run.                                   *)

CancelRun(e) ==
  /\ CommitOwned(e, Persisted(mem[e]))
  /\ status' = "CANCELLED" /\ cancel_requested' = TRUE
  /\ Ack(e)
  /\ UNCHANGED <<chunk_seq, jobVars, mqVars, api, subtree, faults>>

FailRun(e) ==
  /\ CommitOwned(e, Persisted(mem[e]))
  /\ status' = "FAILED"
  /\ Ack(e)
  /\ UNCHANGED <<chunk_seq, cancel_requested, jobVars, mqVars, api, subtree>>

FinalizeRun(e) ==
  /\ CommitOwned(e, Persisted(mem[e]))
  /\ status' = "FINISHED"
  /\ Goto(e, "backstop") /\ UNCHANGED mem
  /\ UNCHANGED <<chunk_seq, cancel_requested, jobVars, mqVars, api, subtree, faults>>

\* After the terminal commit every child still PENDING is sent again.  A run
\* deleted meanwhile has no children any more (import_run_id is NULL).
\* Mutant: no backstop after the terminal commit.
ResendPendingChildren_None(e) ==
  /\ pc[e] = "backstop"
  /\ Ack(e)
  /\ UNCHANGED <<rowVars, jobVars, mqVars, api, subtree, faults>>
ResendPendingChildren(e) ==
  /\ pc[e] = "backstop"
  /\ childQueue' = IF status = Gone THEN childQueue
                   ELSE childQueue \cup {p \in Pages : child[p] = "PENDING"}
  /\ Ack(e)
  /\ UNCHANGED <<rowVars, jobVars, queue, api, subtree, faults>>

-----------------------------------------------------------------------------
(* Start of a chunk: an early cancel, the setup errors, and on the first   *)
(* chunk the space root and the count of what the frontier was seeded with *)

FirstChunk(e) == saved.discovered = 0 /\ Visited(mem[e].visited) = {}

CancelBeforeStart(e) == pc[e] = "setup" /\ cancel_requested /\ CancelRun(e)

FailSetup(e) ==
  /\ pc[e] = "setup" /\ ~cancel_requested
  /\ Fault("setup")
  /\ FailRun(e)

SeedFrontier(e) ==
  /\ pc[e] = "setup" /\ ~cancel_requested /\ FirstChunk(e)
  /\ LET m == [mem[e] EXCEPT !.frontier = IF @ = {} THEN {NoEntry} ELSE @]
     IN  /\ CommitOwned(e, [Persisted(m) EXCEPT !.discovered = Cardinality(m.frontier)])
         /\ Remember(e, m)
  /\ Goto(e, "loop")
  /\ UNCHANGED <<status, chunk_seq, cancel_requested, jobVars, mqVars, api, subtree, faults>>

Resume(e) ==
  /\ pc[e] = "setup" /\ ~cancel_requested /\ ~FirstChunk(e)
  /\ Goto(e, "loop") /\ UNCHANGED mem
  /\ UNCHANGED <<rowVars, jobVars, mqVars, api, subtree, faults>>

-----------------------------------------------------------------------------
(* The crawl loop of import_confluence                                     *)

\* Mutant: an off-by-one in the comparison with max_pages.
WithinPageCap_OffByOne == saved.imported <= MaxPages
WithinPageCap == saved.imported < MaxPages
ChunkFull(e)  == mem[e].pages >= ChunkPages
LoopGoesOn(e) == mem[e].frontier # {} /\ ~ChunkFull(e) /\ WithinPageCap

ObserveCancel(e) ==
  /\ pc[e] = "loop" /\ LoopGoesOn(e) /\ cancel_requested
  /\ CancelRun(e)

PopPage(e, x) ==
  /\ pc[e] = "loop" /\ LoopGoesOn(e) /\ ~cancel_requested
  /\ x \in mem[e].frontier
  /\ IF mem[e].visited[x.id] # "no"
     THEN Goto(e, "loop") /\ Remember(e, [mem[e] EXCEPT !.frontier = @ \ {x}])
     ELSE Goto(e, "fetch") /\ Remember(e, [mem[e] EXCEPT !.frontier = @ \ {x},
                                                         !.page = x,
                                                         !.pages = @ + 1])
  /\ UNCHANGED <<rowVars, jobVars, mqVars, api, subtree, faults>>

\* More pages than fit this chunk: commit, then re-enqueue with the new seq.
\* Mutant: the end of a chunk is taken for the end of the run.
MorePages_ChunkEndsRun(e) == mem[e].frontier # {} /\ WithinPageCap /\ ~ChunkFull(e)
MorePages(e) == mem[e].frontier # {} /\ WithinPageCap

EndChunk(e) ==
  /\ pc[e] = "loop" /\ ~LoopGoesOn(e) /\ MorePages(e)
  /\ CommitOwned(e, Persisted(mem[e]))
  /\ Goto(e, "more") /\ UNCHANGED mem
  /\ UNCHANGED <<status, chunk_seq, cancel_requested, jobVars, mqVars, api, subtree, faults>>

EndRun(e) ==
  /\ pc[e] = "loop" /\ ~LoopGoesOn(e) /\ ~MorePages(e)
  /\ FinalizeRun(e)

\* Mutant: the chunk ends without re-enqueueing itself.
SendContinuation_Forgotten(e) ==
  /\ pc[e] = "more"
  /\ Ack(e)
  /\ UNCHANGED <<rowVars, jobVars, mqVars, api, subtree, faults>>
SendContinuation(e) ==
  /\ pc[e] = "more"
  /\ queue' = queue \cup {claimed[e]}
  /\ Ack(e)
  /\ UNCHANGED <<rowVars, jobVars, childQueue, api, subtree, faults>>

-----------------------------------------------------------------------------
(* _import_one_page and _store_attachments                                 *)

FetchPage(e) ==
  /\ pc[e] = "fetch"
  /\ Goto(e, "page")
  /\ Remember(e, [mem[e] EXCEPT !.visited[InFlight(e)] =
                    IF InFlight(e) \in Unchanged THEN "prior" ELSE "job"])
  /\ UNCHANGED <<rowVars, jobVars, mqVars, api, subtree, faults>>

\* The run byte cap: the page is not imported and discovery ends.
HitByteCap(e) ==
  /\ pc[e] = "fetch"
  /\ Fault("bytecap")
  /\ LET m == [mem[e] EXCEPT !.frontier = {}, !.errors = @ \cup {InFlight(e)}]
     IN  CommitOwned(e, Persisted(m)) /\ Remember(e, m)
  /\ Goto(e, "loop")
  /\ UNCHANGED <<status, chunk_seq, cancel_requested, jobVars, mqVars, api, subtree>>

AfterPage(e) == IF mem[e].page.depth < MaxDepth THEN "discover" ELSE "loop"

\* The commit that first makes the page part of the run: its job row, the
\* visited entry and the counter go together.
CommitImported(e) ==
  /\ CommitOwned(e, [Persisted(mem[e]) EXCEPT !.imported = @ + 1])
  /\ jobs' = [jobs EXCEPT ![InFlight(e)] = @ + 1]
  /\ MarkSubtree(InFlight(e), IF mem[e].page.depth < MaxDepth THEN "owed" ELSE "capped")
  /\ UNCHANGED <<status, chunk_seq, cancel_requested, child, mqVars, api, faults>>

\* A page of the run without attachments is committed at once ...
CommitPage(e) ==
  /\ pc[e] = "page" /\ mem[e].visited[InFlight(e)] = "job" /\ InFlight(e) \notin Docs
  /\ CommitImported(e)
  /\ Goto(e, AfterPage(e)) /\ UNCHANGED mem

\* ... one with an attachment by the heartbeat after the download.
HeartbeatAttachment(e) ==
  /\ pc[e] = "page" /\ mem[e].visited[InFlight(e)] = "job" /\ InFlight(e) \in Docs
  /\ CommitImported(e)
  /\ Goto(e, "attached") /\ UNCHANGED mem

\* An unchanged page of a refresh run: visited, but no job of this run.
CommitUnchanged(e) ==
  /\ pc[e] = "page" /\ mem[e].visited[InFlight(e)] = "prior"
  /\ CommitOwned(e, Persisted(mem[e]))
  /\ MarkSubtree(InFlight(e), IF mem[e].page.depth < MaxDepth THEN "owed" ELSE "capped")
  /\ Goto(e, AfterPage(e)) /\ UNCHANGED mem
  /\ UNCHANGED <<status, chunk_seq, cancel_requested, jobVars, mqVars, api, faults>>

\* The per-page commit that follows the attachments: the child OCR job's row
\* is inserted, or the attachment was skipped.
CommitAttachments(e) ==
  /\ pc[e] = "attached"
  /\ CommitOwned(e, Persisted(mem[e]))
  /\ \/ /\ child' = [child EXCEPT ![InFlight(e)] = "PENDING"]
        /\ Goto(e, "enqueue")
     \/ /\ Goto(e, AfterPage(e))
        /\ UNCHANGED child
  /\ UNCHANGED <<status, chunk_seq, cancel_requested, jobs, mem, mqVars, api, subtree, faults>>

EnqueueChild(e) ==
  /\ pc[e] = "enqueue"
  /\ childQueue' = childQueue \cup {InFlight(e)}
  /\ Goto(e, AfterPage(e)) /\ UNCHANGED mem
  /\ UNCHANGED <<rowVars, jobVars, queue, api, subtree, faults>>

\* Any other exception out of _import_one_page: roll back, count the page as
\* failed, record the error, go on with the next page.
FailPage(e) ==
  /\ pc[e] \in {"fetch", "page", "attached", "enqueue"}
  /\ Fault("pagefail")
  /\ LET m == [mem[e] EXCEPT !.visited[InFlight(e)] = "failed",
                             !.errors = @ \cup {InFlight(e)}]
     IN  /\ CommitOwned(e, [Persisted(m) EXCEPT !.failed = @ + 1])
         /\ Remember(e, m)
  /\ NoteOwedSubtree(InFlight(e))
  /\ Goto(e, "loop")
  /\ UNCHANGED <<status, chunk_seq, cancel_requested, jobVars, mqVars, api>>

-----------------------------------------------------------------------------
(* _discover_children: new children join the frontier until max_pages were *)
(* discovered or the frontier guard is reached; a listing error keeps what *)
(* was already read and is recorded against the parent.                    *)

Fresh(e) == {c \in Kids[InFlight(e)] :
               mem[e].visited[c] = "no" /\ c \notin Ids(mem[e].frontier)}

\* new was appended without running into either limit, or is empty
WithinLimits(e, new) ==
  \/ new = {}
  \/ /\ saved.discovered + Cardinality(new) <= MaxPages
     /\ Cardinality(mem[e].frontier) + Cardinality(new) <= 4 * MaxPages

\* nothing more may be appended after new
AtLimit(e, new) ==
  \/ saved.discovered + Cardinality(new) >= MaxPages
  \/ Cardinality(mem[e].frontier) + Cardinality(new) >= 4 * MaxPages

Appended(e, new) ==
  [mem[e] EXCEPT !.frontier = @ \cup {[id |-> c, depth |-> mem[e].page.depth + 1] : c \in new}]

CommitDiscovered(e, m, new) ==
  /\ CommitOwned(e, [Persisted(m) EXCEPT !.discovered = @ + Cardinality(new)])
  /\ Remember(e, m)
  /\ Goto(e, "loop")
  /\ UNCHANGED <<status, chunk_seq, cancel_requested, jobVars, mqVars, api>>

DiscoverChildren(e, new) ==
  /\ pc[e] = "discover"
  /\ new \subseteq Fresh(e) /\ WithinLimits(e, new)
  /\ new = Fresh(e) \/ AtLimit(e, new)
  /\ CommitDiscovered(e, Appended(e, new), new)
  /\ MarkSubtree(InFlight(e), IF new = Fresh(e) THEN "listed" ELSE "capped")
  /\ UNCHANGED faults

ListingFails(e, new) ==
  /\ pc[e] = "discover"
  /\ new \subseteq Fresh(e) /\ WithinLimits(e, new)
  /\ Fault("listfail")
  /\ CommitDiscovered(e, [Appended(e, new) EXCEPT !.errors = @ \cup {InFlight(e)}], new)
  /\ MarkSubtree(InFlight(e), "noted")

-----------------------------------------------------------------------------
(* SoftTimeLimitExceeded inside the crawl loop.  The session rolls back,   *)
(* the counters are re-read from the row; the in-memory crawl is kept,     *)
(* children already appended included.  A page with no committed job goes  *)
(* back to the frontier; one that is committed gets an omission note.      *)

InsideLoop == {"loop", "fetch", "page", "attached", "enqueue", "discover"}

PageIsInFlight(e) == pc[e] \in InsideLoop \ {"loop"}

\* The visited entry names a job whose row was rolled back.
Phantom(e) == mem[e].visited[InFlight(e)] = "job" /\ jobs[InFlight(e)] = 0

Unprocessed(e) == mem[e].visited[InFlight(e)] = "no" \/ Phantom(e)

\* Mutant: the page is forgotten but not put back.
Reinserted_NotPutBack(e, m) == [m EXCEPT !.visited[InFlight(e)] = "no"]
Reinserted(e, m) ==
  [m EXCEPT !.visited[InFlight(e)] = "no", !.frontier = @ \cup {mem[e].page}]

AfterSoftLimit(e, m) ==
  CASE ~PageIsInFlight(e) -> m
    [] PageIsInFlight(e) /\ Unprocessed(e)  -> Reinserted(e, m)
    [] PageIsInFlight(e) /\ ~Unprocessed(e) -> [m EXCEPT !.errors = @ \cup {InFlight(e)}]

SoftTimeLimit(e, new) ==
  /\ pc[e] \in InsideLoop
  /\ IF pc[e] = "discover" THEN new \subseteq Fresh(e) /\ WithinLimits(e, new) ELSE new = {}
  /\ Fault("softlimit")
  /\ LET m == AfterSoftLimit(e, Appended(e, new))
     IN  CommitOwned(e, Persisted(m)) /\ Remember(e, m)
  /\ IF PageIsInFlight(e) THEN NoteOwedSubtree(InFlight(e)) ELSE UNCHANGED subtree
  /\ Goto(e, "more")
  /\ UNCHANGED <<status, chunk_seq, cancel_requested, jobVars, mqVars, api>>

-----------------------------------------------------------------------------
(* Losing the lease, and the outer exception handler                       *)

\* _commit_owned finds the row claimed by another execution or no longer
\* RUNNING: everything pending is rolled back and the task returns.
LeaseLost(e) ==
  /\ pc[e] \in InsideLoop \cup {"setup"}
  /\ ~Owns(e)
  /\ Ack(e)
  /\ UNCHANGED <<rowVars, jobVars, mqVars, api, subtree, faults>>

\* An exception no inner handler takes: a listing that fails with something
\* else than ConfluenceError, a lost database connection, a broker that does
\* not accept the continuation, a soft limit outside the loop.
Uncaught(e) ==
  /\ pc[e] \in {"setup", "loop", "discover", "more", "backstop"} \cap FaultPoints
  /\ Fault("exception")
  /\ Goto(e, "raised")
  /\ Remember(e, EmptyMem)
  /\ UNCHANGED <<rowVars, jobVars, mqVars, api, subtree>>

\* The handler reads the run: a run still active will be failed ...
ReadAfterException(e) ==
  /\ pc[e] = "raised"
  /\ IF status \in Active THEN Goto(e, "failing") /\ UNCHANGED mem ELSE Ack(e)
  /\ UNCHANGED <<rowVars, jobVars, mqVars, api, subtree, faults>>

\* ... by a plain commit: neither chunk_seq nor the status guards it.
FailAfterException(e) ==
  /\ pc[e] = "failing"
  /\ status' = IF status = Gone THEN Gone ELSE "FAILED"
  /\ stale' = FALSE
  /\ Ack(e)
  /\ UNCHANGED <<chunk_seq, cancel_requested, saved, jobVars, mqVars, api, subtree, faults>>

-----------------------------------------------------------------------------
(* Time, the broker and the worker processes                               *)

\* Ten minutes without a heartbeat.  It is a fault only when a live owner
\* was that slow; otherwise just time passing.
HeartbeatLapses ==
  /\ status \in Active /\ ~stale
  /\ stale' = TRUE
  /\ IF \E e \in Execs : pc[e] # "idle" /\ Owns(e) THEN Fault("slow") ELSE UNCHANGED faults
  /\ UNCHANGED <<status, chunk_seq, cancel_requested, saved, jobVars, execVars, mqVars, api, subtree>>

\* The process dies: its unacknowledged message is requeued
\* (reject_on_worker_lost), or the hard time limit already acknowledged it.
Crash(e) ==
  /\ pc[e] \in FaultPoints \ {"idle"}
  /\ \/ Fault("crash")  /\ queue' = queue \cup {msg[e]}
     \/ Fault("killed") /\ queue' = queue
  /\ Ack(e)
  /\ UNCHANGED <<rowVars, jobVars, childQueue, api, subtree>>

\* The visibility timeout passes while the task is still running.
Redeliver(e) ==
  /\ pc[e] # "idle" /\ msg[e] \notin queue
  /\ Fault("redeliver")
  /\ queue' = queue \cup {msg[e]}
  /\ UNCHANGED <<rowVars, jobVars, execVars, childQueue, api, subtree>>

\* requeue_running_jobs_after_restart, run by a worker that becomes ready.
ReplaySeq == IF status = "PENDING" THEN chunk_seq ELSE chunk_seq - 1

RequeueAfterRestart ==
  /\ status \in Active /\ stale
  /\ queue' = queue \cup {ReplaySeq}
  /\ queue' # queue
  /\ UNCHANGED <<rowVars, jobVars, execVars, childQueue, api, subtree, faults>>

\* process_job takes a child job (its own life is modelled in OcrJob).
TakeChild(p) ==
  /\ p \in childQueue
  /\ childQueue' = childQueue \ {p}
  /\ child' = [child EXCEPT ![p] = IF @ = "PENDING" THEN "taken" ELSE @]
  /\ UNCHANGED <<rowVars, jobs, execVars, queue, api, subtree, faults>>

-----------------------------------------------------------------------------
(* API requests.  Each reads the run, decides, and commits: two steps with *)
(* no lock in between.                                                     *)

\* cancel_import_run asks a healthy run to stop (again: nothing to commit) and
\* cancels a pending or stale one itself.
MayRequest(op) ==
  CASE op = "ask"   -> status = "RUNNING" /\ ~stale /\ ~cancel_requested
    [] op = "force" -> status = "PENDING" \/ (status = "RUNNING" /\ stale)
    [] op = "reap"  -> status \in Active /\ stale
    [] op \in {"delete", "purge"} -> status \in Terminal

ApiRead(a, op) ==
  /\ api[a] = "idle" /\ MayRequest(op)
  /\ api' = [api EXCEPT ![a] = op]
  /\ UNCHANGED <<rowVars, jobVars, execVars, mqVars, subtree, faults>>

Answer(a) == api' = [api EXCEPT ![a] = "done"]

ForceCancel(a) ==
  /\ api[a] = "force" /\ status # Gone
  /\ status' = "CANCELLED" /\ cancel_requested' = TRUE
  /\ Answer(a)
  /\ UNCHANGED <<chunk_seq, stale, saved, jobVars, execVars, mqVars, subtree, faults>>

\* The commit refreshes updated_at (onupdate).
RequestCancel(a) ==
  /\ api[a] = "ask" /\ status # Gone
  /\ cancel_requested' = TRUE /\ stale' = FALSE
  /\ Answer(a)
  /\ UNCHANGED <<status, chunk_seq, saved, jobVars, execVars, mqVars, subtree, faults>>

\* create_import_run fails a stale run of the same owner.
ReapStaleRun(a) ==
  /\ api[a] = "reap" /\ status # Gone
  /\ status' = "FAILED"
  /\ Answer(a)
  /\ UNCHANGED <<chunk_seq, stale, cancel_requested, saved, jobVars, execVars, mqVars, subtree, faults>>

\* delete_import_run keeps the jobs ("delete") or removes them ("purge").
DeleteRun(a) ==
  /\ api[a] \in {"delete", "purge"} /\ status # Gone
  /\ status' = Gone /\ cancel_requested' = FALSE
  /\ IF api[a] = "purge"
     THEN /\ jobs' = [p \in Pages |-> 0]
          /\ child' = [p \in Pages |-> "none"]
     ELSE UNCHANGED jobVars
  /\ Answer(a)
  /\ UNCHANGED <<chunk_seq, stale, saved, execVars, mqVars, subtree, faults>>

WriteToDeletedRun(a) ==
  /\ api[a] \in Ops /\ status = Gone
  /\ Answer(a)
  /\ UNCHANGED <<rowVars, jobVars, execVars, mqVars, subtree, faults>>

-----------------------------------------------------------------------------
(* The specification                                                       *)

Deliver(e) == \E s \in queue : ClaimChunk(e, s) \/ IgnoreMessage(e, s)

\* What an execution does when nothing goes wrong around it.
Work(e) ==
  \/ CancelBeforeStart(e) \/ SeedFrontier(e) \/ Resume(e)
  \/ ObserveCancel(e) \/ (\E x \in mem[e].frontier : PopPage(e, x))
  \/ EndChunk(e) \/ EndRun(e) \/ SendContinuation(e) \/ ResendPendingChildren(e)
  \/ FetchPage(e) \/ CommitPage(e) \/ HeartbeatAttachment(e) \/ CommitUnchanged(e)
  \/ CommitAttachments(e) \/ EnqueueChild(e)
  \/ (\E new \in SUBSET Fresh(e) : DiscoverChildren(e, new))
  \/ LeaseLost(e) \/ ReadAfterException(e) \/ FailAfterException(e)

Disturb(e) ==
  \/ FailSetup(e) \/ HitByteCap(e) \/ FailPage(e)
  \/ (\E new \in SUBSET Fresh(e) : ListingFails(e, new) \/ SoftTimeLimit(e, new))
  \/ Uncaught(e) \/ Crash(e) \/ Redeliver(e)

Serve(a) ==
  \/ \E op \in Ops : ApiRead(a, op)
  \/ ForceCancel(a) \/ RequestCancel(a) \/ ReapStaleRun(a) \/ DeleteRun(a)
  \/ WriteToDeletedRun(a)

Next ==
  \/ \E e \in Execs : Deliver(e) \/ Work(e) \/ Disturb(e)
  \/ HeartbeatLapses \/ RequeueAfterRestart
  \/ \E p \in Pages : TakeChild(p)
  \/ \E a \in Callers : Serve(a)

Spec == Init /\ [][Next]_vars

\* Celery runs every started task and delivers every queued message, and
\* time passes: weak fairness.  Faults, restarts and API requests have none.
Fairness ==
  /\ \A e \in Execs : WF_vars(Work(e)) /\ WF_vars(Deliver(e))
  /\ WF_vars(HeartbeatLapses /\ UNCHANGED faults)

FairSpec == Spec /\ Fairness

-----------------------------------------------------------------------------
(* Safety                                                                  *)

\* The lease is exclusive: never do two executions hold the current chunk_seq,
\* however often messages are redelivered and leases reclaimed.
OneOwner ==
  \A e, f \in Execs :
    /\ pc[e] # "idle" /\ claimed[e] = chunk_seq
    /\ pc[f] # "idle" /\ claimed[f] = chunk_seq
    => e = f

\* No page is imported twice, and pages_imported counts exactly the page jobs
\* of the run (until delete_import_run removes the run).
ImportedOnce ==
  /\ \A p \in Pages : jobs[p] <= 1
  /\ status # Gone => saved.imported = Cardinality({p \in Pages : jobs[p] = 1})
  /\ \A p \in Pages : jobs[p] = 1 => saved.visited[p] \in {"job", "failed"}

\* However often the run is redelivered and reclaimed, it is crawled by one
\* execution at a time and each page becomes a job once: the guard of every
\* commit (_commit_owned) and the map of visited pages it writes.
CrawledOnce == OneOwner /\ ImportedOnce

\* The page a byte cap stopped at: recorded as an error, never visited.
ByteCapped == \E p \in saved.errors : saved.visited[p] = "no" /\ p \notin Ids(saved.frontier)

\* Once the children of a page were listed in full, each of them is visited or
\* still queued in every committed state of the run: the crawl forgets none,
\* whatever crash, soft limit or change of owner comes in between.
NoneForgotten ==
  ~ByteCapped =>
    \A p \in Pages : subtree[p] = "listed" =>
      Kids[p] \subseteq Visited(saved.visited) \cup Ids(saved.frontier)

\* A run that finishes below its caps has visited every child it ever listed.
FinishedComplete ==
  status = "FINISHED" /\ WithinPageCap /\ ~ByteCapped =>
    \A p \in Pages : subtree[p] = "listed" => Kids[p] \subseteq Visited(saved.visited)

\* pages_imported never exceeds max_pages, also across chunks and reclaims.
WithinCap == saved.imported <= MaxPages

\* After the run finished, every OCR child job still PENDING has a queued
\* process_job message: the re-send in _finalize_run makes up for children
\* committed by executions that died or lost the lease before sending.
ChildrenHandedOver ==
  status = "FINISHED" /\ (\A e \in Execs : pc[e] # "backstop") =>
    {p \in Pages : child[p] = "PENDING"} \subseteq childQueue

\* Nobody looks at a FINISHED run again: what it says it has done was done, its
\* crawl and the hand-over of its jobs (_finalize_run).
FinishedMeansDone == FinishedComplete /\ ChildrenHandedOver

\* A terminal run is never resurrected and nothing more is written into it:
\* late executions, redelivered messages and reclaims change neither its crawl
\* nor its page jobs.
TerminalIsFinal ==
  [][(status \in Terminal) =>
        /\ status' \in Terminal \cup {Gone}
        /\ saved' = saved
        /\ status' # Gone => jobs' = jobs]_vars

\* The abstract promise: pages become jobs at most once and only while the run
\* is active, and only an ended run is deleted.
Phase == CASE status \in Active   -> "active"
           [] status \in Terminal -> "ended"
           [] status = Gone       -> "deleted"

Promise == INSTANCE ImportPromise WITH phase <- Phase, imported <- jobs

KeepsPromise == Promise!PromiseSpec

\* Every run comes to an end if no worker process dies.
EventuallyEnds == <>(status \notin Active)

-----------------------------------------------------------------------------
(* Statements of the documentation the code does not keep                  *)

\* "this execution must neither write nor flip anything terminal": a step of
\* an execution whose lease was reclaimed leaves the run alone.
SupersededNeverWrites ==
  [][\A e \in Execs :
       pc[e] # "idle" /\ claimed[e] # chunk_seq /\ pc'[e] # pc[e] =>
         UNCHANGED <<status, saved, jobs>>]_vars

\* "a crash re-imports at most the in-flight page -- never silently drops it":
\* in a finished run no imported page still owes the listing of its children.
NothingDropped == status = "FINISHED" => \A p \in Pages : subtree[p] # "owed"

\* "finished -> 409": a finished run is not cancelled or failed any more.
FinishedStays == [][status = "FINISHED" => status' \in {"FINISHED", Gone}]_vars
=============================================================================
