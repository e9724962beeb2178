# A verification project for PaddleDoc

PaddleDoc turns documents and wiki pages into Markdown. A FastAPI backend keeps jobs and
import runs in PostgreSQL, Celery workers convert and crawl, Redis is their broker. This
directory holds TLA+ modules of the parts where the order of events decides whether work
is lost or done twice, TLC instances of them, and proofs the TLA+ proof system checks.

Contents: [the parts of the system](#parts-of-the-system) ·
[the modules](#the-modules) · [what is checked](#what-is-checked) ·
[what is proved](#what-is-proved) · [findings](#findings) ·
[not modelled](#not-modelled) · [plan](#plan)

## Parts of the system

| Part | State | Operations | Talks to |
| --- | --- | --- | --- |
| Import runs (`workers/import_tasks.py`, `api/import_routes.py`) | `import_runs` row: status, `chunk_seq`, `updated_at`, crawl frontier and visited map, counters; page jobs | claim a chunk, crawl, commit a page, discover children, continue, finish; create (and reap), cancel, delete | broker, wiki HTTP API, `process_job`, webhooks, refresh |
| OCR jobs (`workers/tasks.py`, `api/routes.py`) | `jobs` row: status, settings, result, `updated_at`; messages; Redis recovery lock | claim, convert, end; recovery when a worker becomes ready; upload, restart, retry, restart-pending, folder restart, collection start, save, delete | broker, OCR engines, webhooks |
| Webhook delivery (`workers/webhook_tasks.py`, `api/webhook_routes.py`) | `webhook_deliveries` row: status, attempts | dispatch, deliver with retries, manual send | broker, receivers |
| Refresh schedule (`workers/refresh_tasks.py`) | a Redis token, source rows | tick, start refresh runs | broker, import runs |
| OpenWebUI push (`workers/openwebui_tasks.py`, `api/openwebui_routes.py`) | `openwebui_pushes` row: status, file id, content hash; the files on the server | create under a cap, claim and reclaim, upload, wait, attach, replace the predecessor, fail | broker, OpenWebUI |
| Mail ingestion (`services/mail_ingest.py`, `api/mail_routes.py`) | `mail_messages` row, attachment jobs | ingest once per message hash, replay, read, delete | OCR jobs |
| Document versions (`create_job_from_upload`, `services/storage.py`) | `document_version`, `previous_job_id`, file hash, the file on disk | chain an upload to its predecessor, report duplicates, delete | OCR jobs |
| Benchmarks (`api/benchmarks.py`) | `benchmark_runs` row, variant jobs | start, derive a status, report, delete | OCR jobs |
| Accounts (`api/auth.py`, `api/deps.py`) | users with their failure counters, sessions, API tokens, OIDC providers | set-up, sign-in with a password or through a provider, renew and end sessions, administer users | Redis, identity provider |
| Rate limiting (`services/security.py`) | one Redis counter per client, with an expiry | count, allow or refuse | every route |
| Outbound requests (`services/safe_fetch.py`) | the chain of one request | resolve, check, connect, follow redirects | wiki, receivers, OpenWebUI |
| Wiki client (`services/confluence.py`) | none | list children and attachments, page by page | import runs, outbound requests |
| Conversion, quality gate, field validation (`services/paddle_service.py`, `quality_gate.py`, `field_validation.py`) | none | functions of the engine's output | OCR jobs |
| Worker log (`workers/log_capture.py`) | `worker_log_entries` | record, prune | - |
| Frontend, chart, migrations | none the others depend on | - | - |

Workers and API processes share nothing but the database and the broker. The hard
behaviours are the same everywhere:

- a row is read, decided upon and written in separate steps, by sessions that write back
  the columns they changed whatever the row has become since;
- a message is sent before or after the commit it belongs to, and the process may die in
  between;
- the broker delivers at least once: late acknowledgement, redelivery when a child process
  dies, a visibility timeout when a container does;
- time limits, soft and hard, strike at any point of a task;
- liveness rests on messages: a row that waits for a message nobody sends waits for ever.

What makes each part correct:

- *Import runs*: at most one execution writes the run; every page becomes a job once;
  the crawl forgets nothing it has listed; a finished run is complete and its OCR children
  are queued; an ended run stays as it is; every run ends.
- *OCR jobs*: one conversion of a job at a time; a finished job has its Markdown and was
  announced; a deleted job does not come back; a PENDING job always has a message; every
  queued job ends.
- *Webhooks*: an event is accepted once and asked for a bounded number of times, "sent"
  means accepted, no pending delivery is forgotten.
- *Refresh*: one chain of ticks, only the holder of the lock starts runs, no source has two
  refresh runs, the chain never dies, due sources are refreshed.
- *Push*: the collection never loses a document that was pushed; a push replaces only its
  own predecessor; no file is left behind unless something failed; what is not shown as
  stale is current; every push ends.
- *Mail, versions, benchmarks*: one stored message per hash; a message or benchmark has all
  its jobs or none; a version follows an existing upload by one; no file without a reason;
  a job is converted once; a benchmark that ended has ended.
- *Accounts*: one set-up; there is always an active administrator; a lock comes at its
  threshold; sessions end in time and stay ended; an identity leads to its own account.
- *Rate limit*: a refused client is admitted again; a client cannot choose its name.
- *Outbound requests*: credentials and bodies do not leave the place they were given for;
  no hop connects to an address it did not check.
- *Pure functions*: nothing is lost or repeated (parts of a mail, pages, blocks, cells,
  listed items); a better document does not score less.

`PROJECT.json` lists every part with its modelling status, and the hazards of the code at
the line where they bite, each with the properties that would catch it or the reason why
none does.

## The modules

| Module | Models | Kind |
| --- | --- | --- |
| `ImportPromise` | what an import promises its user | abstract specification |
| `ImportRun` | the chunked crawl, its lease, its requests, its broker | detailed specification |
| `ImportRunProofs` | - | theorems about `ImportRun`, its refinement of `ImportPromise` |
| `OcrJob` | `process_job`, worker recovery, the requests on jobs | specification |
| `OcrJobProofs` | - | theorems about `OcrJob` |
| `WebhookDelivery` | senders, deliveries, retries | specification |
| `WebhookProofs` | - | theorems about `WebhookDelivery` |
| `RefreshChain` | the self-sending tick and its lock | specification |
| `RefreshProofs` | - | theorems about `RefreshChain` |
| `OpenWebUIPush` | pushes of jobs into a knowledge collection, the files on the server | specification |
| `PushProofs` | - | theorems about `OpenWebUIPush` |
| `Intake` | uploads and versions, mail messages, benchmarks, and what deletes them | specification |
| `IntakeProofs` | - | theorems about `Intake` |
| `Accounts` | set-up, sign-in, sessions, tokens, administration, the rate limiter | specification |
| `AccountsProofs` | - | theorems about `Accounts` |
| `SafeFetch` | a request that follows redirects | specification |
| `Listing`, `MailParts`, `Conversion`, `QualityGate`, `Upkeep` | algorithms without state | operators and what they promise |
| `Positions` | - | a filter of a sequence, given by the places it keeps |
| `Algorithms` | `SafeFetch` and the algorithms, one step each | specification; the inputs are its constants |
| `AlgorithmProofs` | - | theorems about `SafeFetch` and the algorithms |
| `MCImportRun`, `MCOcrJob`, `MCWebhookDelivery`, `MCRefreshChain`, `MCOpenWebUIPush`, `MCIntake`, `MCAccounts`, `MCAlgorithms` | - | definitions for the small instances |

The state machines follow one pattern. A process (an execution of a task, a worker, a request) has a
program point in `pc`, `api` or `sender`; one action takes it from one database commit or
broker call to the next. An action contains everything the code does between the two, the
refresh of `updated_at` and the writes of the ORM included. Faults are actions of their
own, of a named kind; `Faults` chooses the kinds of an instance and `MaxFaults` bounds
their number. Operators whose name has an underscore (`Owns_AnyStatus`) are *mutants*:
plausible bugs the named definition could have, kept next to it and never used, with
which each property was seen to fail.

### ImportRun

`status`, `chunk_seq`, `stale`, `cancel_requested` and `saved` are the `import_runs` row
(`saved` is `ImportRun.state` with the counters), `jobs` and `child` the page jobs and
their OCR children, `mem` the `_RunState` an execution holds in memory, `queue` the
`chunk_seq` arguments of queued messages. Time is one bit, `stale`: `updated_at` is older
than `import_stale_run_seconds`.

`ClaimChunk` is `_claim_chunk`; `CommitOwned` is `_commit_owned`, the compare-and-set on
`chunk_seq` every commit of a chunk goes through. `PopPage`, `FetchPage`, `CommitPage`,
`CommitAttachments`, `EnqueueChild` and `DiscoverChildren` are one round of the loop of
`import_confluence`; `SoftTimeLimit`, `FailPage`, `ListingFails`, `Uncaught` are its
exception handlers, each possible where the handler catches. `RequeueAfterRestart` is the
part of the `worker_ready` hook that replays stale runs. Requests (`ApiRead`, then one of
`RequestCancel`, `ForceCancel`, `ReapStaleRun`, `DeleteRun`, `WriteToDeletedRun`) decide on
what they read and commit later, as the handlers do. The order of the frontier is left
open, a page has at most one OCR attachment, titles, paths and HTML are data.

`ImportPromise` is the abstract specification: while a run is active its pages become
jobs, each at most once; an ended run is final; only an ended run is deleted. `ImportRun`
instantiates it (`Promise`) with `phase <- Phase` and `imported <- jobs`.

### OcrJob

A job row has no lease and no version; the only guard is the claiming UPDATE (`Claimable`).
After it, `Flushed` is what the ORM's commit does: a column is written if its value differs
from the *loaded* one, on top of whatever the row holds by now. `old` is "`updated_at` is
more than two minutes ago" and `later` orders the `updated_at` values, which
restart-pending sorts by. `Boot` to `BecomeReady` are the steps of the `worker_ready` hook
under its Redis lock. `Program` gives the steps of each request in the order of the code,
in particular which of them send before they commit. `Jobs` that are `Collected` belong to
a collection that is not started yet; `chosen` is the selection its start writes into
`processing_info`. A retry with a lower profile
(`retry_job_with_lower_profile`) has the steps and guards of `restart`; the profile is data.

### WebhookDelivery

A sender (`_dispatch` or `send_webhook`) checks the cap, commits a delivery and sends its
message, in three steps. `deliver_webhook` loads a pending delivery, checks connection and
subject, posts, commits, and sends the retry itself; its message is acknowledged when it
returns. `posts` and `accepted` are what the receiver saw. `deaths` counts the executions
that died with their request made and the delivery still pending: exactly the ones after
which a second acceptance cannot be excluded by any receiver-independent scheme.

### RefreshChain

`lock` is the value of the Redis key, `ttl` its remaining life in tick intervals. A message
has the token as argument, a holder and perhaps a countdown; `Reserve`, `Take`, `Restore`
are what Celery does with it. `Acquire`, `Renew`, `CheckSource`, `StartRun`, `SendRun`,
`SendNext`, `Acknowledge` are one tick, `Boot`, `Recover`, `Kick` the hook that starts a
chain. Time passes (`TimePasses`) only while no execution is under way and no idle worker
has a message to take: a tick takes seconds, the interval is five minutes. That also makes
the pair GET and EXPIRE of the renewal one step. `splits` counts executions that died
after they had sent the next tick; `fatal` records whether a fault of a kind was used that
may end the chain (see the findings).

### OpenWebUIPush

A push is a pair of a request and a job. `recorded` and `hash` are `openwebui_file_id` and
`pushed_content_sha256`; `fresh` says that `updated_at` is within the stale window; `store`
and `attached` are the server's files and those of the collection, `uploads` how many files the
server took of a push, since it gives no id twice. `CheckCap`,
`InsertPushes`, `SendMessage` are the request, which counts, commits and sends in three
steps; `TakeMessage` is `_claim_push`; `LoadContent`, `UploadFile`, `AddToKnowledge` (with
`wait_for_processing`), `DeleteUpload`, `FindPrevious`, `RemovePrevious`, `CommitFinished`
are `push_openwebui` between two calls; `FailPush` its handler. An error reply of the server
may come for something it did. Users change or delete the job and the connection meanwhile.
A container that dies gives its message back after the visibility timeout, a child process
at once, which is the difference between a push that ends and one that does not.
`killed` and `mixed` are history: pushes whose child died, and jobs whose pushes overlapped.

### Intake

One module for the three ways a document enters, because they meet in the `jobs` table and
in what deletes from it. A request is a process with a transaction per step:
`SaveUpload` (the file, its hash, the predecessor) and `CommitUpload` for uploads;
`PostMail` (lookup) and `CommitMail` (insert, unique constraint, replay) for messages;
`CreateBenchmark`; then `SendNext`, one message at a time, with the death of the request
possible before each. `ReadMail` is a read that finds stranded attachments. `DeleteJob`,
`DeleteFolder`, `DeleteMail`, `DeleteBenchmark` delete, with `previous_job_id` set to NULL
by the database and a foreign key that refuses a predecessor that has gone. A worker is one
step here (`Convert`): its life is `OcrJob`. Histories name the excuses the properties
need: `contested` (uploads overlapped), `raced` (a message was posted twice at once),
`torn` (a file whose request died, was refused, or whose message was deleted with its jobs).

### Accounts

`brake` is `failed_login_count`, `last_failed_login_at` and `locked_until` with the three
values of each that the code tells apart. A sign-in reads the row, hashes the password and
then writes what it computed from the row it *read* (`Registered`, `Cleared` write the
columns that differ from it). `CountRequest` and `SetExpiry` are INCR and EXPIRE of the
limiter, two commands. Time is `MinutePasses` (the counter expires, if it does),
`QuarterPasses` (failures become old, locks end) and `DayPasses` (sessions); it passes while
no request is under way. `tries` is the exact count the brake is compared with.

### SafeFetch and the algorithms

`SafeFetch` is the loop of `safe_fetch`: each request is recorded with the address list it
was checked against. The other five modules have no state. `Listing` pages through a server
that is honest or hostile, `MailParts` walks MIME trees and mirrors the three traversals of
`mail_ingest.py` and the one of `_eml_to_markdown`, `Conversion` has chunk sizes, the merge of
blocks, label/value pairs, tables and the fallback between engines, `QualityGate` the score
and the dates, `Upkeep` the report of a benchmark, the prune of the log and the name of a
client. Each module ends with the operators that say what its algorithm promises.
`Algorithms` gives each an action, which picks an input, computes the output and keeps both,
and an invariant that relates the two. The inputs are constants; an assumption states for
each what it is in the code (a MIME tree, pages of blocks with ids of their own, records
laid out in rows). `MCAlgorithms` gives every input of a small size. Loops are recursive
functions on `0..N` and filters are `Keep` of the places that pass, so that both can be
reasoned about.

## What is checked

TLC finishes each run below within a minute or two (two workers). Passing runs:

| Run | Instance | States | What it shows |
| --- | --- | --- | --- |
| `import_faults` | 2 pages, 2 executions, 2 requests, 2 faults of 9 kinds | 0.9 million | `CrawledOnce` (`OneOwner`, `ImportedOnce`), `NoneForgotten`, `FinishedMeansDone` (`FinishedComplete`, `ChildrenHandedOver`); the refinement `KeepsPromise` |
| `import_live` | 4 pages in 2 levels, cap 2, 2 executions, 2 faults of 8 kinds | 28 thousand | `WithinCap`; `EventuallyEnds` |
| `job_restarts` | 1 job with 2 messages, 2 workers, restart or save or delete, 2 faults | 700 | `EndIsComplete` (`FinishedHasResult`, `EndAnnounced`), `OneExecutor` |
| `job_live` | 1 job, 2 workers that die and restart, a restart request, 2 faults | 0.3 million | `PendingIsQueued`; `EventuallyDone` |
| `job_all` | 1 job, 2 workers, every request, every fault | 0.3 million | `DeletedStaysDeleted` |
| `webhook` | 2 deliveries, cap 1, 2 workers, 2 attempts, 2 faults of all kinds | 0.2 million | `PendingIsQueued`, `SentWasAccepted`, `ReceiverIsSpared` (`AcceptedOnce`, `PostsBounded`); `EventuallyDelivered` |
| `push` | 3 pushes of 1 document, cap 2, 2 workers, 1 fault of 7 kinds | 0.2 million | `TypeOK`, `DocumentIsHeld` (`NeverVanishes`, `OneFile`), `NothingLeftLying` (`OrphansExplained`, `UnfinishedIsHandled`), `NotStaleIsCurrent`; `EventuallyEnds` |
| `intake` | 4 ids of jobs, 2 of messages and benchmarks, 2 requests at a time, 3 in all, 1 death | 0.3 million | `MessagesStoredOnce` (`OneRowPerOwner`, `OneRowPerTeam`), `WholeGroups`, `VersionChain` (`ChainsSound`, `VersionsDistinct`), `DocumentsAreKept` (`FilesExplained`, `ConvertedOnce`), `BenchmarkFinal`; `StrandedAreTaken` |
| `accounts` | 2 users, 2 requests at a time, 3 in all, 3 days, 1 fault | 1.0 million | `Administered` (`OneSetup`, `AdminRemains`), `LimitsAreKept` (`BrakeIsExact`, `TokensBounded`), `IdentitiesKeptApart` (`OwnAccountOnly`, `EmailsUnique`), `SessionsEndForGood` (`SessionsEnd`, `EndedStaysEnded`); `LimitLifts` |
| `algorithms` | chains of up to 3 requests over 5 URLs; every small input of 14 algorithms | 0.2 million | `ChainIsSafe` (`CredentialsStayHome`, `AddressesChecked`, `BodyFollowsMethod`), `ListingsSound`, `NoPartLost`, `MarkdownKeepsDocument`, `GateIsFair`, `PicksTheRightOnes` |
| `refresh` | 2 workers, 1 source, lock of 3 ticks, 1 fault of all kinds | 31 thousand | `OneChain`, `StartsAlone` (`LeaderScans`, `NoDoubleRun`); `KeepsRefreshing` (`KeepsTicking`, `RefreshStarted`) |

A name followed by others in parentheses is their conjunction: one statement with named
parts, each of which a mutant of its own was seen to break. The parts of the properties of
`algorithms` are listed in `Algorithms`; what they say is in the modules of the algorithms.

One run ends in a violation (see the findings): `import_superseded`.

### Why the bounds are enough

- *Two executions* of a run are all that matter: the lease compares one number, and a
  third execution is a second one whose predecessor is already superseded. The replay of
  `RequeueAfterRestart` needs no fault, so two faults give stall, replay and an exception
  of the superseded execution, or two deaths in a row. *Two requests* give a delete
  between the read and the write of a cancel.
- *Two pages* (a root with a child) are the smallest tree in which a listing can be lost;
  `import_live` uses a root with two children and a grandchild against a cap of two pages,
  with `ChunkPages` 2, so that a chunk ends by its size, by the cap and by an empty
  frontier.
- In `import_faults` an execution may die or raise anywhere but between the FINISHED commit
  and the re-send of the children (`BeforeFinish`): there `ChildrenHandedOver` does not hold
  of the code, which has no second backstop.
- *Symmetry* (`SlotSymmetry`) is used in `import_faults` only: executions and requests
  differ in nothing but their names, and its properties are safety properties.
- *One job* is enough for every property of jobs but `PendingSparesActive`, because jobs
  meet only in restart-pending and in the recovery; that one has an instance with two.
- *Two attempts* of a delivery give a first, a retried and an exhausted one. Two deliveries
  against a cap of one make the cap bite.
- *One fault* of the refresh chain, of any kind and at any point; the lock lives three
  intervals, as in the code. Two tokens are enough for an old and a new chain.
- *Three pushes* of one document against a cap of two: two that overlap and a later one
  that replaces what they left. One fault of each kind between any two calls, so that every
  orphan has one cause; `OrphansExplained` counts them.
- *Three requests*, two at a time, in `intake`: two that race and one that deletes or
  replays. Four ids of jobs hold two messages with two attachments, or a chain of versions
  next to a message. Messages wait at most once more than needed (`MaxQueued`), which bounds
  how often a read may repeat what it sends.
- *Two users* give an administrator and another; three requests give two that race and one
  before or after them. A window of two days and a cap of three is the smallest pair in
  which the cap ends a session its renewals would have kept.
- The algorithms compare, count and cut, so that inputs around their thresholds decide: up
  to five listed items in pages of two, trees of five parts, six cells of a form, two
  readings and two blocks, three variants, five log rows.
- Deadlock is checked in `refresh`, where ticking goes on for ever. In
  the other instances a run, a job or a delivery ends, so they set `CHECK_DEADLOCK FALSE`.

### Fairness and timing, and why the code justifies them

- *Celery and Redis.* A worker that is up goes on with its task (weak fairness of `Work`,
  `Execute`, `Tick`). The broker is a Redis list, first in first out: a message is not
  overtaken for ever, which is strong fairness of `Receive` where other messages come and go.
- *Restarts.* Containers have `restart: always` (`docker-compose.yml`), so a dead worker
  boots again. Faults and API requests have no fairness: they need not happen.
- *Push.* Requests and executions go on, messages are taken, the stale window and the
  visibility timeout pass. *Intake*: workers take what is queued (weak fairness of
  `Convert`), and somebody looks at a message whose attachments are not converted
  (`ReadMail`): the code repairs stranded attachments on a read and not otherwise.
  *Accounts*: admitted requests go on, a minute passes when nothing is under way.
- *Requests* are answered within seconds: `Unhurried` keeps the two-minute and the
  visibility timeout from elapsing during one. A conversion may take up to 25 minutes
  (`celery_task_soft_time_limit_seconds`) without writing the row; the fault `slow` lets
  the two minutes pass during one.
- *Timeouts.* The visibility timeout is 1800 s or more, longer than the two minutes after
  which a RUNNING job may be claimed again, than `import_stale_run_seconds` (600) and than
  the life of the refresh lock (3 x 300 s). The recovery lock lives 120 s, longer than a
  recovery takes.
- A Redis command that raises was not applied.
- `EventuallyEnds` of the import runs holds without deaths of worker processes,
  `KeepsRefreshing` unless a fault of one of the fatal kinds occurs. These conditions are
  not for convenience: with the excluded faults the code does stop, see the findings.

## What is proved

For every value of the constants that satisfies the named `ConstantsAssumption` of the module
(for the algorithms, the assumptions named below):

| Theorem | Statement | By |
| --- | --- | --- |
| `ImportRunProofs!TypeCorrect` | `Spec => []TypeOK` | `TypeInv`: `TypeOK`, and a RUNNING run has a positive `chunk_seq` |
| `ImportRunProofs!LeaseExclusive` | `Spec => []OneOwner` | `LeaseInv` |
| `ImportRunProofs!CrawlsOnce` | `Spec => []CrawledOnce` | `LeaseInv`, `RunInv` |
| `ImportRunProofs!ImportsOnce` | `Spec => []ImportedOnce` | `RunInv` |
| `ImportRunProofs!EndedIsFinal` | `Spec => TerminalIsFinal` | `RunInv` |
| `ImportRunProofs!RefinesPromise` | `Spec => KeepsPromise` | `RunInv` |
| `ImportRunProofs!ListedIsKept` | `Spec => []NoneForgotten` | `CoverInv` |
| `ImportRunProofs!CapHolds` | `Spec => []WithinCap` | `CoverInv` |
| `ImportRunProofs!FinishedIsDone` | `HandsOver` implies `Spec => []FinishedMeansDone` | `CoverInv`, `HandoverInv` |
| `OcrJobProofs!JobTypes` | `Spec => []TypeOK` | `TypeOK` is inductive |
| `OcrJobProofs!DeletedIsFinal` | `Spec => DeletedStaysDeleted` | `JobTypes` |
| `OcrJobProofs!ClaimIsExclusive` | `ClaimsOnly` implies `Spec => []OneExecutor` | `ClaimInv` |
| `OcrJobProofs!RestartIsExclusive` | `PlainRestarts` implies `Spec /\ []OneAtATime => []OneExecutor` | `ClaimInv`, `RestartInv` |
| `OcrJobProofs!EndsAreAnnounced` | `NoneKilled` implies `Spec => []EndAnnounced` | `EndInv` |
| `OcrJobProofs!FinishedIsReadable` | `NoRestarts \/ OneRequest` implies `Spec => []FinishedHasResult` | `ResultInv` with `FreshInv` |
| `OcrJobProofs!EndsAreComplete` | both conditions imply `Spec => []EndIsComplete` | the two above |
| `OcrJobProofs!PendingHasMessage` | `SendsReliable` implies `Spec => []PendingIsQueued` | `SentInv` |
| `WebhookProofs!Types` | `Spec => []TypeOK` | `Base` |
| `WebhookProofs!SentMeansAccepted` | `Spec => []SentWasAccepted` | `SentInv` |
| `WebhookProofs!NothingIsForgotten` | `Spec => []PendingIsQueued` | `QueuedInv` |
| `WebhookProofs!AcceptsOnce` | `Spec => []AcceptedOnce` | `ChancesInv` |
| `WebhookProofs!RequestsAreBounded` | `Spec => []PostsBounded` | `PostsInv` with `OneChain` |
| `WebhookProofs!ReceiversAreSpared` | `Spec => []ReceiverIsSpared` | both |
| `RefreshProofs!RunsStartAlone` | `Spec => []StartsAlone` | `AloneInv` |
| `RefreshProofs!ChainsAreOne` | `Spec => []OneChain` | `AloneInv` |
| `PushProofs!PushTypeCorrect` | `Spec => []TypeOK` | `PushInv` |
| `PushProofs!NotStaleIsCurrentAlways` | `Spec => []NotStaleIsCurrent` | `PushInv` |
| `PushProofs!NothingLeftLyingAlways` | `Spec => []NothingLeftLying` | `PushInv`, `SpoiledInv`, `HandledInv` |
| `PushProofs!DocumentIsHeldAlways` | `Spec => []DocumentIsHeld` | `PushInv`, `SettledInv`, `OrderInv` |
| `IntakeProofs!IntakeTypes` | `Spec => []TypeOK` | `Base` |
| `IntakeProofs!ConvertsOnce` | `Spec => []ConvertedOnce` | `ConvertedInv` |
| `IntakeProofs!GroupsAreWhole` | `Spec => []WholeGroups` | `GroupsInv` |
| `IntakeProofs!BenchmarksStayEnded` | `Spec => BenchmarkFinal` | `GroupsInv` |
| `IntakeProofs!MessagesAreStoredOnce` | `Spec => []MessagesStoredOnce` | `Base`, `TeamInv` |
| `IntakeProofs!FilesAreExplained` | `Spec => []FilesExplained` | `Base` |
| `IntakeProofs!ChainsAreSound` | `Spec => []ChainsSound` | `ChainInv` |
| `IntakeProofs!VersionsAreDistinct` | `Spec => []VersionsDistinct` | `VersionsInv` |
| `IntakeProofs!VersionsAreAChain` | `Spec => []VersionChain` | both |
| `IntakeProofs!DocumentsStay` | `Spec => []DocumentsAreKept` | `Base`, `ConvertedInv` |
| `AccountsProofs!AccountTypes` | `Spec => []TypeOK` | `Base` |
| `AccountsProofs!IdentitiesStayApart` | `Spec => []IdentitiesKeptApart` | `Base`, `EmailsUnique` |
| `AccountsProofs!SessionsEndInTime` | `Spec => SessionsEndForGood` | `Base` |
| `AccountsProofs!AlwaysAdministered` | `Spec => []Administered` | `SetupInv` |
| `AccountsProofs!LimitsHold` | `Spec => []LimitsAreKept` | `BrakeInv`, `TokensInv` |
| `AlgorithmProofs!FetchTypes` | `Spec => []FetchTypeOK` | `FetchInv` |
| `AlgorithmProofs!FetchesAreSafe` | `Spec => []ChainIsSafe` | `CredentialsAreContained`, `EveryHopIsChecked`, `BodiesAreDropped` |
| `AlgorithmProofs!AlgorithmsFetchSafely` | `AlgorithmsSpec => []ChainIsSafe` | `FetchesAreSafe` |
| `AlgorithmProofs!CredentialsAreContained` | `Spec => []CredentialsStayHome` | `FetchInv`, `NextIsHome` |
| `AlgorithmProofs!EveryHopIsChecked` | `Spec => []AddressesChecked` | `FetchInv` |
| `AlgorithmProofs!BodiesAreDropped` | `Spec => []BodyFollowsMethod` | `FetchInv`, `NextHasBody` |
| `AlgorithmProofs!ListingsAlwaysSound` | `AlgorithmsSpec => []ListingsSound` | `HonestIs`, `HostileIs` |
| `AlgorithmProofs!NoPartEverLost` | `AlgorithmsSpec => []NoPartLost` | `ListedIs`, `MentionedIs` |
| `AlgorithmProofs!MarkdownAlwaysKeepsDocument` | `AlgorithmsSpec => []MarkdownKeepsDocument` | `CollectedIs`, `SectionsIs`, `FormIs`, `LinesIs`, `TableIs` |
| `AlgorithmProofs!GateAlwaysFair` | `AlgorithmsSpec => []GateIsFair` | `ScoreMono`, `DatesIs` |
| `AlgorithmProofs!PicksAlwaysRight` | `AlgorithmsSpec => []PicksTheRightOnes` | `ComparedIsReal`, `PruneIs`, `ClientIs` |

*Import runs.* `OneOwner` is not inductive: it speaks of the current `chunk_seq` only, and
a claim makes a new one current. `LeaseInv` says that the numbers executions hold are all
different and none is ahead of the row; a claim takes a larger one, so nobody has it.
The lease alone does not make imports unique either: the owner decides from its private
memory whether a page is new. `RunInv` adds that the owner's memory knows every page that
has a job (`CrawlInv`; for executions that lost the lease it may be wrong, and need not be
right), that the committed visited map and the counter agree with the jobs (`JobInv`), and
that a request to delete was let in after the run had ended (`RequestInv`). Each action is
one step of the proof, grouped by the commit it makes. The refinement then follows case by
case: a commit of a page is `ImportPage`, an end by any route `EndRun`, a deletion
`DeleteRun`, and everything else stutters.

`CoverInv` follows the crawl through the owner's memory, where it lives between two commits:
the stored crawl, and the owner's copy with the page just taken from its frontier, know the
children of every listed page. The exception is a byte cap that has emptied the frontier; the
page it stopped at then has an error and no visit, and keeps both. It also carries that an
owner between fetching a page and committing it has seen room under `max_pages`, which gives
`WithinCap`, and that a finished run has an empty frontier or was capped. `HandoverInv` says
that a finished run has every pending child queued or somebody still at the hand-over;
`HandsOver` excludes faults at that very point: no execution takes a finished run up again,
so children it did not send stay pending.

*OCR jobs.* `DeletedIsFinal` is about the late writes: every action that writes a row does
so through an UPDATE, and an UPDATE of a missing row writes nothing. `ClaimIsExclusive`
isolates what the claim gives: as long as no worker restarts, no conversion is slow (`Steady`)
and nobody restarts jobs (`ClaimsOnly`), a job is converted by one worker however many
messages it has and whichever child processes die. `ClaimInv` says that the job of an
execution is RUNNING and young, so a second claim finds nothing; each of the conditions
names something that does break it. `RestartIsExclusive` admits restart requests. A restart
reads the row, asks the workers, and writes from what it read, and `RestartInv` says how far
that can be out of date: a RUNNING job has its execution, so that a restart either sees it
among the active ones and refuses, or it has ended, and then nothing but a restart makes it
available. This needs workers that answer, executions that end in the row, and restarts that do
not overlap (`OneAtATime`); two that overlap are `OcrJobRestart.cfg`.

The other theorems about jobs are each the obligation of whoever leaves a job behind.
`EndInv`: whoever commits an end still has its announcement to make until it is made, as long
as no execution is killed in between (`NoneKilled`). `SentInv`: a PENDING job has a message, or a
recovery or a request is before its send of one, or it belongs to a collection nobody has
started; the recovery sends after its commit and so do the requests but the folder restart, so
that a death before the send is all that can lose the message (`SendsReliable` excludes it).
`ResultInv` is about the result that a restart drops: its write sends a column only if that
differs from what it read. With one request (`OneRequest`) a row it read as PENDING had no
result to drop (`FreshInv`), and any other row becomes PENDING in the same write.
The hypothesis is needed. TLC finds,
with two restarts of one job: the first reads RUNNING without a result; the job finishes; the
first writes PENDING and leaves the result, which it never saw; the second reads PENDING with a
result; the job runs again and is FINISHED; the second drops the result, and leaves the status,
which is already what it read. The job stays FINISHED without a result.

*Webhooks.* `AcceptedOnce` bounds what the receiver accepted by the deaths, but nothing in
it says why a second message of the same delivery does no harm. `ChancesInv` counts, per
delivery, what the receiver has accepted, the message that waits and the executions that may
still be accepted; their sum is at most one more than the deaths. The count is a cardinality
that each step moves by one (`Recount`). `PostsInv` adds that without such a death a delivery has
one chain of messages and executions, whose `attempts` nobody overwrites, and `QueuedInv`
names who is going to act for a pending row.

*Refresh schedule.* `StartsAlone` has two halves. That who scans holds the lock (`Fits`) needs
only that nobody takes a lock that is held and that no time passes while an execution is under
way. That no source gets two runs, though the check and the insertion are separate steps, needs
the chain. `ChainInv` is `OneChain` with the finiteness of what it counts: the links of a token
are the executions that go on with it and its messages, one by one. Taking, sending, reserving
and restoring replace one link by another; a death drops one, or, after the next tick was sent,
adds one and counts as a split. Where counters are added (a countdown ends, a worker is killed)
the new links are mapped into the old ones, injectively. Two executions that scan would both be
links of the token in the lock, so without splits there is one.

*Pushes.* Everything rests on a push having one execution (`Alone`), which is why the row gets
its file and its hash once and together (`Rows`), and on the server giving no id twice: a push
numbers its uploads, and no file has a number its push has not reached (`Numbered`).
`NotStaleIsCurrent` follows from `Rows`, because a hash is that of the content uploaded, whatever
the job became since. `SettledInv` says that once a push of a job has finished, the collection has
a file of it that no execution is about to take back: a push removes its predecessor's file only
while its own, attached, is there, and nobody else removes that. `OrderInv` adds that, without
faults and for jobs whose pushes ran one after the other, there is one file apart from what the
running execution adds before it removes the old one. `SpoiledInv` counts the files nobody knows
of, and those whose execution is in its exception handler, against the faults; `HandledInv` names
who will act for each unfinished push, and for a running one within its window who is executing
it, since until the window has passed a message would be acknowledged unused.

*Intake.* All steps fall into eight cases by what they do to the rows (`StepCases`): a file is
saved, a row committed, a request dies, jobs are inserted, removed or orphaned, a job is
converted, or the rows stay. Each invariant is then one step per case. `Base` carries what
keeps requests apart: the id a request holds has no row and is nobody else's. `ChainInv`
says that what a request read of its predecessor stays true of it until it commits, or the
predecessor has gone and the foreign key refuses the row; ids are never used again, so no
other row can take its place. `VersionsInv` says that one request saves at a time and what
it will insert is above all there is, which rests on the highest version existing
(`HighestExists`, by counting what lies above). Requests take ids in the order of their
numbers, so `LowestIn` needs the well-foundedness of the naturals.

*Accounts.* `NextWriters` says of every variable which actions write it, so that each
invariant below is proved against those few. `Base` adds to the types what a request may rely
on between its steps (`Fits`): ids are never used again, so the account, session or provider it
read is still that one or has gone, whatever was changed meanwhile. The properties of sessions
and identities follow from it, because every write goes to the row that was read.
`SetupInv` follows the lock of the set-up and the administrators: somebody who is about to
remove one has counted another, and unless two such changes overlap (`contested`) that other is
still there when the write comes. `BrakeInv` says that without overlapping sign-ins (`raced`)
the row a sign-in holds is the row that is stored, so the streak it writes is the count of the
failures. `TokensInv` counts, next to the tokens of a user, the requests that have found room
and not inserted yet; both together exceed the cap by at most one less than the requests there
can be at once.

*Outbound requests.* `NextIsHome` says of the request that is about to be sent what
`CredentialsStayHome` says of those that were: as long as it has credentials, no hop left the
origin. A hop that returns home does not get them back, because the flag is only ever
conjoined.

*Algorithms.* The state only holds one input with its output, so the invariants are proved
step by step: each rests on a lemma, named in the table, that says for *every* input of its
type, of any length, what the algorithm computes. The inputs are bounded by nothing but
their types, which the assumptions of `Algorithms` state (`ListingsAssumption`,
`HostileAssumption`, `MailsAssumption`, `DocumentsAssumption`, `GateAssumption`,
`UpkeepAssumption`). The only one that restricts more than a type is `LaidOut`: a form has
its boxes in rows, between one another. `PairingKeepsText` needs no such layout.
The proofs share three tools. A loop is a function defined by recursion on `0..N`;
`RecursionExists` says that there is one, its step being a function and not an operator, and
`UpInduction` proves what holds after every turn: a set of numbers that has 0 and, with a number,
the next has them all, because the naturals are well-founded. A filter is `Keep` of a set of places:
`AscendingIs` says that the places are taken in order and each once, `KeepJoins` that the filter of
two joined sequences is the two filters joined.

- *Listings.* After each turn, `TurnListed` says that the URLs asked are different and on the
  host, so that a hostile server runs out of URLs; `TurnFaithful` says of an honest one that what
  was taken is the usable part of what was sent. Both ways of paging (`V1KeepsContract`,
  `V2KeepsContract`) cut the items into consecutive slices.
- *Mails.* Every leaf is the body, dropped, or in the manifest, and the manifest is an ascending
  filter of the tree's parts, so none is in it twice.
- *Chunks.* The page a payload belongs to is predicted from the chunk it came in; `PredictedIs`
  says that the predictions are 1, 2, ... n whatever the size of the chunks.
- *Blocks.* They are sorted by counting, for each, those before it (`OrderedIs`): the counts are
  different, so each place is taken once. Only a header or footer whose text was shown before is left out.
- *Forms.* Labels choose one after the other among the values nobody has. `NeighbourStage`: once
  the labels up to i have chosen, exactly those have their right neighbour that have one near
  enough. Nobody can have taken it before, because what another label takes is that
  label's own neighbour, and a box is next to one label only.
- *Tables.* `SameText` compares the table that is read with the one written, row by row: cells
  a span or the padding adds hold nothing, and text is kept by joining (`FilledJoins`).
- *Scores.* A score is a weighted mean of whole-numbered means and shares, and none of them falls
  when one input rises (`ConfidenceMono`, `StructureMono`); division keeps the order (`DivMono`).
- *Dates, reports, logs, clients.* Spans taken are apart (`FreeApart`); the fastest and best are
  among those that count (`FastestIs`, `BestGradedIs`); the rows above the cut are at least the cap
  (`PruneIs`); the entry counted from the right of the header is one our proxies wrote (`HopIs`).

Only model-checked: everything under fairness (`EventuallyEnds`, `EventuallyDone`,
`EventuallyDelivered`, `StrandedAreTaken`, `LimitLifts`, `KeepsRefreshing`), which is out of
reach of the proof system; and `OneExecutor` next to requests that overlap, folder restarts
or restart-pending, where it does not hold in general. Every other invariant and action
property of a passing run is stated by a theorem.

## Findings

Registered, with a run that finds the counterexample and a quotation in `PROJECT.json`:

- `import_superseded`: the outer exception handler of `import_confluence`
  (`import_tasks.py:1194-1203`) looks at the status of the run, not at its lease. An
  execution that was superseded and then raises fails the run of its successor.

Further divergences met while modelling. Those with a configuration can be replayed with
`tlc -config X.cfg M`, M being the module the name begins with (`MCImportRun`, `MCOcrJob`,
`MCRefreshChain`, `MCOpenWebUIPush`, `MCAccounts`). The
`FairSpec` ones show behaviours that are fair and still never get there:

- `ImportRunDropped.cfg`: a page is committed as visited before its children are listed
  (`import_tasks.py:1088-1089`). After a crash in between, the run finishes without that
  subtree.
- `OcrJobReplica.cfg`: a worker that becomes ready requeues *every* RUNNING job
  (`tasks.py:136`), also those another worker is converting.
- `OcrJobFolder.cfg`: a folder restart sends its messages before it commits
  (`routes.py:1468`). A quick worker ignores them and the jobs stay PENDING. The same order
  is what `docs/integrations/mail-ingestion.md:194-197` says the mail route avoids.
- `RefreshChainBusy.cfg`: with one worker slot, a task longer than the life of the refresh
  lock ends the chain of ticks: the execution that finds the lock gone stands down
  (`refresh_tasks.py:78-82`).
- `OpenWebUIPushKilled.cfg`: the claim of a running push is called the recovery path for
  redelivery, but after the death of a child process the message comes back at once, finds
  the push running and fresh, and is acknowledged; the push stays running and counts
  against the cap of its owner for ever.
- `AccountsBlip.cfg`: the rate limiter promises to fail open during a blip of Redis
  (`security.py`). One between INCR and EXPIRE leaves a counter that never expires, and the
  client is refused until somebody deletes the key.
- Without a configuration of its own (check `DroppedTextRepeatsBody` of `Algorithms` in place of
  the invariants of `Algorithms.cfg`): the docstring (`mail_ingest.py:42-44`) says that alternatives are left out
  in the group that contains the chosen body; the code (`mail_ingest.py:376-392`) leaves out the text below *any*
  `multipart/alternative` once a body was chosen, so the text of a second, attached message
  part is in neither the body nor the manifest.

- `ImportRunStuck.cfg`: a message redelivered at once after a death finds a heartbeat that
  is not stale yet and is acknowledged unused; nothing continues the run until a worker
  restarts or the user acts (`import_tasks.py:293-310`).
- Without a configuration: a page that fails after its job was committed is counted as
  failed and keeps the job ("roll back the partial page", `import_tasks.py:1120-1133`).
- Without a configuration: the page put back by a soft limit lets the frontier grow
  past `max_pages`. What is imported stays within the cap (`WithinCap`).
- `ImportRunOverwritten.cfg`: a cancel that read RUNNING or PENDING overwrites FINISHED.
- `OcrJobPending.cfg`: restart-pending spares as many RUNNING jobs as there are active
  tasks, the latest ones, not those that are active (`routes.py:1205-1212`).
- `OcrJobRestart.cfg`: two restarts at once each see an idle job; the second resets the
  conversion the first has started.
- `OcrJobHook.cfg`: a worker that dies between the commit of its recovery and its sends
  leaves jobs PENDING without a message.
- Without a configuration: a child process that dies within two minutes of its claim has its
  message redelivered at once and ignored; the job stays RUNNING until a worker restarts.
- `OcrJobLostSelection.cfg`: a collection start sends before it commits, and the execution
  that loads the row first writes its old `processing_info` back over the selection.
- `RefreshChainKilled.cfg` with `Faults = {"first"}`: the execution that acquired the lock dies; its redelivered
  message has no token and finds the lock taken, by itself.
- `RefreshChainRecovery.cfg`: the kickstart comes after the `return` of a worker that did
  not get the recovery lock (`tasks.py:217-219`), though the comment below it says it is
  not gated on the recovery. If the holder was killed, no chain starts.
- `RefreshChainKilled.cfg`: the tick a killed worker had reserved comes back after the
  visibility timeout, when the lock has lapsed.
- Without a configuration, in the code of `Intake`: attachments that a deletion of their
  message keeps while they are PENDING are never sent again; the death of the API process
  strands the variants of a benchmark; the deletion of a message with its jobs leaves their
  files on disk (`mail_routes.py:759`); a client that polls a message with a waiting
  attachment sends it again at every poll.
- In the code of `Accounts`: two administrators who demote or delete each other at once
  remove the last one (`AdminRemains` excludes exactly that); sign-ins that overlap count
  once, so the lock comes late (`BrakeIsExact` excludes them).
- In the algorithms: full pages of skipped items keep a v1 listing going, though "a hostile
  server must not be able to loop us forever" (`confluence.py:396-399`), and a server that
  caps pages below the asked size truncates it; `_first_row_is_header` documents that blank
  columns are taken for a header and returns the opposite; `_eml_to_markdown` documents one
  page for the body on top of the attachments' and counts the larger of one and their sum; a
  page without a payload shifts the numbers of those after it; an attachment of an `.eml`
  file that converts to nothing is not mentioned; a prune keeps one row more than its cap,
  and all that have the same time; with fewer hops in the header than proxies configured the
  client's own entry is used.
- Without a configuration: the webhook of a job is lost if the worker dies between the
  commit of its end and the dispatch; two restarts can leave FINISHED without a result (see the proof of `FinishedIsReadable`);
  after a death between request and record two chains of retries overwrite each other's
  `attempts`, and more than `_MAX_ATTEMPTS` requests are made; a refresh tick that dies
  between its send and its acknowledgement leaves two chains with one token, both of which
  renew the lock for ever (`OneChain` allows for it with `splits`); a failing send in the
  `finally` of the tick ends the chain.

## Not modelled

- *OCR engines, HTTP, cryptography*: one step with an outcome, or data no property depends
  on. Of the conversion, checkboxes, LaTeX, images and the conversion of wiki markup are
  left out, of the field validation the checks that are one regular expression.
- *Teams and visibility*: everybody is in one team, so every lookup sees all rows. VL
  connections, the claim of ownerless jobs, worker-log rows and the transport of OIDC have no
  module.
- *Imported pages as predecessors* of uploads, folders, tags and passwords of jobs.
- *Admission caps* of import runs, which are checked and inserted in two steps like the
  others (the code accepts the race, `openwebui_routes.py:390-393`).
- *Several source deployments*: one import run, one user's deliveries.
- *Redelivery of a running task by the visibility timeout* is in `ImportRun` (`Redeliver`)
  and not in `OcrJob`, whose time limit is shorter than the timeout.
- *Two faults in the refresh chain*: the instance is too large for liveness.
- Frontend, chart, migrations and captured logs keep no state the rest depends on.

## Plan

1. Proofs: `OneExecutor` and `FinishedHasResult` with a weaker condition on the requests.
2. Compositions: `OcrJob` with `WebhookDelivery` (what an event says of a job that is
   restarted meanwhile), `ImportRun` with `OcrJob`, `Intake` with `OcrJob` (a message for an
   attachment is one step of `Intake`).
3. Visibility: teams and owners as a parameter of `Intake` and `OcrJob`, whose lookups then
   see a part of the rows.
4. The rest of the conversion: checkboxes and wiki markup as tree rewriting.
