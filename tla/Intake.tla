------------------------------- MODULE Intake -------------------------------
(***************************************************************************)
(* How documents enter the system: uploads with their version chain        *)
(* (src/backend/app/api/routes.py), e-mail messages with their attachments *)
(* (api/mail_routes.py) and benchmarks with their variants                 *)
(* (api/benchmarks.py), as far as the jobs they leave to the workers.      *)
(*                                                                         *)
(* Each request is a process; a step is one transaction, or what it reads  *)
(* before the next one.  What a worker does with a job is OcrJob's         *)
(* subject: here a message for a pending job converts it, in one step.     *)
(*                                                                         *)
(* Abstractions.  Everybody belongs to one team, so everything is visible  *)
(* to all; every document has the same name; a message or a file is the    *)
(* hash of its content; parsing, folders, tags and passwords are left out, *)
(* and so are imported pages, which can be predecessors of uploads.        *)
(***************************************************************************)
EXTENDS Naturals, FiniteSets

CONSTANTS
  JobIds,       \* ids of jobs, in the order they are taken
  GroupIds,     \* ids of messages and benchmarks
  Procs,        \* requests at one time
  Owners, Messages, Contents,  \* users, hashes of messages and of uploads
  Children,     \* attachments of a message, variants of a benchmark
  MaxRequests, MaxQueued, MaxDeaths  \* bounds of the instance

ASSUME ConstantsAssumption ==
  /\ JobIds \subseteq Nat \ {0} /\ GroupIds \subseteq Nat \ {0} /\ IsFiniteSet(JobIds)
  /\ Owners # {} /\ Messages # {} /\ Contents # {} /\ Children \in Nat \ {0}
  /\ {MaxRequests, MaxQueued, MaxDeaths} \subseteq Nat

VARIABLES
  job,          \* the rows of jobs
  group,        \* the rows of mail_messages and benchmark_runs
  file,         \* uploads on disk
  queued,       \* messages for a job in the queue
  pc, ctx,      \* the requests
  started, deaths,
  converted,    \* history: how often a job was converted
  raced,        \* messages that were posted at the same time
  contested,    \* whether uploads overlapped
  torn          \* files whose request died or was refused by the database

bounds  == <<started, deaths>>
history == <<converted, raced, contested, torn>>
vars    == <<job, group, file, queued, pc, ctx, bounds, history>>

Pick(S)  == CHOOSE x \in S : TRUE
Kinds    == {"upload", "mail", "benchmark"}
Terminal == {"finished", "failed"}
Row      == [state : {"none", "pending", "gone"} \cup Terminal, kind : Kinds, content : Contents,
             version : Nat, previous : JobIds \cup {0}, group : GroupIds \cup {0}]
Group    == [state : {"none", "there", "gone"}, kind : Kinds, owner : Owners, content : Messages]
Context  == [owner : Owners, message : Messages, content : Contents, id : JobIds \cup {0},
             previous : JobIds \cup {0}, version : Nat, send : SUBSET JobIds]

NoRow   == [state |-> "none", kind |-> "upload", content |-> Pick(Contents), version |-> 0,
            previous |-> 0, group |-> 0]
NoGroup == [state |-> "none", kind |-> "mail", owner |-> Pick(Owners), content |-> Pick(Messages)]
Blank   == [owner |-> Pick(Owners), message |-> Pick(Messages), content |-> Pick(Contents), id |-> 0,
            previous |-> 0, version |-> 0, send |-> {}]

TypeOK ==
  /\ job \in [JobIds -> Row] /\ group \in [GroupIds -> Group]
  /\ file \subseteq JobIds /\ queued \in [JobIds -> Nat]
  /\ pc \in [Procs -> {"idle", "saved", "parsed", "send"}] /\ ctx \in [Procs -> Context]
  /\ started \in 0..MaxRequests /\ deaths \in 0..MaxDeaths
  /\ converted \in [JobIds -> Nat] /\ raced \subseteq Messages
  /\ contested \in BOOLEAN /\ torn \subseteq JobIds

Init ==
  /\ job = [j \in JobIds |-> NoRow] /\ group = [m \in GroupIds |-> NoGroup]
  /\ file = {} /\ queued = [j \in JobIds |-> 0]
  /\ pc = [p \in Procs |-> "idle"] /\ ctx = [p \in Procs |-> Blank]
  /\ started = 0 /\ deaths = 0
  /\ converted = [j \in JobIds |-> 0] /\ raced = {} /\ contested = FALSE /\ torn = {}

-----------------------------------------------------------------------------
(* Helpers                                                                 *)

Exists(j)  == job[j].state \notin {"none", "gone"}
Stored(m)  == m # 0 /\ group[m].state = "there"
Held       == file \cup {ctx[p].id : p \in Procs}
FreeJobs   == {j \in JobIds : job[j].state = "none"} \ Held
FreeGroups == {m \in GroupIds : group[m].state = "none"}
Lowest(S)  == CHOOSE x \in S : \A y \in S : x <= y
Fresh(n)   == {j \in FreeJobs : Cardinality({i \in FreeJobs : i < j}) < n}
ChildrenOf(m) == {j \in JobIds : Exists(j) /\ job[j].group = m}

Begin       == started < MaxRequests /\ started' = started + 1
Goto(p, at) == pc' = [pc EXCEPT ![p] = at]
Done(p)     == Goto(p, "idle") /\ ctx' = [ctx EXCEPT ![p] = Blank]

\* The rest of a request sends a message for each of these jobs.
ThenSend(p, jobs) ==
  IF jobs = {} THEN Done(p) ELSE Goto(p, "send") /\ ctx' = [ctx EXCEPT ![p] = [Blank EXCEPT !.send = jobs]]

SendNext(p) ==
  /\ pc[p] = "send"
  /\ LET j == Lowest(ctx[p].send)
     IN /\ queued' = [queued EXCEPT ![j] = @ + 1]
        /\ ThenSend(p, ctx[p].send \ {j})
  /\ UNCHANGED <<job, group, file, bounds, history>>

-----------------------------------------------------------------------------
(* upload_document and create_job_from_upload                              *)

\* Attachments of mails and variants of benchmarks are nobody's predecessor.
\* Mutant: attachments may be.
Versioned_Mails == {j \in JobIds : Exists(j) /\ job[j].kind # "benchmark"}
Versioned == {j \in JobIds : Exists(j) /\ job[j].kind = "upload"}

\* The highest version; which of two equal ones was created last is left open.
\* Mutant: the lowest.
Predecessors_Lowest == {j \in Versioned : \A i \in Versioned : job[i].version >= job[j].version}
Predecessors == {j \in Versioned : \A i \in Versioned : job[i].version <= job[j].version}

Uploading == {p \in Procs : pc[p] = "saved"}

\* The file of a duplicate is removed.  Mutant: it stays.
AfterDuplicate_Stays(j) == file \cup {j}
AfterDuplicate(j) == file \ {j}

NextVersion(j) == job[j].version + 1

SaveUpload(p) ==
  /\ pc[p] = "idle" /\ FreeJobs # {} /\ Begin
  /\ LET j == Lowest(FreeJobs)
     IN \E c \in Contents :
          \/ /\ Predecessors = {}
             /\ Goto(p, "saved") /\ file' = file \cup {j}
             /\ ctx' = [ctx EXCEPT ![p] = [Blank EXCEPT !.id = j, !.content = c, !.version = 1]]
          \/ \E before \in Predecessors :
               IF job[before].content = c
               THEN file' = AfterDuplicate(j) /\ UNCHANGED <<pc, ctx>>
               ELSE /\ Goto(p, "saved") /\ file' = file \cup {j}
                    /\ ctx' = [ctx EXCEPT ![p] = [Blank EXCEPT !.id = j, !.content = c, !.previous = before,
                                                               !.version = NextVersion(before)]]
  /\ contested' = (contested \/ Uploading # {})
  /\ UNCHANGED <<job, group, queued, deaths, converted, raced, torn>>

\* The foreign key refuses a predecessor that has gone.
Accepted(j) == j = 0 \/ Exists(j)

CommitUpload(p) ==
  LET c == ctx[p]
  IN
  /\ pc[p] = "saved"
  /\ IF Accepted(c.previous)
     THEN /\ job' = [job EXCEPT ![c.id] = [NoRow EXCEPT !.state = "pending", !.content = c.content,
                                             !.version = c.version, !.previous = c.previous]]
          /\ \/ ThenSend(p, {c.id})    \* upload_document
             \/ Done(p)                \* upload_document_to_collection waits for its start
          /\ UNCHANGED torn
     ELSE Done(p) /\ torn' = torn \cup {c.id} /\ UNCHANGED job
  /\ UNCHANGED <<group, file, queued, bounds, converted, raced, contested>>

-----------------------------------------------------------------------------
(* ingest_mail_message                                                     *)

SameMail(c) == {m \in GroupIds : Stored(m) /\ group[m].kind = "mail" /\ group[m].content = c}
\* _visible_mail_filter; everybody is in one team.  Mutant: own messages only.
Visible_Own(o, m) == group[m].owner = o
Visible(o, m) == TRUE

Pending(m)  == {j \in ChildrenOf(m) : job[j].state = "pending"}

\* A message the caller can see already is a replay: what is pending is sent again.
PostMail(p) ==
  /\ pc[p] = "idle" /\ Begin
  /\ \E o \in Owners, c \in Messages :
       IF \E m \in SameMail(c) : Visible(o, m)
       THEN (\E m \in SameMail(c) : Visible(o, m) /\ ThenSend(p, Pending(m))) /\ UNCHANGED raced
       ELSE /\ Goto(p, "parsed")
            /\ ctx' = [ctx EXCEPT ![p] = [Blank EXCEPT !.owner = o, !.message = c]]
            /\ raced' = IF \E q \in Procs : pc[q] = "parsed" /\ ctx[q].message = c THEN raced \cup {c} ELSE raced
  /\ UNCHANGED <<job, group, file, queued, deaths, converted, contested, torn>>

\* UniqueConstraint(owner_id, content_sha256).  Mutant: over the id of the row.
Unique_Always(o, c) == TRUE
Unique(o, c) == \A m \in SameMail(c) : group[m].owner # o

Inserted(jobs, kind, m) ==
  [j \in JobIds |-> IF j \in jobs
                    THEN [NoRow EXCEPT !.state = "pending", !.kind = kind, !.version = 1, !.group = m]
                    ELSE job[j]]

\* A refused row takes its jobs with it.  Mutant: they were committed before.
RolledBack_Not(jobs, m) == Inserted(jobs, "mail", m)
RolledBack(jobs, m) == job

CommitMail(p) ==
  LET o == ctx[p].owner
      c == ctx[p].message
      m == Lowest(FreeGroups)
      jobs == Fresh(Children)
  IN
  /\ pc[p] = "parsed" /\ FreeGroups # {} /\ Cardinality(jobs) = Children
  /\ IF Unique(o, c)
     THEN /\ group' = [group EXCEPT ![m] = [state |-> "there", kind |-> "mail", owner |-> o, content |-> c]]
          /\ job' = Inserted(jobs, "mail", m)
          /\ ThenSend(p, jobs)
     ELSE /\ job' = RolledBack(jobs, m) /\ UNCHANGED group
          /\ \E same \in SameMail(c) : ThenSend(p, Pending(same))
  /\ UNCHANGED <<file, queued, bounds, history>>

\* get_mail_message and the export send pending jobs again that are older than
\* _STRANDED_MAIL_JOB_AFTER, which any of them may be.  Mutant: all but those.
Stranded_Ended(m) == ChildrenOf(m) \ Pending(m)
Stranded(m) == Pending(m)

ReadMail(m) ==
  /\ Stored(m) /\ group[m].kind = "mail"
  /\ Stranded(m) # {} /\ \A j \in Stranded(m) : queued[j] < MaxQueued
  /\ queued' = [j \in JobIds |-> IF j \in Stranded(m) THEN queued[j] + 1 ELSE queued[j]]
  /\ UNCHANGED <<job, group, file, pc, ctx, bounds, history>>

-----------------------------------------------------------------------------
(* create_benchmark                                                        *)

CreateBenchmark(p) ==
  LET m == Lowest(FreeGroups)
      jobs == Fresh(Children)
  IN
  /\ pc[p] = "idle" /\ FreeGroups # {} /\ Cardinality(jobs) = Children /\ Begin
  /\ group' = [group EXCEPT ![m] = [NoGroup EXCEPT !.state = "there", !.kind = "benchmark"]]
  /\ job' = Inserted(jobs, "benchmark", m)
  /\ file' = file \cup jobs
  /\ ThenSend(p, jobs)
  /\ UNCHANGED <<queued, deaths, history>>

\* _derive_benchmark_status
StatusOf(states) ==
  IF states \subseteq {"pending"} THEN "pending"
  ELSE IF states \subseteq Terminal THEN (IF "finished" \in states THEN "completed" ELSE "failed")
  ELSE "running"

Status(m) == StatusOf({job[j].state : j \in ChildrenOf(m)})

-----------------------------------------------------------------------------
(* Deletion                                                                *)

\* previous_job_id is SET NULL with its target.
Without(jobs) ==
  [j \in JobIds |-> IF j \in jobs THEN [job[j] EXCEPT !.state = "gone", !.previous = 0]
                    ELSE IF job[j].previous \in jobs THEN [job[j] EXCEPT !.previous = 0] ELSE job[j]]

\* A variant is refused.  Mutant: it is not.
Deletable_Any(j) == Exists(j)
Deletable(j) == Exists(j) /\ job[j].kind # "benchmark"

DeleteJob(j) ==
  /\ Deletable(j) /\ Begin
  /\ job' = Without({j}) /\ file' = file \ {j}
  /\ UNCHANGED <<group, queued, pc, ctx, deaths, history>>

\* delete_folder, of the folder that holds everything but the benchmarks.
DeleteFolder ==
  LET jobs == {j \in JobIds : Deletable(j)}
  IN
  /\ jobs # {} /\ Begin
  /\ job' = Without(jobs) /\ file' = file \ jobs
  /\ UNCHANGED <<group, queued, pc, ctx, deaths, history>>

\* With its jobs, whose files stay, or without them.
DeleteMail(m) ==
  /\ Stored(m) /\ group[m].kind = "mail" /\ Begin
  /\ group' = [group EXCEPT ![m].state = "gone"]
  /\ \/ job' = Without(ChildrenOf(m)) /\ torn' = torn \cup (ChildrenOf(m) \cap file)
     \/ /\ job' = [j \in JobIds |-> IF j \in ChildrenOf(m) THEN [job[j] EXCEPT !.group = 0] ELSE job[j]]
        /\ UNCHANGED torn
  /\ UNCHANGED <<file, queued, pc, ctx, deaths, converted, raced, contested>>

DeleteBenchmark(m) ==
  /\ Stored(m) /\ group[m].kind = "benchmark" /\ Begin
  /\ group' = [group EXCEPT ![m].state = "gone"]
  /\ job' = Without(ChildrenOf(m)) /\ file' = file \ ChildrenOf(m)
  /\ UNCHANGED <<queued, pc, ctx, deaths, history>>

-----------------------------------------------------------------------------
(* Workers, time and deaths                                                *)

\* Mutant: a message starts the conversion whatever the status.
Claimable_Any(j) == Exists(j)
Claimable(j) == job[j].state = "pending"

Delivered(j) == queued[j] > 0

\* The worker takes a message and converts the job.  It writes the file of an
\* attachment itself; whether a conversion failed matters to benchmarks only.
Convert(j) ==
  /\ Delivered(j) /\ queued' = [queued EXCEPT ![j] = @ - 1]
  /\ IF Claimable(j)
     THEN /\ \E result \in IF job[j].kind = "benchmark" THEN Terminal ELSE {"finished"} :
               job' = [job EXCEPT ![j].state = result]
          /\ file' = file \cup {j} /\ converted' = [converted EXCEPT ![j] = @ + 1]
     ELSE UNCHANGED <<job, file, converted>>
  /\ UNCHANGED <<group, pc, ctx, bounds, raced, contested, torn>>

RequestDies(p) ==
  /\ pc[p] # "idle" /\ deaths < MaxDeaths /\ deaths' = deaths + 1
  /\ torn' = IF pc[p] = "saved" THEN torn \cup {ctx[p].id} ELSE torn
  /\ Done(p)
  /\ UNCHANGED <<job, group, file, queued, started, converted, raced, contested>>

-----------------------------------------------------------------------------
(* The specification                                                       *)

Request(p) == SaveUpload(p) \/ CommitUpload(p) \/ PostMail(p) \/ CommitMail(p) \/ CreateBenchmark(p) \/ SendNext(p)

Next ==
  \/ \E p \in Procs : Request(p) \/ RequestDies(p)
  \/ \E m \in GroupIds : ReadMail(m) \/ DeleteMail(m) \/ DeleteBenchmark(m)
  \/ \E j \in JobIds : DeleteJob(j) \/ Convert(j)
  \/ DeleteFolder

Spec == Init /\ [][Next]_vars

\* Workers take what is queued, and somebody looks at a message whose
\* attachments are not converted.
FairSpec ==
  /\ Spec
  /\ \A m \in GroupIds : WF_vars(ReadMail(m))
  /\ \A j \in JobIds : WF_vars(Convert(j))

-----------------------------------------------------------------------------
(* Properties                                                              *)

\* One row for one message of one owner, also when a gateway posts it twice at
\* once and both requests miss the lookup (UniqueConstraint and the fallback).
OneRowPerOwner ==
  \A m, n \in GroupIds : Stored(m) /\ Stored(n) /\ m # n /\ group[m].kind = "mail" /\ group[n].kind = "mail" =>
    group[m].owner # group[n].owner \/ group[m].content # group[n].content

\* Among people who see each other's messages one row is enough, unless two of
\* them post it at the same time: the constraint is per owner.
OneRowPerTeam ==
  \A c \in Messages \ raced : Cardinality(SameMail(c)) <= 1

\* A message is stored once, for its owner by the constraint and for the team by
\* the lookup before it (ingest_mail_message).
MessagesStoredOnce == OneRowPerOwner /\ OneRowPerTeam

\* A message or a benchmark is stored with all of its jobs or not at all, and no
\* job belongs to one that is not stored, whatever request lost a race or died.
WholeGroups ==
  /\ \A m \in GroupIds : Stored(m) => Cardinality({j \in JobIds : job[j].group = m}) = Children
  /\ \A j \in JobIds : Exists(j) /\ job[j].group # 0 => Stored(job[j].group)

\* A version follows an upload that exists, by one, with another content, though
\* rows are deleted between the lookup and the insert.
ChainsSound ==
  \A j \in JobIds : Exists(j) /\ job[j].previous # 0 =>
    LET before == job[job[j].previous]
    IN /\ Exists(job[j].previous) /\ before.kind = "upload"
       /\ job[j].version = before.version + 1 /\ job[j].content # before.content

\* Unless uploads overlapped, no two rows are the same version of the document,
\* however many of them have been deleted.
VersionsDistinct ==
  contested \/ \A i, j \in JobIds :
    i # j /\ Exists(i) /\ Exists(j) /\ job[i].kind = "upload" /\ job[j].kind = "upload" => job[i].version # job[j].version

\* The versions of a document are one chain (create_job_from_upload).
VersionChain == ChainsSound /\ VersionsDistinct

\* An upload on disk has its row, or its request is at work, or died, or was
\* refused, or the row went with its message.  (A worker may write the file of
\* an attachment; the deletion of a message leaves it.)
FilesExplained ==
  \A j \in file \ torn : Exists(j) \/ \E p \in Procs : pc[p] = "saved" /\ ctx[p].id = j

\* Replays and reads send messages for a job that has some already, and go on
\* while it is converted: it is converted once.
ConvertedOnce == \A j \in JobIds : converted[j] <= 1

\* A document that came in is on disk as long as its job, and converted once
\* (save_upload, _delete_job_artifacts, _redispatch_stranded_mail_jobs).
DocumentsAreKept == FilesExplained /\ ConvertedOnce

\* A benchmark that has ended has ended: its report does not change until it is
\* deleted, and it is deleted as a whole.
BenchmarkFinal ==
  [][\A m \in GroupIds : Stored(m) /\ group[m].kind = "benchmark" /\ Status(m) \in {"completed", "failed"} =>
       ~Stored(m)' \/ (Status(m)' = Status(m) /\ ChildrenOf(m)' = ChildrenOf(m))]_vars

\* "a crash here only strands PENDING jobs": the attachments of a stored message
\* do not wait for ever, though the request that should have sent them died.
StrandedAreTaken ==
  \A m \in GroupIds : Stored(m) /\ group[m].kind = "mail" ~> Pending(m) = {} \/ ~Stored(m)
=============================================================================
