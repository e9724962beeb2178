----------------------------- MODULE PushProofs -----------------------------
(***************************************************************************)
(* A document that was pushed stays in the collection, no file is left     *)
(* there unknown and no push is left lying without a fault of its own, and *)
(* what is shown as current is (openwebui_tasks.py).                       *)
(*                                                                         *)
(* All rest on one fact: a push has at most one execution, so that its     *)
(* file is recorded at most once and is nobody else's.  The server gives   *)
(* no id twice (Numbered), so a new file is none of those that are there.  *)
(***************************************************************************)
EXTENDS OpenWebUIPush, FiniteSetTheorems, WellFoundedInduction, TLAPS

Holding == {"wait", "cleanup", "find", "replace", "finish"}

Busy(w) == pc[w] # "idle"

\* What an execution has at each point.  Only the execution itself removes its
\* file: what others remove was recorded before.
Fit(w) ==
  /\ ~Busy(w) => ctx[w] = Nothing
  /\ Busy(w) => Push(w) \in Pushes
  /\ pc[w] \in {"claimed", "upload"} => ctx[w].file = NoFile
  /\ pc[w] = "upload" => ctx[w].version >= 1
  /\ pc[w] \in Holding => /\ ctx[w].file \in store /\ ctx[w].version >= 1
                          /\ ctx[w].file.version = ctx[w].version
  /\ pc[w] \in {"find", "replace", "finish"} => ctx[w].file \in attached
  /\ ctx[w].file # NoFile => ctx[w].file.push = Push(w)
  /\ ctx[w].old # NoFile =>
       \E q \in Pushes : JobOf(q) = JobOf(Push(w)) /\ recorded[q] = ctx[w].old

Fits == \A w \in Workers : Fit(w)

\* A row gets its file and its hash together and at most once.
Row(p) ==
  /\ recorded[p] # NoFile => status[p] \in {"finished", "deleted"} /\ recorded[p].push = p
  /\ status[p] = "finished" =>
       recorded[p] # NoFile /\ hash[p] = recorded[p].version /\ hash[p] >= 1
  /\ status[p] = "deleted" => job[JobOf(p)] = "deleted"
  /\ request[p[1]] \in {"start", "counted"} => status[p] = "none"

Rows == \A p \in Pushes : Row(p)

\* _claim_push lets one execution of a push run, and its row stays as it is
\* until that ends, unless the job is deleted.
Claimed(w) == /\ (status[Push(w)] = "running" /\ Push(w) \in fresh) \/ status[Push(w)] = "deleted"
              /\ recorded[Push(w)] = NoFile
Alone == /\ \A w \in Workers : Busy(w) => Claimed(w)
         /\ \A v, w \in Workers : Busy(v) /\ Busy(w) /\ Push(v) = Push(w) => v = w

Numbered == \A f \in store : f.try <= uploads[f.push]

PushInv == /\ TypeOK /\ IsFiniteSet(store) /\ \A j \in Jobs : version[j] >= 1
           /\ Fits /\ Rows /\ Alone /\ Numbered

\* A visible file that no execution will take back.
Settled(j) == {f \in Of(j) : \A w \in Workers : pc[w] \in {"wait", "cleanup"} => ctx[w].file # f}
SettledInv == \A j \in Jobs : Finished(j) # {} => Settled(j) # {}

\* Files that are, or may become, unknown to everybody.
Spoiled == {f \in store : /\ job[JobOf(f.push)] # "deleted"
                          /\ \A p \in Pushes : recorded[p] # f
                          /\ \A w \in Workers : ctx[w].file = f => pc[w] = "raised"}
SpoiledInv == Cardinality(Spoiled) <= faults

\* An unfinished push waits for something, and a running one whose window has not
\* passed yet is executed, or its message is held for a dead container, or its
\* child was killed.
Waits(p) ==
  \/ queue[p] + unacked[p] > 0 \/ Executing(p) # {} \/ p \in killed
  \/ request[p[1]] = "dead" \/ (request[p[1]] = "send" /\ JobOf(p) \in eligible[p[1]])
Watched(p) == Executing(p) # {} \/ unacked[p] > 0 \/ p \in killed
Handled(p) == /\ status[p] \in {"pending", "running"} => Waits(p)
              /\ p \in fresh /\ status[p] = "running" => Watched(p)
HandledInv == \A p \in Pushes : Handled(p)

\* While nothing fails and the pushes of a job run one after the other, each after
\* those made before it, the file of the newest finished one is the only one,
\* apart from what the running execution adds before it removes that one.
Newest(j) == {recorded[p] : p \in {q \in Finished(j) : \A o \in Finished(j) : Rank(o) <= Rank(q)}}
For(w, j) == Busy(w) /\ JobOf(Push(w)) = j
Phase(w, j) ==
  /\ pc[w] \in {"claimed", "upload", "raised"} => Of(j) \subseteq Newest(j)
  /\ pc[w] \in {"wait", "cleanup", "find"} => Of(j) \subseteq Newest(j) \cup {ctx[w].file}
  /\ pc[w] = "replace" => Of(j) \subseteq {ctx[w].old, ctx[w].file}
  /\ pc[w] = "finish" => Of(j) \subseteq {ctx[w].file}
OrderOf(j) ==
  /\ \A v, w \in Workers : For(v, j) /\ For(w, j) => v = w
  /\ (\A w \in Workers : ~For(w, j)) => Of(j) \subseteq Newest(j)
  /\ \A w \in Workers : For(w, j) => ~OvertakenBy(Push(w)) /\ Phase(w, j)
OrderInv == faults = 0 => /\ connection = "usable" /\ \A j \in Jobs : job[j] # "deleted"
                          /\ \A j \in Jobs \ mixed : OrderOf(j)
-----------------------------------------------------------------------------
(* Data                                                                    *)

LEMMA PushParts ==
  ASSUME NEW p \in Pushes
  PROVE  p[1] \in Requests /\ JobOf(p) \in Jobs /\ Rank(p) \in Nat
  BY ConstantsAssumption DEF Pushes, JobOf, Rank

LEMMA PairIsPush ==
  ASSUME NEW r \in Requests, NEW j \in Jobs
  PROVE  <<r, j>> \in Pushes /\ <<r, j>>[1] = r /\ JobOf(<<r, j>>) = j
  BY DEF Pushes, JobOf

LEMMA SameRank ==
  ASSUME NEW p \in Pushes, NEW q \in Pushes, JobOf(p) = JobOf(q), Rank(p) = Rank(q)
  PROVE  p = q
  BY DEF Pushes, JobOf, Rank

LEMMA NoPush == <<>> \notin Pushes
  BY DEF Pushes

LEMMA NoFileIsNone == NoFile \notin File
  BY NoPush DEF NoFile, File

LEMMA FileParts ==
  ASSUME NEW f \in File
  PROVE  f.push \in Pushes /\ f.version \in Nat /\ f.try \in Nat
  BY DEF File

LEMMA ContextParts ==
  ASSUME NEW c \in Context
  PROVE  /\ c.push \in Pushes \cup {<<>>} /\ c.version \in Nat
         /\ c.file \in File \cup {NoFile} /\ c.old \in File \cup {NoFile}
  BY DEF Context

LEMMA NothingParts ==
  /\ Nothing \in Context
  /\ Nothing.push = <<>> /\ Nothing.version = 0 /\ Nothing.file = NoFile /\ Nothing.old = NoFile
  BY DEF Nothing, Context

LEMMA ContextUpdates ==
  ASSUME NEW c \in Context
  PROVE  /\ \A p \in Pushes :
              /\ [c EXCEPT !.push = p] \in Context /\ [c EXCEPT !.push = p].push = p
              /\ [c EXCEPT !.push = p].version = c.version
              /\ [c EXCEPT !.push = p].file = c.file /\ [c EXCEPT !.push = p].old = c.old
         /\ \A n \in Nat :
              /\ [c EXCEPT !.version = n] \in Context /\ [c EXCEPT !.version = n].push = c.push
              /\ [c EXCEPT !.version = n].version = n
              /\ [c EXCEPT !.version = n].file = c.file /\ [c EXCEPT !.version = n].old = c.old
         /\ \A f \in File \cup {NoFile} :
              /\ [c EXCEPT !.file = f] \in Context /\ [c EXCEPT !.file = f].push = c.push
              /\ [c EXCEPT !.file = f].version = c.version
              /\ [c EXCEPT !.file = f].file = f /\ [c EXCEPT !.file = f].old = c.old
              /\ [c EXCEPT !.old = f] \in Context /\ [c EXCEPT !.old = f].push = c.push
              /\ [c EXCEPT !.old = f].version = c.version
              /\ [c EXCEPT !.old = f].file = c.file /\ [c EXCEPT !.old = f].old = f
  BY DEF Context

\* The steps of an execution change its own context only.
Others(w) == \A v \in Workers \ {w} : pc'[v] = pc[v] /\ ctx'[v] = ctx[v]

LEMMA Went ==
  ASSUME TypeOK, NEW w \in Workers, NEW p, Goto(w, p), UNCHANGED ctx
  PROVE  Others(w) /\ pc'[w] = p /\ ctx'[w] = ctx[w]
  BY DEF TypeOK, Goto, Others

LEMMA Acked ==
  ASSUME TypeOK, NEW w \in Workers, Ack(w)
  PROVE  Others(w) /\ pc'[w] = "idle" /\ ctx'[w] = Nothing
  BY DEF TypeOK, Ack, Goto, Others

LEMMA Queued ==
  ASSUME TypeOK, NEW p \in Pushes, Enqueue(p)
  PROVE  queue' \in [Pushes -> Nat] /\ queue'[p] > 0 /\ \A q \in Pushes : queue'[q] >= queue[q]
  BY DEF TypeOK, Enqueue

-----------------------------------------------------------------------------
(* Types                                                                   *)

Typed == TypeOK /\ IsFiniteSet(store)

LEMMA InitTyped == Init => Typed
  BY NothingParts, FS_EmptySet, ConstantsAssumption DEF Init, Typed, TypeOK

LEMMA FaultType ==
  ASSUME TypeOK, NEW kind, Fault(kind)
  PROVE  faults' \in 0..MaxFaults /\ faults' = faults + 1 /\ faults' # 0
  BY ConstantsAssumption DEF TypeOK, Fault

LEMMA NewFileParts ==
  ASSUME TypeOK, NEW w \in Workers, Push(w) \in Pushes
  PROVE  /\ NewFile(w) \in File /\ NewFile(w) # NoFile /\ NewFile(w).push = Push(w)
         /\ NewFile(w).version = ctx[w].version /\ NewFile(w).try = uploads[Push(w)] + 1
<1>1. ctx[w].version \in Nat /\ uploads[Push(w)] + 1 \in Nat
  BY ContextParts DEF TypeOK
<1>2. NewFile(w) \in File
  BY <1>1 DEF NewFile, File
<1>q. QED BY <1>2, NoFileIsNone DEF NewFile

LEMMA KeepParts ==
  ASSUME Typed, NEW w \in Workers, Push(w) \in Pushes, Keep(w)
  PROVE  /\ store' \subseteq File /\ IsFiniteSet(store') /\ uploads' \in [Pushes -> Nat]
         /\ store' = store \cup {NewFile(w)} /\ uploads'[Push(w)] = uploads[Push(w)] + 1
         /\ \A p \in Pushes : p # Push(w) => uploads'[p] = uploads[p]
  BY NewFileParts, FS_AddElement DEF Typed, TypeOK, Keep

\* A finite set of numbers has a greatest one: the numbers that are not less
\* than it are the fewest.
LEMMA GreatestExists ==
  ASSUME NEW R \in SUBSET Nat, IsFiniteSet(R), NEW S \in SUBSET R, S # {}
  PROVE  \E x \in S : \A y \in S : y <= x
<1> DEFINE Above(x) == {z \in S : z >= x}
           above    == {Above(x) : x \in S}
           order    == StrictSubsetOrdering(R)
<1>1. IsWellFoundedOn(order, SUBSET R)
  BY FS_StrictSubsetOrderingWellFounded, FS_FiniteSubsetsOfFinite, Zenon
<1>2. above \subseteq SUBSET R /\ above # {}
  OBVIOUS
<1>3. PICK A \in above : \A B \in above : ~(<<B, A>> \in order)
  <2> HIDE DEF above, order
  <2>q. QED BY <1>1, <1>2, WFMin, Zenon
<1>4. PICK x \in S : A = Above(x)
  OBVIOUS
<1>5. ASSUME NEW y \in S, ~(y <= x) PROVE FALSE
  <2>0. S \subseteq Nat /\ x \in Nat /\ y \in Nat
    OBVIOUS
  <2>1. x < y
    BY <2>0, <1>5
  <2>2. \A z \in S : z >= y => z >= x
    BY <2>0, <2>1
  <2>3. Above(y) \subseteq Above(x) /\ x \in Above(x) /\ x \notin Above(y)
    <3>1. Above(y) \subseteq Above(x)
      BY <2>2
    <3>2. x >= x /\ ~(x >= y)
      BY <2>0, <2>1
    <3>q. QED BY <3>1, <3>2
  <2>4. <<Above(y), A>> \in order
    <3>1. Above(y) \in SUBSET R /\ A \in SUBSET R /\ Above(y) \subseteq A /\ Above(y) # A
      BY <2>3, <1>4
    <3> HIDE DEF Above
    <3>q. QED BY <3>1 DEF StrictSubsetOrdering
  <2>q. QED BY <2>4, <1>3
<1>q. QED BY <1>5

\* The predecessor's file, as an execution finds it.
LEMMA PredecessorParts ==
  ASSUME TypeOK, NEW p \in Pushes, Predecessor(p) # NoFile
  PROVE  \E q \in Finished(JobOf(p)) \ {p} :
           Predecessor(p) = recorded[q] /\ \A o \in Finished(JobOf(p)) \ {p} : Rank(o) <= Rank(q)
<1> DEFINE known == Finished(JobOf(p)) \ {p}
           ranks == {Rank(q) : q \in known}
<1>1. known \subseteq Pushes /\ known # {}
      /\ Predecessor(p) = recorded[CHOOSE q \in known : \A o \in known : Rank(o) <= Rank(q)]
  BY DEF Predecessor, Finished
<1>2. ranks \in SUBSET Requests /\ ranks # {}
  BY <1>1, PushParts DEF Rank
<1>3. PICK n \in ranks : \A m \in ranks : m <= n
  BY <1>2, GreatestExists, ConstantsAssumption
<1>4. PICK q \in known : \A o \in known : Rank(o) <= Rank(q)
  BY <1>3
<1>q. QED BY <1>1, <1>4

LEMMA AckTyped ==
  ASSUME TypeOK, NEW w \in Workers, Ack(w)
  PROVE  /\ ctx' \in [Workers -> Context]
         /\ pc' \in [Workers -> {"idle", "claimed", "upload", "wait", "cleanup", "find",
                                 "replace", "finish", "raised"}]
  BY NothingParts DEF TypeOK, Ack, Goto

LEMMA FileUpdate ==
  ASSUME TypeOK, NEW w \in Workers, NEW f \in File \cup {NoFile}
  PROVE  /\ [ctx EXCEPT ![w].file = f] \in [Workers -> Context]
         /\ [ctx EXCEPT ![w].old = f] \in [Workers -> Context]
<1>1. [ctx[w] EXCEPT !.file = f] \in Context /\ [ctx[w] EXCEPT !.old = f] \in Context
  BY ContextUpdates DEF TypeOK
<1>q. QED BY <1>1 DEF TypeOK

LEMMA PredecessorFile ==
  ASSUME TypeOK, NEW p \in Pushes
  PROVE  Predecessor(p) \in File \cup {NoFile}
<1>1. CASE Predecessor(p) # NoFile
  BY <1>1, PredecessorParts DEF TypeOK, Finished
<1>q. QED BY <1>1

LEMMA NextTyped ==
  ASSUME Typed, Fits, [Next]_vars
  PROVE  Typed'
<1>0. TypeOK
  BY DEF Typed
<1>w. ASSUME NEW w \in Workers, pc[w] # "idle" PROVE Push(w) \in Pushes /\ ctx[w] \in Context
  BY <1>0, <1>w DEF Fits, Fit, Busy, TypeOK
<1> USE <1>0
<1>1. CASE UNCHANGED vars
  BY <1>1 DEF Typed, TypeOK, vars, rows, env, clients, broker, execs, server, history
<1>2. ASSUME NEW r \in Requests, CheckCap(r) PROVE Typed'
  <2>1. \A fit \in SUBSET Jobs : [eligible EXCEPT ![r] = fit] \in [Requests -> SUBSET Jobs]
    BY DEF TypeOK
  <2>q. QED
    BY <1>2, <2>1 DEF CheckCap, Typed, TypeOK, rows, env, broker, execs, server, history
<1>3. ASSUME NEW r \in Requests, InsertPushes(r) PROVE Typed'
  BY <1>3 DEF InsertPushes, Typed, TypeOK, env, broker, execs, server, history
<1>4. ASSUME NEW r \in Requests, SendMessage(r) PROVE Typed'
  <2>1. PICK j \in Jobs : /\ Enqueue(<<r, j>>) /\ eligible' = [eligible EXCEPT ![r] = @ \ {j}]
                          /\ request' = [request EXCEPT ![r] = IF eligible[r] = {j} THEN "done" ELSE "send"]
    BY <1>4 DEF SendMessage, TypeOK
  <2>2. queue' \in [Pushes -> Nat]
    BY <2>1, PairIsPush, Queued
  <2>q. QED
    BY <1>4, <2>1, <2>2 DEF SendMessage, Typed, TypeOK, rows, env, execs, server, history
<1>5. ASSUME NEW r \in Requests, SenderDies(r) PROVE Typed'
  BY <1>5, FaultType DEF SenderDies, Typed, TypeOK, rows, env, broker, execs, server, history
<1>6. ASSUME NEW p \in Pushes, NEW w \in Workers, TakeMessage(w, p) PROVE Typed'
  <2>1. [ctx EXCEPT ![w].push = p] \in [Workers -> Context]
    <3>1. [ctx[w] EXCEPT !.push = p] \in Context
      BY ContextUpdates DEF TypeOK
    <3>q. QED BY <3>1 DEF TypeOK
  <2>2. queue' \in [Pushes -> Nat]
    BY <1>6 DEF TakeMessage, TypeOK
  <2>3. /\ status' \in [Pushes -> {"none", "pending", "running", "finished", "failed", "deleted"}]
        /\ fresh' \subseteq Pushes /\ mixed' \subseteq Jobs
    BY <1>6, PushParts DEF TakeMessage, TypeOK
  <2>4. /\ ctx' \in [Workers -> Context]
        /\ pc' \in [Workers -> {"idle", "claimed", "upload", "wait", "cleanup", "find",
                                "replace", "finish", "raised"}]
    BY <1>6, <2>1 DEF TakeMessage, Goto, TypeOK
  <2>q. QED
    BY <1>6, <2>2, <2>3, <2>4 DEF TakeMessage, Typed, TypeOK, env, clients, server
<1>7. ASSUME NEW p \in Pushes, RestoreUnacked(p) PROVE Typed'
  BY <1>7, Queued DEF RestoreUnacked, Typed, TypeOK, rows, env, clients, execs, server, history
<1>8. ASSUME NEW p \in Pushes, WindowPasses(p) PROVE Typed'
  BY <1>8 DEF WindowPasses, Typed, TypeOK, env, clients, broker, execs, server, history
<1>9. ASSUME NEW w \in Workers, LoadContent(w) PROVE Typed'
  <2>1. \A n \in Nat : [ctx EXCEPT ![w].version = n] \in [Workers -> Context]
    <3>1. \A n \in Nat : [ctx[w] EXCEPT !.version = n] \in Context
      BY ContextUpdates DEF TypeOK
    <3>q. QED BY <3>1 DEF TypeOK
  <2>2. version[JobOf(Push(w))] \in Nat
    BY <1>9, <1>w, PushParts DEF LoadContent, TypeOK
  <2>3. ctx' \in [Workers -> Context]
        /\ pc' \in [Workers -> {"idle", "claimed", "upload", "wait", "cleanup", "find",
                                "replace", "finish", "raised"}]
    BY <1>9, <2>1, <2>2, AckTyped DEF LoadContent, Goto, TypeOK
  <2>q. QED
    BY <1>9, <2>3 DEF LoadContent, Typed, TypeOK, rows, env, clients, broker, server, history
<1>10. ASSUME NEW w \in Workers, UploadFile(w) PROVE Typed'
  <2>1. Push(w) \in Pushes
    BY <1>10, <1>w DEF UploadFile
  <2>2. /\ store' \subseteq File /\ IsFiniteSet(store') /\ uploads' \in [Pushes -> Nat]
    BY <1>10, <2>1, KeepParts DEF UploadFile, Typed, TypeOK
  <2>3. ctx' \in [Workers -> Context]
    <3>1. [ctx EXCEPT ![w].file = NewFile(w)] \in [Workers -> Context]
      BY <2>1, NewFileParts, FileUpdate
    <3>q. QED BY <1>10, <3>1 DEF UploadFile, TypeOK
  <2>4. faults' \in 0..MaxFaults
    BY <1>10, FaultType DEF UploadFile, TypeOK
  <2>q. QED
    BY <1>10, <2>2, <2>3, <2>4 DEF UploadFile, Goto, Typed, TypeOK, rows, env, clients, broker, history
<1>11. ASSUME NEW w \in Workers, AddToKnowledge(w) PROVE Typed'
  <2>1. Push(w) \in Pushes /\ ctx[w] \in Context /\ pc[w] \in Holding
    BY <1>11, <1>w DEF AddToKnowledge, Holding
  <2>2. ctx[w].file \in store
    BY <2>1 DEF Fits, Fit
  <2>3. attached' \subseteq File
    BY <1>11, <2>2 DEF AddToKnowledge, TypeOK
  <2>q. QED
    BY <1>11, <2>3
    DEF AddToKnowledge, AfterAttach, Goto, Typed, TypeOK, rows, env, clients, broker, history
<1>12. ASSUME NEW w \in Workers, DeleteUpload(w) PROVE Typed'
  <2>1. store' \subseteq store /\ IsFiniteSet(store')
    BY <1>12, FS_RemoveElement DEF DeleteUpload, Discarded, Typed
  <2>q. QED
    BY <1>12, <2>1, FaultType
    DEF DeleteUpload, Goto, Typed, TypeOK, rows, env, clients, broker, history
<1>13. ASSUME NEW w \in Workers, FindPrevious(w) PROVE Typed'
  <2>1. ctx' \in [Workers -> Context]
    BY <1>13, <1>w, PredecessorFile, FileUpdate DEF FindPrevious
  <2>q. QED
    BY <1>13, <2>1 DEF FindPrevious, Goto, Typed, TypeOK, rows, env, clients, broker, server, history
<1>14. ASSUME NEW w \in Workers, RemovePrevious(w) PROVE Typed'
  <2>1. store' \subseteq store /\ attached' \subseteq attached /\ IsFiniteSet(store')
    BY <1>14, FS_RemoveElement DEF RemovePrevious, Typed
  <2>q. QED
    BY <1>14, <2>1, FaultType
    DEF RemovePrevious, Goto, Typed, TypeOK, rows, env, clients, broker, history
<1>15. ASSUME NEW w \in Workers, CommitFinished(w) PROVE Typed'
  <2>1. Push(w) \in Pushes /\ ctx[w].file \in File \cup {NoFile} /\ ctx[w].version \in Nat
    BY <1>15, <1>w, ContextParts DEF CommitFinished
  <2>2. ctx' \in [Workers -> Context]
        /\ pc' \in [Workers -> {"idle", "claimed", "upload", "wait", "cleanup", "find",
                                "replace", "finish", "raised"}]
    BY <1>15, AckTyped DEF CommitFinished, Goto, TypeOK
  <2>q. QED
    BY <1>15, <2>1, <2>2
    DEF CommitFinished, PushedHash, Typed, TypeOK, env, clients, broker, server, history
<1>16. ASSUME NEW w \in Workers, FailPush(w) PROVE Typed'
  BY <1>16, <1>w, AckTyped DEF FailPush, Typed, TypeOK, env, clients, broker, server, history
<1>17. ASSUME NEW w \in Workers, Raise(w) PROVE Typed'
  BY <1>17, FaultType DEF Raise, Goto, Typed, TypeOK, rows, env, clients, broker, server, history
<1>18. ASSUME NEW w \in Workers, ChildDies(w) PROVE Typed'
  BY <1>18, <1>w, Queued, AckTyped, FaultType
  DEF ChildDies, Typed, TypeOK, rows, env, clients, server
<1>19. ASSUME NEW w \in Workers, WorkerDies(w) PROVE Typed'
  BY <1>19, <1>w, AckTyped, FaultType
  DEF WorkerDies, Held, Typed, TypeOK, rows, env, clients, server, history
<1>20. ASSUME NEW j \in Jobs, ChangeJob(j) PROVE Typed'
  BY <1>20, FaultType DEF ChangeJob, Typed, TypeOK, rows, clients, broker, execs, server, history
<1>21. ASSUME NEW j \in Jobs, DeleteJob(j) PROVE Typed'
  BY <1>21, FaultType DEF DeleteJob, Typed, TypeOK, clients, broker, execs, server, history
<1>22. CASE DeleteConnection \/ ChangeKey
  BY <1>22, FaultType
  DEF DeleteConnection, ChangeKey, Typed, TypeOK, rows, clients, broker, execs, server, history
<1>q. QED
  BY <1>1, <1>2, <1>3, <1>4, <1>5, <1>6, <1>7, <1>8, <1>9, <1>10, <1>11, <1>12, <1>13, <1>14,
     <1>15, <1>16, <1>17, <1>18, <1>19, <1>20, <1>21, <1>22
  DEF Next, Create, Receive, Wait, Execute

-----------------------------------------------------------------------------
(* What an execution has                                                   *)

LEMMA NewPush ==
  ASSUME TypeOK, NEW w \in Workers, NEW p \in Pushes, NEW q,
         Goto(w, q), ctx' = [ctx EXCEPT ![w].push = p]
  PROVE  /\ Others(w) /\ pc'[w] = q /\ ctx'[w].push = p /\ ctx'[w].version = ctx[w].version
         /\ ctx'[w].file = ctx[w].file /\ ctx'[w].old = ctx[w].old
<1>1. ctx[w] \in Context /\ ctx'[w] = [ctx[w] EXCEPT !.push = p] /\ Others(w) /\ pc'[w] = q
  BY DEF TypeOK, Goto, Others
<1>q. QED BY <1>1 DEF Context

LEMMA NewVersion ==
  ASSUME TypeOK, NEW w \in Workers, NEW n \in Nat, NEW q,
         Goto(w, q), ctx' = [ctx EXCEPT ![w].version = n]
  PROVE  /\ Others(w) /\ pc'[w] = q /\ ctx'[w].push = ctx[w].push /\ ctx'[w].version = n
         /\ ctx'[w].file = ctx[w].file /\ ctx'[w].old = ctx[w].old
<1>1. ctx[w] \in Context /\ ctx'[w] = [ctx[w] EXCEPT !.version = n] /\ Others(w) /\ pc'[w] = q
  BY DEF TypeOK, Goto, Others
<1>q. QED BY <1>1 DEF Context

LEMMA NewHeld ==
  ASSUME TypeOK, NEW w \in Workers, NEW f \in File \cup {NoFile}, NEW q,
         Goto(w, q), ctx' = [ctx EXCEPT ![w].file = f]
  PROVE  /\ Others(w) /\ pc'[w] = q /\ ctx'[w].push = ctx[w].push
         /\ ctx'[w].version = ctx[w].version /\ ctx'[w].file = f /\ ctx'[w].old = ctx[w].old
<1>1. ctx[w] \in Context /\ ctx'[w] = [ctx[w] EXCEPT !.file = f] /\ Others(w) /\ pc'[w] = q
  BY DEF TypeOK, Goto, Others
<1>q. QED BY <1>1 DEF Context

LEMMA NewOld ==
  ASSUME TypeOK, NEW w \in Workers, NEW f \in File \cup {NoFile}, NEW q,
         Goto(w, q), ctx' = [ctx EXCEPT ![w].old = f]
  PROVE  /\ Others(w) /\ pc'[w] = q /\ ctx'[w].push = ctx[w].push
         /\ ctx'[w].version = ctx[w].version /\ ctx'[w].file = ctx[w].file /\ ctx'[w].old = f
<1>1. ctx[w] \in Context /\ ctx'[w] = [ctx[w] EXCEPT !.old = f] /\ Others(w) /\ pc'[w] = q
  BY DEF TypeOK, Goto, Others
<1>q. QED BY <1>1 DEF Context

\* What an execution uploaded is nobody else's, and no row knows it yet.
LEMMA Private ==
  ASSUME PushInv, NEW v \in Workers, ctx[v].file # NoFile
  PROVE  /\ Busy(v)
         /\ \A q \in Pushes : recorded[q] # ctx[v].file
         /\ \A w \in Workers : w # v => ctx[w].file # ctx[v].file
         /\ \A w \in Workers : ctx[w].old # ctx[v].file
<1>1. Busy(v)
  BY NothingParts DEF PushInv, Fits, Fit
<1>2. ctx[v].file.push = Push(v) /\ Push(v) \in Pushes /\ recorded[Push(v)] = NoFile
  BY <1>1 DEF PushInv, Fits, Fit, Alone, Claimed
<1>3. ASSUME NEW q \in Pushes, recorded[q] = ctx[v].file PROVE FALSE
  <2>1. recorded[q].push = q
    BY <1>3 DEF PushInv, Rows, Row
  <2>q. QED BY <1>2, <1>3, <2>1
<1>4. ASSUME NEW w \in Workers, w # v, ctx[w].file = ctx[v].file PROVE FALSE
  <2>1. Busy(w) /\ ctx[w].file.push = Push(w)
    BY <1>4, NothingParts DEF PushInv, Fits, Fit
  <2>q. QED BY <1>1, <1>2, <1>4, <2>1 DEF PushInv, Alone
<1>5. ASSUME NEW w \in Workers, ctx[w].old = ctx[v].file PROVE FALSE
  <2>1. \E q \in Pushes : recorded[q] = ctx[w].old
    BY <1>5 DEF PushInv, Fits, Fit
  <2>q. QED BY <1>3, <1>5, <2>1
<1>q. QED BY <1>1, <1>3, <1>4, <1>5

LEMMA HeldFile ==
  ASSUME PushInv, NEW w \in Workers, pc[w] \in Holding
  PROVE  /\ Busy(w) /\ Push(w) \in Pushes /\ ctx[w].file \in store /\ ctx[w].file \in File
         /\ ctx[w].file # NoFile /\ ctx[w].file.push = Push(w)
         /\ ctx[w].file.version = ctx[w].version /\ ctx[w].version >= 1
<1>1. Fit(w) /\ Busy(w) /\ store \subseteq File
  BY DEF PushInv, Fits, Busy, Holding, TypeOK
<1>q. QED BY <1>1, NoFileIsNone DEF Fit

\* What is recorded stays, and nobody loses a file to the step of w.
Kept(w) ==
  /\ Others(w)
  /\ \A q \in Pushes : recorded[q] # NoFile => recorded'[q] = recorded[q]
  /\ \A v \in Workers \ {w} : pc[v] \in Holding =>
       /\ ctx[v].file \in store => ctx[v].file \in store'
       /\ ctx[v].file \in attached => ctx[v].file \in attached'

LEMMA OthersFit ==
  ASSUME PushInv, NEW w \in Workers, Kept(w)
  PROVE  \A v \in Workers \ {w} : Fit(v)'
<1> SUFFICES ASSUME NEW v \in Workers \ {w} PROVE Fit(v)'
  OBVIOUS
<1>1. Fit(v) /\ pc'[v] = pc[v] /\ ctx'[v] = ctx[v]
  BY DEF PushInv, Fits, Kept, Others
<1>2. ctx'[v].old # NoFile =>
        \E q \in Pushes : JobOf(q) = JobOf(ctx'[v].push) /\ recorded'[q] = ctx'[v].old
  BY <1>1 DEF Fit, Kept, Push
<1>q. QED BY <1>1, <1>2 DEF Fit, Kept, Busy, Push, Holding

LEMMA FitsKept ==
  ASSUME PushInv, UNCHANGED <<pc, ctx, store, attached, recorded>>
  PROVE  Fits'
  BY DEF PushInv, Fits, Fit, Busy, Push

LEMMA AckFit ==
  ASSUME PushInv, NEW w \in Workers, Ack(w)
  PROVE  Fit(w)'
  BY Acked, NothingParts DEF PushInv, Fit, Busy, Push, Holding

LEMMA SplitFits ==
  ASSUME NEW w \in Workers, Fit(w)', \A v \in Workers \ {w} : Fit(v)'
  PROVE  Fits'
  BY DEF Fits

LEMMA KeptIf ==
  ASSUME NEW w \in Workers, Others(w),
         recorded' = recorded, store \subseteq store', attached \subseteq attached'
  PROVE  Kept(w)
  BY DEF Kept

\* Files are taken away by the execution that has them, or were recorded before.
LEMMA RemovalKept ==
  ASSUME PushInv, NEW w \in Workers, Others(w), recorded' = recorded,
         store \ {ctx[w].file, ctx[w].old} \subseteq store',
         attached \ {ctx[w].old} \subseteq attached'
  PROVE  Kept(w)
<1> SUFFICES ASSUME NEW v \in Workers \ {w}, pc[v] \in Holding
             PROVE  ctx[v].file # ctx[w].file /\ ctx[v].file # ctx[w].old
  BY DEF Kept
<1>1. ctx[v].file # NoFile
  BY HeldFile
<1>q. QED BY <1>1, Private

LEMMA OwnRemovalFit ==
  ASSUME PushInv, NEW w \in Workers, pc[w] = "replace", Goto(w, "finish"), UNCHANGED <<ctx, recorded>>,
         store \ {ctx[w].old} \subseteq store', attached \ {ctx[w].old} \subseteq attached'
  PROVE  Fit(w)'
<1>1. ctx[w].file \in store /\ ctx[w].file \in attached /\ ctx[w].file # NoFile /\ Fit(w)
  BY HeldFile DEF PushInv, Fits, Fit, Holding
<1>2. ctx[w].file # ctx[w].old
  BY <1>1, Private
<1>3. ctx[w].file \in store' /\ ctx[w].file \in attached'
  BY <1>1, <1>2
<1>4. pc'[w] = "finish" /\ ctx'[w] = ctx[w]
  BY Went DEF PushInv
<1>q. QED BY <1>1, <1>3, <1>4 DEF Fit, Busy, Push, Holding

LEMMA CtxType ==
  ASSUME PushInv, NEW w \in Workers
  PROVE  ctx[w] \in Context /\ Fit(w)
  BY DEF PushInv, TypeOK, Fits

LEMMA TakeFits ==
  ASSUME PushInv, NEW w \in Workers, NEW p \in Pushes, TakeMessage(w, p)
  PROVE  Fits'
<1>1. CASE Claimable(p)
  <2>1. /\ Others(w) /\ pc'[w] = "claimed" /\ ctx'[w].push = p /\ ctx'[w].version = ctx[w].version
        /\ ctx'[w].file = ctx[w].file /\ ctx'[w].old = ctx[w].old
    BY <1>1, NewPush DEF PushInv, TakeMessage
  <2>2. ctx[w] = Nothing
    BY CtxType DEF Fit, Busy, TakeMessage
  <2>3. Fit(w)'
    BY <2>1, <2>2, NothingParts DEF Fit, Busy, Push, Holding
  <2>4. Kept(w)
    BY <2>1, KeptIf DEF TakeMessage, server
  <2>q. QED BY <2>3, <2>4, OthersFit, SplitFits
<1>2. CASE ~Claimable(p)
  BY <1>2, FitsKept DEF TakeMessage, server
<1>q. QED BY <1>1, <1>2

LEMMA LoadFits ==
  ASSUME PushInv, NEW w \in Workers, LoadContent(w)
  PROVE  Fits'
<1>1. Kept(w)
  <2>1. Others(w)
    <3>1. CASE ~Exists(Push(w))
      BY <3>1, Acked DEF LoadContent, PushInv
    <3>2. CASE Exists(Push(w))
      BY <3>2 DEF LoadContent, PushInv, Goto, Others, TypeOK
    <3>q. QED BY <3>1, <3>2
  <2>q. QED BY <2>1, KeptIf DEF LoadContent, rows, server
<1>2. CASE ~Exists(Push(w))
  BY <1>1, <1>2, AckFit, OthersFit, SplitFits DEF LoadContent
<1>3. CASE Exists(Push(w)) /\ Usable(w)
  <2>1. Push(w) \in Pushes /\ version[JobOf(Push(w))] \in Nat /\ version[JobOf(Push(w))] >= 1
    BY CtxType, PushParts DEF Fit, Busy, LoadContent, PushInv, TypeOK
  <2>2. /\ pc'[w] = "upload" /\ ctx'[w].push = ctx[w].push /\ ctx'[w].version >= 1
        /\ ctx'[w].file = ctx[w].file /\ ctx'[w].old = ctx[w].old
    BY <1>3, <2>1, NewVersion DEF LoadContent, PushInv
  <2>3. Fit(w) /\ pc[w] = "claimed" /\ recorded' = recorded
    BY CtxType DEF LoadContent, rows
  <2>4. Fit(w)'
    BY <2>2, <2>3 DEF Fit, Busy, Push, Holding
  <2>q. QED BY <1>1, <2>4, OthersFit, SplitFits
<1>4. CASE Exists(Push(w)) /\ ~Usable(w)
  <2>1. Fit(w) /\ pc[w] = "claimed" /\ recorded' = recorded /\ pc'[w] = "raised" /\ ctx'[w] = ctx[w]
    BY <1>4, CtxType, Went DEF LoadContent, rows, PushInv
  <2>2. Fit(w)'
    BY <2>1 DEF Fit, Busy, Push, Holding
  <2>q. QED BY <1>1, <2>2, OthersFit, SplitFits
<1>q. QED BY <1>2, <1>3, <1>4

LEMMA UploadFits ==
  ASSUME PushInv, NEW w \in Workers, UploadFile(w)
  PROVE  Fits' /\ Kept(w)
<1>0. Fit(w) /\ pc[w] = "upload" /\ recorded' = recorded /\ Push(w) \in Pushes /\ attached' = attached
  BY CtxType DEF UploadFile, rows, Fit, Busy
<1>1. CASE Goto(w, "wait") /\ Keep(w) /\ ctx' = [ctx EXCEPT ![w].file = NewFile(w)]
  <2>1. /\ NewFile(w) \in File /\ NewFile(w).push = Push(w) /\ NewFile(w).version = ctx[w].version
        /\ NewFile(w) \in store' /\ store \subseteq store'
    BY <1>0, <1>1, NewFileParts DEF PushInv, Keep
  <2>2. /\ Others(w) /\ pc'[w] = "wait" /\ ctx'[w].push = ctx[w].push
        /\ ctx'[w].version = ctx[w].version /\ ctx'[w].file = NewFile(w) /\ ctx'[w].old = ctx[w].old
    BY <1>1, <2>1, NewHeld DEF PushInv
  <2>3. Fit(w)'
    BY <1>0, <2>1, <2>2 DEF Fit, Busy, Push, Holding
  <2>4. Kept(w)
    BY <1>0, <2>1, <2>2, KeptIf
  <2>q. QED BY <2>3, <2>4, OthersFit, SplitFits
<1>2. CASE Goto(w, "raised") /\ UNCHANGED ctx /\ store \subseteq store'
  <2>1. Others(w) /\ pc'[w] = "raised" /\ ctx'[w] = ctx[w]
    BY <1>2, Went DEF PushInv
  <2>2. Kept(w)
    BY <1>0, <1>2, <2>1, KeptIf
  <2>3. Fit(w)'
    BY <1>0, <2>1 DEF Fit, Busy, Push, Holding
  <2>q. QED BY <2>2, <2>3, OthersFit, SplitFits
<1>q. QED BY <1>1, <1>2 DEF UploadFile, Keep

LEMMA AddFits ==
  ASSUME PushInv, NEW w \in Workers, AddToKnowledge(w)
  PROVE  Fits' /\ Kept(w)
<1>0. /\ Fit(w) /\ pc[w] = "wait" /\ recorded' = recorded /\ store' = store
      /\ attached \subseteq attached' /\ ctx' = ctx
  BY CtxType DEF AddToKnowledge, rows
<1>1. Others(w) /\ ctx'[w] = ctx[w] /\ (pc'[w] = "find" => ctx[w].file \in attached')
      /\ pc'[w] \in {"cleanup", "find"}
  <2>1. CASE Goto(w, "cleanup")
    BY <1>0, <2>1, Went DEF PushInv
  <2>2. CASE Goto(w, "find") /\ ctx[w].file \in attached'
    BY <1>0, <2>2, Went DEF PushInv
  <2>q. QED BY <2>1, <2>2 DEF AddToKnowledge, AfterAttach
<1>2. Kept(w)
  BY <1>0, <1>1, KeptIf
<1>3. Fit(w)'
  BY <1>0, <1>1 DEF Fit, Busy, Push, Holding
<1>q. QED BY <1>2, <1>3, OthersFit, SplitFits

LEMMA DeleteFits ==
  ASSUME PushInv, NEW w \in Workers, DeleteUpload(w)
  PROVE  Fits' /\ Kept(w)
<1>0. /\ Fit(w) /\ pc[w] = "cleanup" /\ recorded' = recorded /\ attached' = attached
      /\ store \ {ctx[w].file} \subseteq store' /\ Goto(w, "raised") /\ ctx' = ctx
  BY CtxType DEF DeleteUpload, Discarded, rows
<1>1. Others(w) /\ ctx'[w] = ctx[w] /\ pc'[w] = "raised"
  BY <1>0, Went DEF PushInv
<1>2. Kept(w)
  BY <1>0, <1>1, RemovalKept
<1>3. Fit(w)'
  BY <1>0, <1>1 DEF Fit, Busy, Push, Holding
<1>q. QED BY <1>2, <1>3, OthersFit, SplitFits

LEMMA FindStep ==
  ASSUME TypeOK, NEW w \in Workers, Push(w) \in Pushes, FindPrevious(w)
  PROVE  /\ Others(w) /\ pc'[w] \in {"replace", "finish"} /\ ctx'[w].push = ctx[w].push
         /\ ctx'[w].version = ctx[w].version /\ ctx'[w].file = ctx[w].file
         /\ ctx'[w].old = Predecessor(Push(w))
         /\ pc'[w] = "finish" => Predecessor(Push(w)) = NoFile
<1>1. Predecessor(Push(w)) \in File \cup {NoFile}
  BY PredecessorFile
<1>2. PICK q \in {"replace", "finish"} : Goto(w, q) /\ (q = "finish" => Predecessor(Push(w)) = NoFile)
  BY DEF FindPrevious
<1>3. ctx' = [ctx EXCEPT ![w].old = Predecessor(Push(w))]
  BY DEF FindPrevious
<1>4. /\ Others(w) /\ pc'[w] = q /\ ctx'[w].push = ctx[w].push
      /\ ctx'[w].version = ctx[w].version /\ ctx'[w].file = ctx[w].file
      /\ ctx'[w].old = Predecessor(Push(w))
  BY <1>1, <1>2, <1>3, NewOld
<1>q. QED BY <1>2, <1>4

LEMMA FindFits ==
  ASSUME PushInv, NEW w \in Workers, FindPrevious(w)
  PROVE  Fits' /\ Kept(w)
<1>0. /\ Fit(w) /\ pc[w] = "find" /\ Push(w) \in Pushes
      /\ recorded' = recorded /\ store' = store /\ attached' = attached
  BY CtxType DEF FindPrevious, rows, server, Fit, Busy
<1>1. /\ Others(w) /\ pc'[w] \in {"replace", "finish"} /\ ctx'[w].push = ctx[w].push
      /\ ctx'[w].version = ctx[w].version /\ ctx'[w].file = ctx[w].file
      /\ ctx'[w].old = Predecessor(Push(w))
  BY <1>0, FindStep DEF PushInv
<1>2. ctx'[w].old # NoFile =>
        \E q \in Pushes : JobOf(q) = JobOf(ctx'[w].push) /\ recorded'[q] = ctx'[w].old
  BY <1>0, <1>1, PredecessorParts DEF PushInv, Finished, Push
<1>3. Kept(w)
  BY <1>0, <1>1, KeptIf
<1>4. Fit(w)'
  BY <1>0, <1>1, <1>2 DEF Fit, Busy, Push, Holding
<1>q. QED BY <1>3, <1>4, OthersFit, SplitFits

LEMMA RemoveFits ==
  ASSUME PushInv, NEW w \in Workers, RemovePrevious(w)
  PROVE  Fits' /\ Kept(w)
<1>0. /\ pc[w] = "replace" /\ recorded' = recorded /\ Goto(w, "finish") /\ ctx' = ctx
      /\ store \ {ctx[w].old} \subseteq store' /\ attached \ {ctx[w].old} \subseteq attached'
  BY DEF RemovePrevious, rows
<1>1. Others(w)
  BY <1>0, Went DEF PushInv
<1>2. Kept(w)
  BY <1>0, <1>1, RemovalKept
<1>3. Fit(w)'
  BY <1>0, OwnRemovalFit
<1>q. QED BY <1>2, <1>3, OthersFit, SplitFits

LEMMA CommitFits ==
  ASSUME PushInv, NEW w \in Workers, CommitFinished(w)
  PROVE  Fits' /\ Kept(w)
<1>0. /\ pc[w] = "finish" /\ store' = store /\ attached' = attached /\ Push(w) \in Pushes /\ Fit(w)
      /\ recorded[Push(w)] = NoFile
  BY CtxType DEF CommitFinished, server, Fit, Busy, PushInv, Alone, Claimed
<1>1. CASE Exists(Push(w))
  <2>1. Others(w) /\ Fit(w)'
    BY <1>1, Acked, AckFit DEF CommitFinished, PushInv
  <2>2. \A q \in Pushes : recorded[q] # NoFile => recorded'[q] = recorded[q]
    BY <1>0, <1>1 DEF CommitFinished, PushInv, TypeOK
  <2>3. Kept(w)
    BY <1>0, <2>1, <2>2 DEF Kept
  <2>q. QED BY <2>1, <2>3, OthersFit, SplitFits
<1>2. CASE ~Exists(Push(w))
  <2>1. Others(w) /\ ctx'[w] = ctx[w] /\ pc'[w] = "raised" /\ recorded' = recorded
    BY <1>2, Went DEF CommitFinished, PushInv
  <2>2. Kept(w)
    BY <1>0, <2>1, KeptIf
  <2>3. Fit(w)'
    BY <1>0, <2>1 DEF Fit, Busy, Push, Holding
  <2>q. QED BY <2>2, <2>3, OthersFit, SplitFits
<1>q. QED BY <1>1, <1>2

LEMMA EndFits ==
  ASSUME PushInv, NEW w \in Workers, Ack(w), UNCHANGED <<recorded, server>>
  PROVE  Fits' /\ Kept(w)
<1>1. Kept(w)
  BY Acked, KeptIf DEF PushInv, server
<1>q. QED BY <1>1, AckFit, OthersFit, SplitFits

LEMMA RaiseFits ==
  ASSUME PushInv, NEW w \in Workers, Raise(w)
  PROVE  Fits' /\ Kept(w)
<1>0. /\ Fit(w) /\ Busy(w) /\ recorded' = recorded /\ store' = store /\ attached' = attached
      /\ Others(w) /\ ctx'[w] = ctx[w] /\ pc'[w] = "raised"
  BY CtxType, Went DEF Raise, rows, server, PushInv, Busy
<1>1. Kept(w)
  BY <1>0, KeptIf
<1>2. Fit(w)'
  BY <1>0 DEF Fit, Busy, Push, Holding
<1>q. QED BY <1>1, <1>2, OthersFit, SplitFits

LEMMA NextFits ==
  ASSUME PushInv, [Next]_vars
  PROVE  Fits'
<1>1. CASE UNCHANGED vars
  BY <1>1, FitsKept DEF vars, rows, execs, server
<1>2. ASSUME NEW r \in Requests, Create(r) \/ SenderDies(r) PROVE Fits'
  BY <1>2, FitsKept
  DEF Create, CheckCap, InsertPushes, SendMessage, SenderDies, rows, execs, server
<1>3. ASSUME NEW p \in Pushes, Wait(p) PROVE Fits'
  BY <1>3, FitsKept DEF Wait, RestoreUnacked, WindowPasses, rows, execs, server
<1>4. ASSUME NEW p \in Pushes, NEW w \in Workers, TakeMessage(w, p) PROVE Fits'
  BY <1>4, TakeFits
<1>5. ASSUME NEW w \in Workers, Execute(w) PROVE Fits'
  BY <1>5, LoadFits, UploadFits, AddFits, DeleteFits, FindFits, RemoveFits, CommitFits, EndFits
  DEF Execute, FailPush
<1>6. ASSUME NEW w \in Workers, Raise(w) \/ ChildDies(w) \/ WorkerDies(w) PROVE Fits'
  BY <1>6, RaiseFits, EndFits DEF ChildDies, WorkerDies, rows
<1>7. CASE DeleteConnection \/ ChangeKey \/ \E j \in Jobs : ChangeJob(j) \/ DeleteJob(j)
  BY <1>7, FitsKept DEF DeleteConnection, ChangeKey, ChangeJob, DeleteJob, rows, execs, server
<1>q. QED BY <1>1, <1>2, <1>3, <1>4, <1>5, <1>6, <1>7 DEF Next, Receive

-----------------------------------------------------------------------------
(* Rows and executions                                                     *)

LEMMA RowsKept ==
  ASSUME PushInv, UNCHANGED <<status, recorded, hash, job, request>>
  PROVE  Rows'
  BY DEF PushInv, Rows, Row

LEMMA ClaimedRow ==
  ASSUME PushInv, NEW w \in Workers, Busy(w)
  PROVE  /\ Push(w) \in Pushes /\ recorded[Push(w)] = NoFile
         /\ status[Push(w)] \in {"running", "deleted"}
         /\ status[Push(w)] = "running" => Push(w) \in fresh
         /\ request[Push(w)[1]] \notin {"start", "counted"}
<1>1. Push(w) \in Pushes /\ Claimed(w) /\ Fit(w)
  BY DEF PushInv, Fits, Fit, Alone
<1>q. QED BY <1>1 DEF Claimed, PushInv, Rows, Row

LEMMA CommitRows ==
  ASSUME PushInv, NEW w \in Workers, CommitFinished(w)
  PROVE  Rows'
<1>1. CASE Exists(Push(w))
  <2>1. /\ Push(w) \in Pushes /\ ctx[w].file # NoFile /\ ctx[w].file.push = Push(w)
        /\ ctx[w].file.version = ctx[w].version /\ ctx[w].version >= 1
    BY HeldFile DEF CommitFinished, Holding
  <2>2. request[Push(w)[1]] \notin {"start", "counted"}
    BY ClaimedRow DEF CommitFinished, Busy
  <2>3. /\ status' = [status EXCEPT ![Push(w)] = "finished"]
        /\ recorded' = [recorded EXCEPT ![Push(w)] = ctx[w].file]
        /\ hash' = [hash EXCEPT ![Push(w)] = ctx[w].version]
        /\ job' = job /\ request' = request
    BY <1>1 DEF CommitFinished, PushedHash, env, clients
  <2>q. QED BY <2>1, <2>2, <2>3 DEF PushInv, TypeOK, Rows, Row
<1>2. CASE ~Exists(Push(w))
  BY <1>2, RowsKept DEF CommitFinished, env, clients
<1>q. QED BY <1>1, <1>2

LEMMA FailRows ==
  ASSUME PushInv, NEW w \in Workers, FailPush(w)
  PROVE  Rows'
<1>1. Busy(w)
  BY DEF FailPush, Busy
<1>2. /\ status' = [status EXCEPT ![Push(w)] = "failed"] \/ status' = status
      /\ recorded' = recorded /\ hash' = hash /\ job' = job /\ request' = request
  BY DEF FailPush, env, clients
<1>q. QED BY <1>1, <1>2, ClaimedRow DEF PushInv, TypeOK, Rows, Row

LEMMA NextRows ==
  ASSUME PushInv, [Next]_vars
  PROVE  Rows'
<1>1. CASE UNCHANGED vars
  BY <1>1, RowsKept DEF vars, rows, env, clients
<1>2. ASSUME NEW r \in Requests, CheckCap(r) PROVE Rows'
  <2>1. /\ request[r] = "start" /\ \E s : request' = [request EXCEPT ![r] = s]
        /\ status' = status /\ recorded' = recorded /\ hash' = hash /\ job' = job
    BY <1>2 DEF CheckCap, rows, env
  <2>q. QED BY <2>1, PushParts DEF PushInv, TypeOK, Rows, Row
<1>3. ASSUME NEW r \in Requests, InsertPushes(r) PROVE Rows'
  <2>1. \A p \in Pushes : p[1] = r => status[p] = "none"
    BY <1>3 DEF InsertPushes, PushInv, Rows, Row
  <2>2. /\ \E s \in {"send", "done"} : request' = [request EXCEPT ![r] = s]
        /\ \A p \in Pushes : status'[p] # status[p] => p[1] = r /\ status'[p] = "pending"
        /\ recorded' = recorded /\ hash' = hash /\ job' = job
    BY <1>3 DEF InsertPushes, env
  <2>3. ASSUME NEW p \in Pushes PROVE Row(p)'
    <3>1. Row(p) /\ p[1] \in Requests /\ (p[1] = r => request'[p[1]] \in {"send", "done"})
          /\ (p[1] # r => request'[p[1]] = request[p[1]])
      BY <2>2, PushParts DEF PushInv, Rows, TypeOK
    <3>q. QED BY <2>1, <2>2, <3>1 DEF Row
  <2>q. QED BY <2>3 DEF Rows
<1>4. ASSUME NEW r \in Requests, SendMessage(r) \/ SenderDies(r) PROVE Rows'
  <2>1. /\ \E s \in {"send", "done", "dead"} : request' = [request EXCEPT ![r] = s]
        /\ status' = status /\ recorded' = recorded /\ hash' = hash /\ job' = job
    BY <1>4 DEF SendMessage, SenderDies, rows, env
  <2>q. QED BY <2>1, PushParts DEF PushInv, TypeOK, Rows, Row
<1>5. ASSUME NEW p \in Pushes, NEW w \in Workers, TakeMessage(w, p) PROVE Rows'
  <2>1. recorded' = recorded /\ hash' = hash /\ job' = job /\ request' = request
    BY <1>5 DEF TakeMessage, env, clients
  <2>2. CASE ~Claimable(p)
    BY <1>5, <2>1, <2>2, RowsKept DEF TakeMessage
  <2>3. CASE Claimable(p)
    <3>1. status[p] \in {"pending", "running"} /\ status' = [status EXCEPT ![p] = "running"]
      BY <1>5, <2>3 DEF TakeMessage, Claimable
    <3>q. QED BY <2>1, <3>1 DEF PushInv, TypeOK, Rows, Row
  <2>q. QED BY <2>2, <2>3
<1>6. ASSUME NEW p \in Pushes, Wait(p) PROVE Rows'
  BY <1>6, RowsKept DEF Wait, RestoreUnacked, WindowPasses, rows, env, clients
<1>7. ASSUME NEW w \in Workers, Execute(w) PROVE Rows'
  <2>1. CASE CommitFinished(w)
    BY <2>1, CommitRows
  <2>2. CASE FailPush(w)
    BY <2>2, FailRows
  <2>3. CASE \/ LoadContent(w) \/ UploadFile(w) \/ AddToKnowledge(w)
             \/ DeleteUpload(w) \/ FindPrevious(w) \/ RemovePrevious(w)
    BY <2>3, RowsKept
    DEF LoadContent, UploadFile, AddToKnowledge, DeleteUpload, FindPrevious, RemovePrevious,
        rows, env, clients
  <2>q. QED BY <1>7, <2>1, <2>2, <2>3 DEF Execute
<1>8. ASSUME NEW w \in Workers, Raise(w) \/ ChildDies(w) \/ WorkerDies(w) PROVE Rows'
  BY <1>8, RowsKept DEF Raise, ChildDies, WorkerDies, rows, env, clients
<1>9. ASSUME NEW j \in Jobs, ChangeJob(j) PROVE Rows'
  <2>1. /\ status' = status /\ recorded' = recorded /\ hash' = hash /\ request' = request
        /\ \A i \in Jobs : job[i] = "deleted" => job'[i] = "deleted"
    BY <1>9 DEF ChangeJob, rows, clients, PushInv, TypeOK
  <2>q. QED BY <2>1, PushParts DEF PushInv, Rows, Row
<1>10. ASSUME NEW j \in Jobs, DeleteJob(j) PROVE Rows'
  <2>1. /\ recorded' = recorded /\ hash' = hash /\ request' = request
        /\ job' = [job EXCEPT ![j] = "deleted"]
        /\ status' = [p \in Pushes |-> IF JobOf(p) = j /\ status[p] # "none" THEN "deleted" ELSE status[p]]
    BY <1>10 DEF DeleteJob, clients
  <2>2. ASSUME NEW p \in Pushes PROVE Row(p)'
    <3>1. Row(p) /\ JobOf(p) \in Jobs /\ status[p] \in {"none", "pending", "running", "finished", "failed", "deleted"}
      BY PushParts DEF PushInv, Rows, TypeOK
    <3>2. job'[JobOf(p)] = IF JobOf(p) = j THEN "deleted" ELSE job[JobOf(p)]
      BY <2>1, <3>1 DEF PushInv, TypeOK
    <3>q. QED BY <2>1, <3>1, <3>2 DEF Row
  <2>q. QED BY <2>2 DEF Rows
<1>11. CASE DeleteConnection \/ ChangeKey
  BY <1>11, RowsKept DEF DeleteConnection, ChangeKey, rows, clients
<1>q. QED
  BY <1>1, <1>2, <1>3, <1>4, <1>5, <1>6, <1>7, <1>8, <1>9, <1>10, <1>11 DEF Next, Create, Receive

\* Who stays busy stays with its push and its row.
LEMMA AloneKept ==
  ASSUME PushInv, UNCHANGED recorded,
         \A w \in Workers : pc'[w] # "idle" => pc[w] # "idle" /\ ctx'[w].push = ctx[w].push,
         \A w \in Workers : pc'[w] # "idle" =>
           \/ status'[Push(w)] = status[Push(w)] /\ (Push(w) \in fresh => Push(w) \in fresh')
           \/ status'[Push(w)] = "deleted"
  PROVE  Alone'
<1>1. ASSUME NEW w \in Workers, Busy(w)' PROVE Claimed(w)'
  BY <1>1 DEF PushInv, Alone, Busy, Claimed, Push
<1>2. ASSUME NEW v \in Workers, NEW w \in Workers, Busy(v)', Busy(w)', Push(v)' = Push(w)'
      PROVE  v = w
  BY <1>2 DEF PushInv, Alone, Busy, Push
<1>q. QED BY <1>1, <1>2 DEF Alone

LEMMA TakeAlone ==
  ASSUME PushInv, NEW w \in Workers, NEW p \in Pushes, TakeMessage(w, p)
  PROVE  Alone'
<1>1. recorded' = recorded
  BY DEF TakeMessage
<1>2. CASE ~Claimable(p)
  BY <1>1, <1>2, AloneKept DEF TakeMessage
<1>3. CASE Claimable(p)
  <2>1. /\ Others(w) /\ pc'[w] = "claimed" /\ ctx'[w].push = p
        /\ status' = [status EXCEPT ![p] = "running"] /\ fresh' = fresh \cup {p}
    BY <1>3, NewPush DEF TakeMessage, PushInv
  <2>2. /\ status[p] \in {"pending", "running"} /\ (status[p] = "running" => p \notin fresh)
        /\ recorded[p] = NoFile /\ status'[p] = "running"
    BY <1>3, <2>1 DEF Claimable, PushInv, Rows, Row, TypeOK
  <2>3. ASSUME NEW v \in Workers, Busy(v) PROVE Push(v) # p
    BY <2>2, <2>3, ClaimedRow
  <2>4. ASSUME NEW v \in Workers, Busy(v)' PROVE Claimed(v)'
    <3>1. CASE v = w
      BY <1>1, <2>1, <2>2, <3>1 DEF Claimed, Push
    <3>2. CASE v # w
      <4>1. pc'[v] = pc[v] /\ ctx'[v] = ctx[v] /\ Busy(v)
        BY <2>1, <2>4, <3>2 DEF Others, Busy
      <4>2. status'[Push(v)] = status[Push(v)] /\ Push(v) \in Pushes /\ Claimed(v)
        BY <2>1, <2>3, <4>1, ClaimedRow DEF PushInv, TypeOK, Alone
      <4>q. QED BY <1>1, <2>1, <4>1, <4>2 DEF Claimed, Push
    <3>q. QED BY <3>1, <3>2
  <2>5. ASSUME NEW u \in Workers, NEW v \in Workers, Busy(u)', Busy(v)', Push(u)' = Push(v)'
        PROVE  u = v
    BY <2>1, <2>3, <2>5 DEF PushInv, Alone, Busy, Others, Push
  <2>q. QED BY <2>4, <2>5 DEF Alone
<1>q. QED BY <1>2, <1>3

\* The execution w ends, in whatever way.
LEMMA AckAlone ==
  ASSUME PushInv, NEW w \in Workers, Busy(w), Ack(w),
         \A p \in Pushes : p # Push(w) =>
           status'[p] = status[p] /\ recorded'[p] = recorded[p] /\ (p \in fresh => p \in fresh')
  PROVE  Alone'
<1>1. Others(w) /\ pc'[w] = "idle"
  BY Acked DEF PushInv
<1>2. ASSUME NEW v \in Workers, Busy(v)' PROVE Claimed(v)'
  <2>1. v # w /\ pc'[v] = pc[v] /\ ctx'[v] = ctx[v] /\ Busy(v)
    BY <1>1, <1>2 DEF Others, Busy
  <2>2. Push(v) # Push(w) /\ Push(v) \in Pushes /\ Claimed(v)
    BY <2>1, ClaimedRow DEF PushInv, Alone
  <2>q. QED BY <2>1, <2>2 DEF Claimed, Push
<1>3. ASSUME NEW u \in Workers, NEW v \in Workers, Busy(u)', Busy(v)', Push(u)' = Push(v)'
      PROVE  u = v
  BY <1>1, <1>3 DEF PushInv, Alone, Busy, Others, Push
<1>q. QED BY <1>2, <1>3 DEF Alone

\* The execution w goes on, and no row changes.
LEMMA OnAlone ==
  ASSUME PushInv, NEW w \in Workers, Busy(w), Others(w), ctx'[w].push = ctx[w].push,
         UNCHANGED <<status, recorded, fresh>>
  PROVE  Alone'
<1>1. \A v \in Workers : ctx'[v].push = ctx[v].push /\ (pc'[v] # "idle" => pc[v] # "idle")
  BY DEF Others, Busy
<1>q. QED BY <1>1, AloneKept

LEMMA NextAlone ==
  ASSUME PushInv, [Next]_vars
  PROVE  Alone'
<1>1. CASE UNCHANGED vars
  BY <1>1, AloneKept DEF vars, rows, execs
<1>2. ASSUME NEW r \in Requests, CheckCap(r) \/ SendMessage(r) \/ SenderDies(r) PROVE Alone'
  BY <1>2, AloneKept DEF CheckCap, SendMessage, SenderDies, rows, execs
<1>3. ASSUME NEW r \in Requests, InsertPushes(r) PROVE Alone'
  <2>1. \A p \in Pushes : p[1] = r => status[p] = "none"
    BY <1>3 DEF InsertPushes, PushInv, Rows, Row
  <2>2. /\ \A p \in Pushes : status'[p] # status[p] => p[1] = r
        /\ recorded' = recorded /\ fresh' = fresh /\ pc' = pc /\ ctx' = ctx
    BY <1>3 DEF InsertPushes, execs
  <2>3. \A w \in Workers : Busy(w) => status'[Push(w)] = status[Push(w)]
    BY <2>1, <2>2, ClaimedRow
  <2>q. QED BY <2>2, <2>3, AloneKept DEF Busy
<1>4. ASSUME NEW p \in Pushes, NEW w \in Workers, TakeMessage(w, p) PROVE Alone'
  BY <1>4, TakeAlone
<1>5. ASSUME NEW p \in Pushes, Wait(p) PROVE Alone'
  <2>1. CASE RestoreUnacked(p)
    BY <2>1, AloneKept DEF RestoreUnacked, rows, execs
  <2>2. CASE WindowPasses(p)
    <3>1. /\ status' = status /\ recorded' = recorded /\ fresh' = fresh \ {p} /\ pc' = pc /\ ctx' = ctx
          /\ \A w \in Workers : Busy(w) => Push(w) # p
      BY <2>2 DEF WindowPasses, execs, Executing, Busy
    <3>q. QED BY <3>1, AloneKept DEF Busy
  <2>q. QED BY <1>5, <2>1, <2>2 DEF Wait
<1>6. ASSUME NEW w \in Workers, Execute(w) PROVE Alone'
  <2>0. Busy(w) /\ Push(w) \in Pushes /\ TypeOK
    BY <1>6, CtxType
    DEF Execute, LoadContent, UploadFile, AddToKnowledge, DeleteUpload, FindPrevious,
        RemovePrevious, CommitFinished, FailPush, Busy, Fit, PushInv
  <2>1. CASE LoadContent(w)
    <3>1. CASE ~Exists(Push(w))
      BY <2>0, <2>1, <3>1, AckAlone DEF LoadContent, rows
    <3>2. CASE Exists(Push(w))
      <4>1. version[JobOf(Push(w))] \in Nat
        BY <2>0, PushParts DEF TypeOK
      <4>2. Others(w) /\ ctx'[w].push = ctx[w].push
        BY <2>0, <2>1, <3>2, <4>1, NewVersion, Went DEF LoadContent
      <4>q. QED BY <2>0, <2>1, <4>2, OnAlone DEF LoadContent, rows
    <3>q. QED BY <3>1, <3>2
  <2>2. CASE UploadFile(w)
    <3>1. NewFile(w) \in File
      BY <2>0, NewFileParts
    <3>2. Others(w) /\ ctx'[w].push = ctx[w].push
      BY <2>0, <2>2, <3>1, NewHeld, Went DEF UploadFile
    <3>q. QED BY <2>0, <2>2, <3>2, OnAlone DEF UploadFile, rows
  <2>3. CASE AddToKnowledge(w) \/ DeleteUpload(w) \/ RemovePrevious(w)
    <3>1. Others(w) /\ ctx'[w].push = ctx[w].push
      BY <2>0, <2>3, Went DEF AddToKnowledge, DeleteUpload, RemovePrevious
    <3>q. QED BY <2>0, <2>3, <3>1, OnAlone DEF AddToKnowledge, DeleteUpload, RemovePrevious, rows
  <2>4. CASE FindPrevious(w)
    <3>1. Others(w) /\ ctx'[w].push = ctx[w].push
      BY <2>0, <2>4, FindStep
    <3>q. QED BY <2>0, <2>4, <3>1, OnAlone DEF FindPrevious, rows
  <2>5. CASE CommitFinished(w)
    <3>1. CASE Exists(Push(w))
      <4>1. \A p \in Pushes : p # Push(w) =>
              status'[p] = status[p] /\ recorded'[p] = recorded[p] /\ (p \in fresh => p \in fresh')
        BY <2>0, <2>5, <3>1 DEF CommitFinished, TypeOK
      <4>q. QED BY <2>0, <2>5, <3>1, <4>1, AckAlone DEF CommitFinished
    <3>2. CASE ~Exists(Push(w))
      BY <2>0, <2>5, <3>2, OnAlone, Went DEF CommitFinished
    <3>q. QED BY <3>1, <3>2
  <2>6. CASE FailPush(w)
    <3>1. \A p \in Pushes : p # Push(w) =>
            status'[p] = status[p] /\ recorded'[p] = recorded[p] /\ (p \in fresh => p \in fresh')
      BY <2>0, <2>6 DEF FailPush, TypeOK
    <3>q. QED BY <2>0, <2>6, <3>1, AckAlone DEF FailPush
  <2>q. QED BY <1>6, <2>1, <2>2, <2>3, <2>4, <2>5, <2>6 DEF Execute
<1>7. ASSUME NEW w \in Workers, Raise(w) \/ ChildDies(w) \/ WorkerDies(w) PROVE Alone'
  <2>1. CASE Raise(w)
    BY <2>1, OnAlone, Went DEF Raise, rows, Busy, PushInv
  <2>2. CASE ChildDies(w) \/ WorkerDies(w)
    BY <2>2, AckAlone DEF ChildDies, WorkerDies, rows, Busy
  <2>q. QED BY <1>7, <2>1, <2>2
<1>8. ASSUME NEW j \in Jobs, DeleteJob(j) PROVE Alone'
  <2>1. /\ recorded' = recorded /\ pc' = pc /\ ctx' = ctx
        /\ status' = [p \in Pushes |-> IF JobOf(p) = j /\ status[p] # "none" THEN "deleted" ELSE status[p]]
        /\ fresh' = {p \in fresh : JobOf(p) # j}
    BY <1>8 DEF DeleteJob, execs
  <2>2. \A w \in Workers : Busy(w) => Push(w) \in Pushes /\ status[Push(w)] # "none"
    BY ClaimedRow
  <2>q. QED BY <2>1, <2>2, AloneKept DEF Busy
<1>9. CASE DeleteConnection \/ ChangeKey \/ \E j \in Jobs : ChangeJob(j)
  BY <1>9, AloneKept DEF DeleteConnection, ChangeKey, ChangeJob, rows, execs
<1>q. QED
  BY <1>1, <1>2, <1>3, <1>4, <1>5, <1>6, <1>7, <1>8, <1>9 DEF Next, Create, Receive

\* A new file has a number of its own.
LEMMA NewFileIsNew ==
  ASSUME PushInv, NEW w \in Workers, Push(w) \in Pushes
  PROVE  NewFile(w) \notin store
<1>1. NewFile(w).push = Push(w) /\ NewFile(w).try = uploads[Push(w)] + 1 /\ uploads[Push(w)] \in Nat
  BY NewFileParts DEF PushInv, TypeOK
<1>q. QED BY <1>1 DEF PushInv, Numbered

LEMMA NextNumbered ==
  ASSUME PushInv, [Next]_vars
  PROVE  Numbered'
<1>1. ASSUME store' \subseteq store, uploads' = uploads PROVE Numbered'
  BY <1>1 DEF PushInv, Numbered
<1>2. ASSUME NEW w \in Workers, UploadFile(w) PROVE Numbered'
  <2>1. Push(w) \in Pushes
    BY <1>2, CtxType DEF Fit, Busy, UploadFile
  <2>2. CASE Keep(w)
    <3>1. ASSUME NEW f \in store' PROVE f.try <= uploads'[f.push]
      <4>1. CASE f = NewFile(w)
        BY <2>1, <2>2, <4>1, KeepParts, NewFileParts, FileParts DEF PushInv, Typed, TypeOK
      <4>2. CASE f \in store
        <5>1. f \in File /\ f.try <= uploads[f.push]
          BY <4>2 DEF PushInv, TypeOK, Numbered
        <5>2. uploads[f.push] <= uploads'[f.push] /\ f.try \in Nat
              /\ uploads[f.push] \in Nat /\ uploads'[f.push] \in Nat
          BY <2>1, <2>2, <5>1, KeepParts, FileParts DEF PushInv, Typed, TypeOK
        <5>q. QED BY <5>1, <5>2
      <4>q. QED BY <2>1, <2>2, <3>1, <4>1, <4>2 DEF Keep
    <3>q. QED BY <3>1 DEF Numbered
  <2>q. QED BY <1>1, <1>2, <2>2 DEF UploadFile
<1>3. ASSUME NEW w \in Workers, Execute(w), ~UploadFile(w) PROVE Numbered'
  BY <1>1, <1>3
  DEF Execute, LoadContent, AddToKnowledge, DeleteUpload, Discarded, FindPrevious, RemovePrevious,
      CommitFinished, FailPush, server
<1>q. QED
  BY <1>1, <1>2, <1>3
  DEF Next, Create, Receive, Wait, CheckCap, InsertPushes, SendMessage, SenderDies, TakeMessage,
      RestoreUnacked, WindowPasses, Raise, ChildDies, WorkerDies, ChangeJob, DeleteJob,
      DeleteConnection, ChangeKey, server, vars

LEMMA NextVersions ==
  ASSUME PushInv, [Next]_vars
  PROVE  \A j \in Jobs : version'[j] >= 1
<1>1. CASE version' = version
  BY <1>1 DEF PushInv
<1>2. CASE \E j \in Jobs : version' = [version EXCEPT ![j] = @ + 1]
  BY <1>2 DEF PushInv, TypeOK
<1>q. QED
  BY <1>1, <1>2
  DEF Next, Create, Receive, Wait, CheckCap, InsertPushes, SendMessage, SenderDies, TakeMessage,
      RestoreUnacked, WindowPasses, Execute, LoadContent, UploadFile, AddToKnowledge, DeleteUpload,
      FindPrevious, RemovePrevious, CommitFinished, FailPush, Raise, ChildDies, WorkerDies,
      ChangeJob, DeleteJob, DeleteConnection, ChangeKey, env, vars

LEMMA InitPushInv == Init => PushInv
<1> SUFFICES ASSUME Init PROVE PushInv
  OBVIOUS
<1>1. Typed
  BY InitTyped
<1>2. Fits /\ Alone
  BY NothingParts DEF Init, Fits, Fit, Busy, Push, Holding, Alone
<1>3. Rows
  BY DEF Init, Rows, Row
<1>4. Numbered /\ \A j \in Jobs : version[j] >= 1
  BY DEF Init, Numbered
<1>q. QED BY <1>1, <1>2, <1>3, <1>4 DEF PushInv, Typed

LEMMA NextPushInv ==
  ASSUME PushInv, [Next]_vars
  PROVE  PushInv'
<1>1. Typed'
  BY NextTyped DEF PushInv, Typed
<1>q. QED
  BY <1>1, NextFits, NextRows, NextAlone, NextNumbered, NextVersions DEF PushInv, Typed

\* Every value a worker, a request or the server can come to is one of those that
\* the variables are declared for, and no execution passes on an upload it does
\* not have.
THEOREM PushTypeCorrect == Spec => []TypeOK
<1>1. PushInv => TypeOK
  BY DEF PushInv
<1>q. QED BY InitPushInv, NextPushInv, <1>1, PTL DEF Spec

-----------------------------------------------------------------------------
(* What is shown as current is                                             *)

\* For every number of pushes, workers and faults, whenever the job changes: a
\* finished push whose stored hash is that of the job's content uploaded just
\* this content, since its row got both from one execution (NotStaleIsCurrent).
THEOREM NotStaleIsCurrentAlways == Spec => []NotStaleIsCurrent
<1>1. PushInv => NotStaleIsCurrent
  <2> SUFFICES ASSUME PushInv, NEW p \in Pushes, status[p] = "finished", ~Stale(p)
               PROVE  recorded[p].version = version[JobOf(p)]
    BY DEF NotStaleIsCurrent
  <2>1. hash[p] = recorded[p].version /\ hash[p] >= 1
    BY DEF PushInv, Rows, Row
  <2>q. QED BY <2>1 DEF Stale
<1>q. QED BY InitPushInv, NextPushInv, <1>1, PTL DEF Spec

-----------------------------------------------------------------------------
(* A document does not vanish                                              *)

\* No finished push, no visible file and no file that is kept goes away.
LEMMA SettledKept ==
  ASSUME PushInv, SettledInv,
         \A j \in Jobs : Finished(j)' \subseteq Finished(j),
         \A j \in Jobs : \A f \in Settled(j) :
           /\ f \in attached' /\ f \in store'
           /\ \A w \in Workers : pc'[w] \in {"wait", "cleanup"} => ctx'[w].file # f
  PROVE  SettledInv'
<1> SUFFICES ASSUME NEW j \in Jobs, Finished(j)' # {} PROVE Settled(j)' # {}
  BY DEF SettledInv
<1>1. PICK f \in Settled(j) : TRUE
  BY DEF SettledInv
<1>2. f \in Settled(j)'
  BY <1>1 DEF Settled, Of, Visible
<1>q. QED BY <1>2

LEMMA RemoveSettled ==
  ASSUME PushInv, SettledInv, NEW w \in Workers, RemovePrevious(w)
  PROVE  SettledInv'
<1>0. /\ pc[w] = "replace" /\ UNCHANGED <<status, recorded>> /\ Goto(w, "finish") /\ ctx' = ctx
      /\ store \ {ctx[w].old} \subseteq store' /\ attached \ {ctx[w].old} \subseteq attached'
  BY DEF RemovePrevious, rows
<1>1. Others(w) /\ pc'[w] = "finish"
  BY <1>0, Went DEF PushInv
<1>2. /\ ctx[w].file \in store /\ ctx[w].file \in attached /\ ctx[w].file # NoFile
      /\ ctx[w].file.push = Push(w) /\ Push(w) \in Pushes /\ Fit(w)
  BY <1>0, HeldFile DEF PushInv, Fits, Fit, Holding
<1>3. ctx[w].file # ctx[w].old /\ \A v \in Workers : v # w => ctx[v].file # ctx[w].file
  BY <1>2, Private
<1> SUFFICES ASSUME NEW j \in Jobs, Finished(j)' # {} PROVE Settled(j)' # {}
  BY DEF SettledInv
<1>4. Finished(j)' = Finished(j)
  BY <1>0 DEF Finished
<1>5. PICK f \in Settled(j) : TRUE
  BY <1>4 DEF SettledInv
<1>6. CASE f # ctx[w].old
  <2>1. f \in Settled(j)'
    BY <1>0, <1>1, <1>5, <1>6 DEF Settled, Of, Visible, Others
  <2>q. QED BY <2>1
<1>7. CASE f = ctx[w].old
  <2>1. ctx[w].old # NoFile
    BY <1>5, <1>7, NoFileIsNone DEF Settled, Of, Visible, PushInv, TypeOK
  <2>2. JobOf(ctx[w].file.push) = j
    <3>1. PICK q \in Pushes : JobOf(q) = JobOf(Push(w)) /\ recorded[q] = ctx[w].old
      BY <1>2, <2>1 DEF Fit
    <3>2. recorded[q].push = q
      BY <2>1, <3>1 DEF PushInv, Rows, Row
    <3>q. QED BY <1>2, <1>5, <1>7, <3>1, <3>2 DEF Settled, Of
  <2>3. ctx[w].file \in Settled(j)'
    BY <1>0, <1>1, <1>2, <1>3, <2>2 DEF Settled, Of, Visible, Others
  <2>q. QED BY <2>3
<1>q. QED BY <1>6, <1>7

LEMMA CommitSettled ==
  ASSUME PushInv, SettledInv, NEW w \in Workers, CommitFinished(w)
  PROVE  SettledInv'
<1>0. store' = store /\ attached' = attached /\ Others(w) /\ pc'[w] \notin {"wait", "cleanup"}
  BY Acked, Went DEF CommitFinished, server, PushInv
<1>1. CASE ~Exists(Push(w))
  BY <1>0, <1>1, SettledKept
  DEF CommitFinished, Finished, Settled, Of, Visible, Others
<1>2. CASE Exists(Push(w))
  <2>1. /\ ctx[w].file \in store /\ ctx[w].file \in attached /\ ctx[w].file # NoFile
        /\ ctx[w].file.push = Push(w) /\ Push(w) \in Pushes
    BY HeldFile DEF CommitFinished, PushInv, Fits, Fit, Holding
  <2>2. \A v \in Workers : v # w => ctx[v].file # ctx[w].file
    BY <2>1, Private
  <2> SUFFICES ASSUME NEW j \in Jobs, Finished(j)' # {} PROVE Settled(j)' # {}
    BY DEF SettledInv
  <2>3. CASE JobOf(Push(w)) = j
    <3>1. ctx[w].file \in Settled(j)'
      BY <1>0, <2>1, <2>2, <2>3 DEF Settled, Of, Visible, Others
    <3>q. QED BY <3>1
  <2>4. CASE JobOf(Push(w)) # j
    <3>1. \A p \in Pushes : p # Push(w) => status'[p] = status[p] /\ recorded'[p] = recorded[p]
      BY <1>2 DEF CommitFinished, PushInv, TypeOK
    <3>2. Finished(j)' \subseteq Finished(j)
      BY <2>4, <3>1 DEF Finished
    <3>3. PICK f \in Settled(j) : TRUE
      BY <3>2 DEF SettledInv
    <3>4. f \in Settled(j)'
      BY <1>0, <3>3 DEF Settled, Of, Visible, Others
    <3>q. QED BY <3>4
  <2>q. QED BY <2>3, <2>4
<1>q. QED BY <1>1, <1>2

LEMMA UploadSettled ==
  ASSUME PushInv, SettledInv, NEW w \in Workers, UploadFile(w)
  PROVE  SettledInv'
<1>0. pc[w] = "upload" /\ UNCHANGED <<status, recorded, attached>> /\ Push(w) \in Pushes
  BY CtxType DEF UploadFile, rows, Fit, Busy
<1>1. \A j \in Jobs : Finished(j)' = Finished(j)
  BY <1>0 DEF Finished
<1>2. CASE Goto(w, "wait") /\ Keep(w) /\ ctx' = [ctx EXCEPT ![w].file = NewFile(w)]
  <2>1. NewFile(w) \in File /\ NewFile(w) \notin store /\ store \subseteq store'
    BY <1>0, <1>2, NewFileParts, NewFileIsNew DEF PushInv, Keep
  <2>2. Others(w) /\ ctx'[w].file = NewFile(w)
    BY <1>2, <2>1, NewHeld DEF PushInv
  <2>q. QED BY <1>0, <1>1, <2>1, <2>2, SettledKept DEF Settled, Of, Visible, Others
<1>3. CASE Goto(w, "raised") /\ UNCHANGED ctx /\ store \subseteq store'
  <2>1. Others(w) /\ pc'[w] = "raised" /\ ctx'[w] = ctx[w]
    BY <1>3, Went DEF PushInv
  <2>q. QED BY <1>0, <1>1, <1>3, <2>1, SettledKept DEF Settled, Of, Visible, Others
<1>q. QED BY <1>2, <1>3 DEF UploadFile, Keep

\* The execution w goes on, keeps its file, and takes none away.
LEMMA OnSettled ==
  ASSUME PushInv, SettledInv, NEW w \in Workers, Others(w),
         \A j \in Jobs : Finished(j)' \subseteq Finished(j),
         pc'[w] \in {"wait", "cleanup"} => pc[w] \in {"wait", "cleanup"} /\ ctx'[w].file = ctx[w].file,
         attached \subseteq attached',
         \A f \in store \ store' : pc[w] = "cleanup" /\ f = ctx[w].file
  PROVE  SettledInv'
  BY SettledKept DEF Settled, Of, Visible, Others

LEMMA NextSettled ==
  ASSUME PushInv, SettledInv, [Next]_vars
  PROVE  SettledInv'
<1>0. ASSUME UNCHANGED <<status, recorded>> PROVE \A j \in Jobs : Finished(j)' \subseteq Finished(j)
  BY <1>0 DEF Finished
<1>1. ASSUME UNCHANGED <<status, recorded, pc, ctx, store, attached>> PROVE SettledInv'
  BY <1>0, <1>1, SettledKept DEF Settled, Of, Visible
<1>2. ASSUME NEW r \in Requests, InsertPushes(r) PROVE SettledInv'
  <2>1. \A j \in Jobs : Finished(j)' \subseteq Finished(j)
    BY <1>2 DEF InsertPushes, Finished
  <2>q. QED BY <1>2, <2>1, SettledKept DEF InsertPushes, execs, server, Settled, Of, Visible
<1>3. ASSUME NEW p \in Pushes, NEW w \in Workers, TakeMessage(w, p) PROVE SettledInv'
  <2>1. CASE ~Claimable(p)
    BY <1>1, <1>3, <2>1 DEF TakeMessage, server
  <2>2. CASE Claimable(p)
    <3>1. Others(w) /\ pc'[w] = "claimed"
      BY <1>3, <2>2, NewPush DEF TakeMessage, PushInv
    <3>2. \A j \in Jobs : Finished(j)' \subseteq Finished(j)
      BY <1>3, <2>2 DEF TakeMessage, Finished, PushInv, TypeOK
    <3>q. QED BY <1>3, <3>1, <3>2, OnSettled DEF TakeMessage, server
  <2>q. QED BY <2>1, <2>2
<1>4. ASSUME NEW w \in Workers, LoadContent(w) PROVE SettledInv'
  <2>1. Others(w) /\ pc'[w] \notin {"wait", "cleanup"}
    BY <1>4, Acked DEF LoadContent, PushInv, Goto, TypeOK, Others
  <2>q. QED BY <1>0, <1>4, <2>1, OnSettled DEF LoadContent, rows, server
<1>5. ASSUME NEW w \in Workers, AddToKnowledge(w) PROVE SettledInv'
  <2>1. Others(w) /\ ctx'[w] = ctx[w]
    BY <1>5, Went DEF AddToKnowledge, PushInv
  <2>q. QED BY <1>0, <1>5, <2>1, OnSettled DEF AddToKnowledge, rows
<1>6. ASSUME NEW w \in Workers, DeleteUpload(w) PROVE SettledInv'
  <2>1. Others(w) /\ pc'[w] = "raised"
    BY <1>6, Went DEF DeleteUpload, PushInv
  <2>q. QED BY <1>0, <1>6, <2>1, OnSettled DEF DeleteUpload, Discarded, rows
<1>7. ASSUME NEW w \in Workers, FindPrevious(w) PROVE SettledInv'
  <2>1. Others(w) /\ pc'[w] \notin {"wait", "cleanup"}
    BY <1>7 DEF FindPrevious, PushInv, Goto, TypeOK, Others
  <2>q. QED BY <1>0, <1>7, <2>1, OnSettled DEF FindPrevious, rows, server
<1>8. ASSUME NEW w \in Workers, FailPush(w) PROVE SettledInv'
  <2>1. Others(w) /\ pc'[w] = "idle"
    BY <1>8, Acked DEF FailPush, PushInv
  <2>2. \A j \in Jobs : Finished(j)' \subseteq Finished(j)
    BY <1>8 DEF FailPush, Finished, PushInv, TypeOK
  <2>q. QED BY <1>8, <2>1, <2>2, OnSettled DEF FailPush, server
<1>9. ASSUME NEW w \in Workers, Raise(w) \/ ChildDies(w) \/ WorkerDies(w) PROVE SettledInv'
  <2>1. Others(w) /\ pc'[w] \in {"raised", "idle"}
    BY <1>9, Went, Acked DEF Raise, ChildDies, WorkerDies, PushInv
  <2>q. QED BY <1>0, <1>9, <2>1, OnSettled DEF Raise, ChildDies, WorkerDies, rows, server
<1>10. ASSUME NEW j \in Jobs, DeleteJob(j) PROVE SettledInv'
  <2>1. \A i \in Jobs : Finished(i)' \subseteq Finished(i)
    BY <1>10 DEF DeleteJob, Finished
  <2>q. QED BY <1>10, <2>1, SettledKept DEF DeleteJob, execs, server, Settled, Of, Visible
<1>q. QED
  BY <1>1, <1>2, <1>3, <1>4, <1>5, <1>6, <1>7, <1>8, <1>9, <1>10,
     RemoveSettled, CommitSettled, UploadSettled
  DEF Next, Create, Receive, Wait, Execute, CheckCap, SendMessage, SenderDies, RestoreUnacked,
      WindowPasses, ChangeJob, DeleteConnection, ChangeKey, rows, execs, server, vars

-----------------------------------------------------------------------------
(* No push is left lying                                                   *)

LEMMA CountTypes ==
  ASSUME TypeOK, NEW p \in Pushes
  PROVE  queue[p] \in Nat /\ unacked[p] \in Nat
  BY DEF TypeOK

\* Nothing that the push p waits for is taken from it.
LEMMA HandledKept ==
  ASSUME TypeOK, TypeOK', NEW p \in Pushes, Handled(p),
         status'[p] \in {"pending", "running"} => status'[p] = status[p],
         p \in fresh' => p \in fresh,
         queue'[p] >= queue[p], unacked'[p] >= unacked[p], killed \subseteq killed',
         Executing(p) \subseteq Executing(p)',
         request' = request /\ eligible' = eligible
  PROVE  Handled(p)'
<1>1. queue[p] \in Nat /\ unacked[p] \in Nat /\ queue'[p] \in Nat /\ unacked'[p] \in Nat
  BY DEF TypeOK
<1>2. Watched(p) => Watched(p)'
  BY <1>1 DEF Watched
<1>3. Waits(p) => Waits(p)'
  BY <1>1 DEF Waits
<1>q. QED BY <1>2, <1>3 DEF Handled

LEMMA ExecutingKept ==
  ASSUME NEW w \in Workers, Others(w), NEW p,
         pc[w] # "idle" /\ Push(w) = p => pc'[w] # "idle" /\ ctx'[w].push = p
  PROVE  Executing(p) \subseteq Executing(p)'
  BY DEF Executing, Others, Push

\* The step of an execution w that goes on.
LEMMA OnHandled ==
  ASSUME TypeOK, TypeOK', HandledInv, NEW w \in Workers, Others(w),
         pc'[w] # "idle", ctx'[w].push = ctx[w].push,
         UNCHANGED <<status, fresh, broker, killed, clients>>
  PROVE  HandledInv'
<1> SUFFICES ASSUME NEW p \in Pushes PROVE Handled(p)'
  BY DEF HandledInv
<1>1. Executing(p) \subseteq Executing(p)'
  BY ExecutingKept DEF Push
<1>q. QED BY <1>1, HandledKept, CountTypes DEF HandledInv, broker, clients

\* The step of an execution w that ends: its push is finished, failed or gone, or
\* its message is on its way again.
LEMMA EndHandled ==
  ASSUME PushInv, TypeOK', HandledInv, NEW w \in Workers, Busy(w), Ack(w),
         \A p \in Pushes : p # Push(w) => status'[p] = status[p] /\ (p \in fresh' => p \in fresh),
         \/ status'[Push(w)] \notin {"pending", "running"}
         \/ Push(w) \in killed' \/ unacked'[Push(w)] > 0,
         \A p \in Pushes : queue'[p] >= queue[p] /\ unacked'[p] >= unacked[p],
         killed \subseteq killed', UNCHANGED clients
  PROVE  HandledInv'
<1> SUFFICES ASSUME NEW p \in Pushes PROVE Handled(p)'
  BY DEF HandledInv
<1>1. CASE p # Push(w)
  <2>1. Executing(p) \subseteq Executing(p)'
    BY <1>1, Acked, ExecutingKept DEF PushInv
  <2>q. QED BY <1>1, <2>1, HandledKept DEF HandledInv, PushInv, clients
<1>2. CASE p = Push(w)
  <2>1. queue'[p] \in Nat /\ unacked'[p] \in Nat
    BY DEF TypeOK
  <2>q. QED BY <1>2, <2>1 DEF Handled, Waits, Watched
<1>q. QED BY <1>1, <1>2

LEMMA InsertHandled ==
  ASSUME PushInv, TypeOK', HandledInv, NEW r \in Requests, InsertPushes(r)
  PROVE  HandledInv'
<1> SUFFICES ASSUME NEW p \in Pushes PROVE Handled(p)'
  BY DEF HandledInv
<1>0. /\ request[r] = "counted" /\ eligible' = eligible /\ fresh' = fresh /\ UNCHANGED <<broker, execs, killed>>
      /\ \A q \in Requests : q # r => request'[q] = request[q]
      /\ p[1] \in Requests /\ Handled(p)
  BY PushParts DEF InsertPushes, history, PushInv, TypeOK, HandledInv
<1>1. CASE p[1] # r
  BY <1>0, <1>1 DEF InsertPushes, Handled, Waits, Watched, Executing, Push, broker, execs
<1>2. CASE p[1] = r
  <2>1. status[p] = "none"
    BY <1>0, <1>2 DEF PushInv, Rows, Row
  <2>2. \/ status'[p] = "none"
        \/ status'[p] = "pending" /\ JobOf(p) \in eligible[r] /\ request'[r] = "send"
    BY <1>2, <2>1 DEF InsertPushes, PushInv, TypeOK
  <2>q. QED BY <1>0, <1>2, <2>2 DEF Handled, Waits
<1>q. QED BY <1>1, <1>2

LEMMA SendHandled ==
  ASSUME PushInv, TypeOK', HandledInv, NEW r \in Requests, SendMessage(r)
  PROVE  HandledInv'
<1> SUFFICES ASSUME NEW p \in Pushes PROVE Handled(p)'
  BY DEF HandledInv
<1>0. PICK j \in Jobs :
        /\ Enqueue(<<r, j>>) /\ eligible' = [eligible EXCEPT ![r] = @ \ {j}]
        /\ request' = [request EXCEPT ![r] = IF eligible[r] = {j} THEN "done" ELSE "send"]
  BY DEF SendMessage, PushInv, TypeOK
<1>1. /\ UNCHANGED <<status, fresh, unacked, execs, killed>> /\ request[r] = "send"
      /\ Handled(p) /\ p[1] \in Requests /\ JobOf(p) \in Jobs
  BY PushParts DEF SendMessage, rows, history, HandledInv
<1>2. /\ <<r, j>> \in Pushes /\ queue'[<<r, j>>] > 0 /\ queue'[p] >= queue[p]
      /\ queue[p] \in Nat /\ unacked[p] \in Nat /\ queue'[p] \in Nat
  BY <1>0, Queued, PairIsPush DEF PushInv, TypeOK
<1>3. Watched(p) => Watched(p)'
  BY <1>1 DEF Watched, Executing, Push, execs
<1>4. ASSUME Waits(p) PROVE Waits(p)'
  <2>1. CASE p = <<r, j>>
    BY <1>1, <1>2, <2>1 DEF Waits
  <2>2. CASE p[1] = r /\ JobOf(p) # j
    <3>1. JobOf(p) \in eligible[r] => eligible[r] # {j} /\ JobOf(p) \in eligible'[r]
      BY <1>0, <2>2 DEF PushInv, TypeOK
    <3>2. JobOf(p) \in eligible[r] => request'[r] = "send"
      BY <1>0, <3>1 DEF PushInv, TypeOK
    <3>q. QED BY <1>1, <1>2, <1>4, <2>2, <3>1, <3>2 DEF Waits, Executing, Push, execs
  <2>3. CASE p[1] # r
    <3>1. request'[p[1]] = request[p[1]] /\ eligible'[p[1]] = eligible[p[1]]
      BY <1>0, <1>1, <2>3 DEF PushInv, TypeOK
    <3>q. QED BY <1>1, <1>2, <1>4, <3>1 DEF Waits, Executing, Push, execs
  <2>4. p[1] = r /\ JobOf(p) = j => p = <<r, j>>
    BY DEF Pushes, JobOf
  <2>q. QED BY <2>1, <2>2, <2>3, <2>4
<1>q. QED BY <1>1, <1>3, <1>4 DEF Handled

LEMMA TakeHandled ==
  ASSUME PushInv, TypeOK', HandledInv, NEW w \in Workers, NEW p \in Pushes, TakeMessage(w, p)
  PROVE  HandledInv'
<1>0. /\ pc[w] = "idle" /\ UNCHANGED <<unacked, killed, clients>>
      /\ \A q \in Pushes : q # p => queue'[q] = queue[q] /\ status'[q] = status[q]
                                   /\ (q \in fresh' <=> q \in fresh)
  BY DEF TakeMessage, PushInv, TypeOK
<1>1. \A q \in Pushes : Executing(q) \subseteq Executing(q)'
  <2>1. CASE Claimable(p)
    <3>1. Others(w)
      BY <2>1, NewPush DEF TakeMessage, PushInv
    <3>q. QED BY <1>0, <3>1, ExecutingKept
  <2>2. CASE ~Claimable(p)
    BY <2>2 DEF TakeMessage, Executing, Push
  <2>q. QED BY <2>1, <2>2
<1> SUFFICES ASSUME NEW q \in Pushes PROVE Handled(q)'
  BY DEF HandledInv
<1>2. CASE q # p
  BY <1>0, <1>1, <1>2, HandledKept, CountTypes DEF PushInv, HandledInv, clients
<1>3. CASE q = p /\ Claimable(p)
  <2>1. pc'[w] = "claimed" /\ ctx'[w].push = p
    BY <1>3, NewPush DEF TakeMessage, PushInv
  <2>2. w \in Executing(p)'
    BY <2>1 DEF Executing, Push
  <2>q. QED BY <1>3, <2>2 DEF Handled, Waits, Watched
<1>4. CASE q = p /\ ~Claimable(p)
  <2>1. status' = status /\ fresh' = fresh /\ Handled(p)
    BY <1>4 DEF TakeMessage, HandledInv
  <2>2. Watched(p) => Watched(p)'
    BY <1>0, <1>1 DEF Watched
  <2>3. Watched(p)' => Waits(p)'
    <3>1. queue'[p] \in Nat /\ unacked'[p] \in Nat
      BY DEF TypeOK
    <3>q. QED BY <3>1 DEF Watched, Waits
  <2>4. status[p] \in {"pending", "running"} => p \in fresh /\ status[p] = "running"
    BY <1>4 DEF Claimable
  <2>q. QED BY <1>4, <2>1, <2>2, <2>3, <2>4 DEF Handled
<1>q. QED BY <1>2, <1>3, <1>4

LEMMA WaitHandled ==
  ASSUME PushInv, TypeOK', HandledInv, NEW p \in Pushes, Wait(p)
  PROVE  HandledInv'
<1> SUFFICES ASSUME NEW q \in Pushes PROVE Handled(q)'
  BY DEF HandledInv
<1>0. Handled(q) /\ queue[q] \in Nat /\ unacked[q] \in Nat
  BY DEF HandledInv, PushInv, TypeOK
<1>1. CASE RestoreUnacked(p)
  <2>1. /\ p \notin fresh /\ UNCHANGED <<status, fresh, pc, ctx, killed, request, eligible>>
        /\ (q # p => unacked'[q] = unacked[q]) /\ queue'[q] >= queue[q] /\ (q = p => queue'[q] > 0)
        /\ queue'[q] \in Nat /\ unacked'[q] \in Nat
    BY <1>1, Queued DEF RestoreUnacked, rows, execs, clients, history, PushInv, TypeOK
  <2>2. q # p => (Waits(q) => Waits(q)') /\ (Watched(q) => Watched(q)')
    BY <1>0, <2>1 DEF Waits, Watched, Executing, Push
  <2>3. q = p => Waits(q)'
    BY <2>1 DEF Waits
  <2>q. QED BY <1>0, <2>1, <2>2, <2>3 DEF Handled
<1>2. CASE WindowPasses(p)
  <2>1. /\ fresh' = fresh \ {p} /\ UNCHANGED <<status, pc, ctx, killed, request, eligible, queue, unacked>>
    BY <1>2 DEF WindowPasses, execs, clients, broker, history
  <2>q. QED BY <1>0, <2>1 DEF Handled, Waits, Watched, Executing, Push
<1>q. QED BY <1>1, <1>2 DEF Wait

LEMMA ExecuteHandled ==
  ASSUME PushInv, TypeOK', HandledInv, NEW w \in Workers, Execute(w)
  PROVE  HandledInv'
<1>0. Busy(w) /\ Push(w) \in Pushes /\ TypeOK
  BY CtxType
  DEF Execute, LoadContent, UploadFile, AddToKnowledge, DeleteUpload, FindPrevious,
      RemovePrevious, CommitFinished, FailPush, Busy, Fit, PushInv
<1>1. CASE LoadContent(w)
  <2>1. CASE ~Exists(Push(w))
    BY <1>0, <1>1, <2>1, EndHandled, CountTypes DEF LoadContent, Exists, rows, broker, history
  <2>2. CASE Exists(Push(w))
    <3>1. version[JobOf(Push(w))] \in Nat
      BY <1>0, PushParts DEF TypeOK
    <3>2. Others(w) /\ ctx'[w].push = ctx[w].push /\ pc'[w] # "idle"
      BY <1>0, <1>1, <2>2, <3>1, NewVersion, Went DEF LoadContent
    <3>q. QED BY <1>0, <1>1, <3>2, OnHandled DEF LoadContent, rows, history
  <2>q. QED BY <2>1, <2>2
<1>2. CASE UploadFile(w)
  <2>1. NewFile(w) \in File
    BY <1>0, NewFileParts
  <2>2. Others(w) /\ ctx'[w].push = ctx[w].push /\ pc'[w] # "idle"
    BY <1>0, <1>2, <2>1, NewHeld, Went DEF UploadFile
  <2>q. QED BY <1>0, <1>2, <2>2, OnHandled DEF UploadFile, rows, history
<1>3. CASE AddToKnowledge(w) \/ DeleteUpload(w) \/ RemovePrevious(w)
  <2>1. Others(w) /\ ctx'[w].push = ctx[w].push /\ pc'[w] # "idle"
    BY <1>0, <1>3, Went DEF AddToKnowledge, AfterAttach, DeleteUpload, RemovePrevious
  <2>q. QED BY <1>0, <1>3, <2>1, OnHandled DEF AddToKnowledge, DeleteUpload, RemovePrevious, rows, history
<1>4. CASE FindPrevious(w)
  <2>1. Others(w) /\ ctx'[w].push = ctx[w].push /\ pc'[w] # "idle"
    BY <1>0, <1>4, FindStep
  <2>q. QED BY <1>0, <1>4, <2>1, OnHandled DEF FindPrevious, rows, history
<1>5. CASE CommitFinished(w)
  <2>1. CASE Exists(Push(w))
    <3>1. /\ \A p \in Pushes : p # Push(w) => status'[p] = status[p] /\ (p \in fresh' => p \in fresh)
          /\ status'[Push(w)] = "finished"
      BY <1>0, <1>5, <2>1 DEF CommitFinished, TypeOK
    <3>q. QED BY <1>0, <1>5, <2>1, <3>1, EndHandled, CountTypes DEF CommitFinished, broker, history
  <2>2. CASE ~Exists(Push(w))
    BY <1>0, <1>5, <2>2, OnHandled, Went DEF CommitFinished, history
  <2>q. QED BY <2>1, <2>2
<1>6. CASE FailPush(w)
  <2>1. /\ \A p \in Pushes : p # Push(w) => status'[p] = status[p] /\ (p \in fresh' => p \in fresh)
        /\ status'[Push(w)] \notin {"pending", "running"}
    BY <1>0, <1>6 DEF FailPush, Exists, TypeOK
  <2>q. QED BY <1>0, <1>6, <2>1, EndHandled, CountTypes DEF FailPush, broker, history
<1>q. QED BY <1>1, <1>2, <1>3, <1>4, <1>5, <1>6 DEF Execute

LEMMA DeathHandled ==
  ASSUME PushInv, TypeOK', HandledInv, NEW w \in Workers, ChildDies(w) \/ WorkerDies(w)
  PROVE  HandledInv'
<1>0. Busy(w) /\ Push(w) \in Pushes /\ TypeOK /\ Ack(w) /\ status' = status /\ fresh' = fresh
      /\ UNCHANGED clients
  BY CtxType DEF ChildDies, WorkerDies, Busy, Fit, PushInv, rows
<1>1. CASE ChildDies(w)
  BY <1>0, <1>1, Queued, EndHandled, CountTypes DEF ChildDies
<1>2. CASE WorkerDies(w)
  <2>1. unacked' = [unacked EXCEPT ![Push(w)] = @ + 1] /\ queue' = queue /\ killed' = killed
    BY <1>2 DEF WorkerDies, Held, history
  <2>2. unacked'[Push(w)] > 0 /\ \A p \in Pushes : unacked'[p] >= unacked[p] /\ queue'[p] >= queue[p]
    BY <1>0, <2>1 DEF TypeOK
  <2>q. QED BY <1>0, <2>1, <2>2, EndHandled
<1>q. QED BY <1>1, <1>2

LEMMA NextHandled ==
  ASSUME PushInv, HandledInv, [Next]_vars
  PROVE  HandledInv'
<1>0. TypeOK' /\ TypeOK
  BY NextPushInv DEF PushInv
<1>1. ASSUME UNCHANGED <<status, fresh, pc, ctx, queue, unacked, killed, request, eligible>>
      PROVE HandledInv'
  BY <1>1 DEF HandledInv, Handled, Waits, Watched, Executing, Push
<1>2. ASSUME NEW r \in Requests, CheckCap(r) PROVE HandledInv'
  <2>1. /\ UNCHANGED <<status, fresh, pc, ctx, queue, unacked, killed>> /\ request[r] = "start"
        /\ \A q \in Requests : q # r => request'[q] = request[q] /\ eligible'[q] = eligible[q]
    BY <1>0, <1>2 DEF CheckCap, rows, broker, execs, history, TypeOK
  <2>q. QED BY <2>1, PushParts DEF HandledInv, Handled, Waits, Watched, Executing, Push
<1>3. ASSUME NEW r \in Requests, SenderDies(r) PROVE HandledInv'
  <2>1. /\ UNCHANGED <<status, fresh, pc, ctx, queue, unacked, killed, eligible>> /\ request'[r] = "dead"
        /\ \A q \in Requests : q # r => request'[q] = request[q]
    BY <1>0, <1>3 DEF SenderDies, rows, broker, execs, history, TypeOK
  <2>q. QED BY <2>1, PushParts DEF HandledInv, Handled, Waits, Watched, Executing, Push
<1>4. ASSUME NEW w \in Workers, Raise(w) PROVE HandledInv'
  <2>1. Others(w) /\ ctx'[w] = ctx[w] /\ pc'[w] = "raised"
    BY <1>0, <1>4, Went DEF Raise
  <2>q. QED BY <1>0, <1>4, <2>1, OnHandled DEF Raise, rows, history
<1>5. ASSUME NEW j \in Jobs, DeleteJob(j) PROVE HandledInv'
  <2>1. /\ UNCHANGED <<pc, ctx, queue, unacked, killed, request, eligible>> /\ fresh' \subseteq fresh
        /\ \A p \in Pushes : status'[p] \in {status[p], "deleted"}
    BY <1>5 DEF DeleteJob, execs, broker, clients, history
  <2>q. QED BY <2>1 DEF HandledInv, Handled, Waits, Watched, Executing, Push
<1>q. QED
  BY <1>0, <1>1, <1>2, <1>3, <1>4, <1>5,
     InsertHandled, SendHandled, TakeHandled, WaitHandled, ExecuteHandled, DeathHandled
  DEF Next, Create, Receive, ChangeJob, DeleteConnection, ChangeKey,
      rows, execs, broker, clients, history, vars

-----------------------------------------------------------------------------
(* Every file nobody knows of takes a fault of its own                     *)

LEMMA SpoiledFinite ==
  /\ Typed => IsFiniteSet(Spoiled) /\ Cardinality(Spoiled) \in Nat
  /\ Typed' => IsFiniteSet(Spoiled') /\ Cardinality(Spoiled') \in Nat
<1>1. Spoiled \in SUBSET store /\ Spoiled' \in SUBSET store'
  BY DEF Spoiled
<1>q. QED BY <1>1, FS_Subset, FS_CardinalityType DEF Typed

\* Without a fault nothing is spoiled, and with one at most one file.
LEMMA SpoiledKept ==
  ASSUME PushInv, SpoiledInv, Spoiled' \subseteq Spoiled, faults' \in Nat, faults' >= faults, Typed'
  PROVE  SpoiledInv'
<1>1. Cardinality(Spoiled') <= Cardinality(Spoiled)
  BY SpoiledFinite, FS_Subset DEF PushInv, Typed
<1>2. Cardinality(Spoiled) \in Nat /\ Cardinality(Spoiled') \in Nat /\ faults \in Nat
  BY SpoiledFinite DEF PushInv, Typed, TypeOK
<1>q. QED BY <1>1, <1>2 DEF SpoiledInv

LEMMA SpoiledGrows ==
  ASSUME PushInv, SpoiledInv, NEW f, Spoiled' \subseteq Spoiled \cup {f}, faults' = faults + 1, Typed'
  PROVE  SpoiledInv'
<1>1. IsFiniteSet(Spoiled) /\ Cardinality(Spoiled) \in Nat /\ Cardinality(Spoiled') \in Nat
  BY SpoiledFinite DEF PushInv, Typed
<1>2. IsFiniteSet(Spoiled \cup {f}) /\ Cardinality(Spoiled \cup {f}) <= Cardinality(Spoiled) + 1
  BY <1>1, FS_AddElement
<1>3. Cardinality(Spoiled') <= Cardinality(Spoiled \cup {f})
  BY <1>2, FS_Subset
<1>4. faults \in Nat /\ Cardinality(Spoiled \cup {f}) \in Nat
  BY <1>2, FS_CardinalityType DEF PushInv, TypeOK
<1>q. QED BY <1>1, <1>2, <1>3, <1>4 DEF SpoiledInv

\* The steps of others spoil nothing: what w has when it takes a step is all that
\* can be spoiled by it.
LEMMA SpoiledStep ==
  ASSUME PushInv, NEW w \in Workers, Others(w),
         \A q \in Pushes : recorded[q] # NoFile => recorded'[q] = recorded[q],
         \A j \in Jobs : job[j] = "deleted" => job'[j] = "deleted",
         store' \subseteq store
  PROVE  Spoiled' \subseteq Spoiled \cup {ctx[w].file}
<1> SUFFICES ASSUME NEW f \in Spoiled', f # ctx[w].file PROVE f \in Spoiled
  OBVIOUS
<1>1. f \in store /\ f \in File /\ f # NoFile
  BY NoFileIsNone DEF Spoiled, PushInv, TypeOK
<1>2. JobOf(f.push) \in Jobs
  BY <1>1, FileParts, PushParts
<1>3. \A p \in Pushes : recorded[p] # f
  BY <1>1 DEF Spoiled
<1>4. \A v \in Workers : ctx[v].file = f => pc[v] = "raised"
  BY DEF Spoiled, Others
<1>q. QED BY <1>1, <1>2, <1>3, <1>4 DEF Spoiled

\* w keeps its file, or has recorded it, or it is gone.
LEMMA SpoiledSafe ==
  ASSUME PushInv, NEW w \in Workers, Others(w),
         \A q \in Pushes : recorded[q] # NoFile => recorded'[q] = recorded[q],
         \A j \in Jobs : job[j] = "deleted" => job'[j] = "deleted",
         store' \subseteq store,
         \/ ctx[w].file \notin store' \/ pc[w] = "raised"
         \/ ctx'[w].file = ctx[w].file /\ pc'[w] # "raised"
         \/ \E q \in Pushes : recorded'[q] = ctx[w].file
         \/ ctx[w].file \in store /\ job[JobOf(ctx[w].file.push)] = "deleted"
  PROVE  Spoiled' \subseteq Spoiled
<1>1. Spoiled' \subseteq Spoiled \cup {ctx[w].file}
  BY SpoiledStep
<1>2. ASSUME ctx[w].file \in Spoiled' PROVE ctx[w].file \in Spoiled
  <2>0. ctx[w].file \in store /\ ctx[w].file \in store' /\ ctx[w].file \in File /\ ctx[w].file # NoFile
    BY <1>2, NoFileIsNone DEF Spoiled, PushInv, TypeOK
  <2>1. CASE pc[w] = "raised"
    <3>1. \A v \in Workers : ctx[v].file = ctx[w].file => pc[v] = "raised"
      BY <2>0, <2>1, Private
    <3>2. \A p \in Pushes : recorded[p] # ctx[w].file
      BY <2>0, Private
    <3>3. job[JobOf(ctx[w].file.push)] # "deleted"
      BY <1>2, <2>0, FileParts, PushParts DEF Spoiled
    <3>q. QED BY <2>0, <3>1, <3>2, <3>3 DEF Spoiled
  <2>2. CASE ctx'[w].file = ctx[w].file /\ pc'[w] # "raised"
    BY <1>2, <2>2 DEF Spoiled
  <2>3. CASE \E q \in Pushes : recorded'[q] = ctx[w].file
    BY <1>2, <2>3 DEF Spoiled
  <2>4. CASE job[JobOf(ctx[w].file.push)] = "deleted"
    BY <1>2, <2>0, <2>4, FileParts, PushParts DEF Spoiled
  <2>q. QED BY <2>0, <2>1, <2>2, <2>3, <2>4
<1>q. QED BY <1>1, <1>2

LEMMA UploadSpoiled ==
  ASSUME PushInv, SpoiledInv, Typed', NEW w \in Workers, UploadFile(w)
  PROVE  SpoiledInv'
<1>0. /\ pc[w] = "upload" /\ UNCHANGED <<recorded, job>> /\ Push(w) \in Pushes /\ ctx[w].file = NoFile
      /\ faults \in Nat
  BY CtxType DEF UploadFile, rows, env, Fit, Busy, PushInv, TypeOK
<1>1. NewFile(w) \in File /\ NewFile(w) \notin store
  BY <1>0, NewFileParts, NewFileIsNew DEF PushInv
<1>2. CASE Goto(w, "wait") /\ Keep(w) /\ ctx' = [ctx EXCEPT ![w].file = NewFile(w)] /\ faults' = faults
  <2>1. Others(w) /\ ctx'[w].file = NewFile(w) /\ pc'[w] = "wait" /\ store' = store \cup {NewFile(w)}
    BY <1>1, <1>2, NewHeld DEF PushInv, Keep
  <2>2. Spoiled' \subseteq Spoiled
    <3> SUFFICES ASSUME NEW f \in Spoiled' PROVE f \in Spoiled
      OBVIOUS
    <3>1. f # NewFile(w)
      BY <2>1 DEF Spoiled
    <3>2. f \in store /\ f # NoFile
      BY <2>1, <3>1, NoFileIsNone DEF Spoiled, PushInv, TypeOK
    <3>q. QED BY <1>0, <2>1, <3>1, <3>2 DEF Spoiled, Others
  <2>q. QED BY <1>0, <1>2, <2>2, SpoiledKept
<1>3. CASE Goto(w, "raised") /\ ctx' = ctx /\ store' = store /\ faults' = faults
  <2>1. Others(w)
    BY <1>3, Went DEF PushInv
  <2>2. ctx[w].file \notin store'
    BY <1>0, <1>3, NoFileIsNone DEF PushInv, TypeOK
  <2>3. Spoiled' \subseteq Spoiled
    BY <1>0, <1>3, <2>1, <2>2, SpoiledSafe
  <2>q. QED BY <1>0, <1>3, <2>3, SpoiledKept
<1>4. CASE Keep(w) /\ Fault("remote") /\ Goto(w, "raised") /\ ctx' = ctx
  <2>1. Others(w) /\ store' = store \cup {NewFile(w)} /\ faults' = faults + 1
    BY <1>4, Went DEF PushInv, Keep, Fault
  <2>2. Spoiled' \subseteq Spoiled \cup {NewFile(w)}
    <3> SUFFICES ASSUME NEW f \in Spoiled', f # NewFile(w) PROVE f \in Spoiled
      OBVIOUS
    <3>1. f \in store /\ f # NoFile
      BY <2>1, NoFileIsNone DEF Spoiled, PushInv, TypeOK
    <3>q. QED BY <1>0, <1>4, <2>1, <3>1 DEF Spoiled, Others
  <2>q. QED BY <2>1, <2>2, SpoiledGrows
<1>q. QED BY <1>2, <1>3, <1>4 DEF UploadFile

LEMMA DeleteSpoiled ==
  ASSUME PushInv, SpoiledInv, Typed', NEW w \in Workers, DeleteUpload(w)
  PROVE  SpoiledInv'
<1>0. UNCHANGED <<recorded, job>> /\ Others(w) /\ faults \in Nat
  BY Went DEF DeleteUpload, rows, env, PushInv, TypeOK
<1>1. CASE store' = store \ {ctx[w].file} /\ faults' = faults
  <2>1. Spoiled' \subseteq Spoiled
    BY <1>0, <1>1, SpoiledSafe
  <2>q. QED BY <1>0, <1>1, <2>1, SpoiledKept
<1>2. CASE Fault("remote") /\ store' = store
  <2>1. Spoiled' \subseteq Spoiled \cup {ctx[w].file}
    BY <1>0, <1>2, SpoiledStep
  <2>q. QED BY <1>2, <2>1, SpoiledGrows DEF Fault
<1>q. QED BY <1>1, <1>2 DEF DeleteUpload, Discarded

LEMMA CommitSpoiled ==
  ASSUME PushInv, SpoiledInv, Typed', NEW w \in Workers, CommitFinished(w)
  PROVE  SpoiledInv'
<1>0. /\ pc[w] = "finish" /\ store' = store /\ job' = job /\ faults' = faults /\ faults \in Nat
      /\ Push(w) \in Pushes /\ ctx[w].file \in store /\ ctx[w].file.push = Push(w)
  BY HeldFile DEF CommitFinished, server, env, PushInv, TypeOK, Holding
<1>1. \A q \in Pushes : recorded[q] # NoFile => recorded'[q] = recorded[q]
  BY CommitFits DEF Kept
<1>2. CASE Exists(Push(w))
  <2>1. Others(w) /\ recorded'[Push(w)] = ctx[w].file
    BY <1>0, <1>2, Acked DEF CommitFinished, PushInv, TypeOK
  <2>2. Spoiled' \subseteq Spoiled
    BY <1>0, <1>1, <2>1, SpoiledSafe
  <2>q. QED BY <1>0, <2>2, SpoiledKept
<1>3. CASE ~Exists(Push(w))
  <2>1. Others(w)
    BY <1>3, Went DEF CommitFinished, PushInv
  <2>2. job[JobOf(Push(w))] = "deleted"
    BY <1>0, <1>3, ClaimedRow DEF Busy, Exists, PushInv, Rows, Row
  <2>3. Spoiled' \subseteq Spoiled
    BY <1>0, <1>1, <2>1, <2>2, SpoiledSafe
  <2>q. QED BY <1>0, <2>3, SpoiledKept
<1>q. QED BY <1>2, <1>3

\* An execution that dies, or fails where nothing cleans up, may leave its file.
LEMMA FaultSpoiled ==
  ASSUME PushInv, SpoiledInv, Typed', NEW w \in Workers, Raise(w) \/ ChildDies(w) \/ WorkerDies(w)
  PROVE  SpoiledInv'
<1>0. UNCHANGED <<recorded, job, store>> /\ faults' = faults + 1
  BY DEF Raise, ChildDies, WorkerDies, rows, env, server, Fault
<1>1. Others(w)
  BY Went, Acked DEF Raise, ChildDies, WorkerDies, PushInv
<1>2. Spoiled' \subseteq Spoiled \cup {ctx[w].file}
  BY <1>0, <1>1, SpoiledStep
<1>q. QED BY <1>0, <1>2, SpoiledGrows

LEMMA NextSpoiled ==
  ASSUME PushInv, SpoiledInv, [Next]_vars
  PROVE  SpoiledInv'
<1>0. Typed' /\ faults \in Nat /\ faults' \in Nat
  BY NextPushInv DEF PushInv, Typed, TypeOK
<1>1. ASSUME UNCHANGED <<recorded, pc, ctx, store, job>>, faults' \in {faults, faults + 1} PROVE SpoiledInv'
  <2>1. Spoiled' = Spoiled
    BY <1>1 DEF Spoiled
  <2>q. QED BY <1>0, <1>1, <2>1, SpoiledKept
<1>2. ASSUME NEW p \in Pushes, NEW w \in Workers, TakeMessage(w, p) PROVE SpoiledInv'
  <2>1. CASE ~Claimable(p)
    BY <1>1, <1>2, <2>1 DEF TakeMessage, env, server
  <2>2. CASE Claimable(p)
    <3>1. Others(w) /\ ctx[w].file \notin store'
      <4>1. ctx[w] = Nothing
        BY <1>2, CtxType DEF TakeMessage, Fit, Busy
      <4>q. QED BY <1>2, <2>2, <4>1, NewPush, NothingParts, NoFileIsNone DEF TakeMessage, server, PushInv, TypeOK
    <3>2. Spoiled' \subseteq Spoiled
      BY <1>2, <3>1, SpoiledSafe DEF TakeMessage, env, server
    <3>q. QED BY <1>0, <1>2, <3>2, SpoiledKept DEF TakeMessage
  <2>q. QED BY <2>1, <2>2
<1>3. ASSUME NEW w \in Workers, LoadContent(w) PROVE SpoiledInv'
  <2>1. Others(w)
    BY <1>3, Acked DEF LoadContent, PushInv, Goto, TypeOK, Others
  <2>2. ctx[w].file \notin store'
    BY <1>3, CtxType, NoFileIsNone DEF LoadContent, server, Fit, PushInv, TypeOK
  <2>3. Spoiled' \subseteq Spoiled
    BY <1>3, <2>1, <2>2, SpoiledSafe DEF LoadContent, rows, env, server
  <2>q. QED BY <1>0, <1>3, <2>3, SpoiledKept DEF LoadContent
<1>4. ASSUME NEW w \in Workers, AddToKnowledge(w) PROVE SpoiledInv'
  <2>1. Others(w) /\ ctx'[w] = ctx[w] /\ pc'[w] # "raised"
    BY <1>4, Went DEF AddToKnowledge, AfterAttach, PushInv
  <2>2. Spoiled' \subseteq Spoiled
    BY <1>4, <2>1, SpoiledSafe DEF AddToKnowledge, rows, env
  <2>q. QED BY <1>0, <1>4, <2>2, SpoiledKept DEF AddToKnowledge
<1>5. ASSUME NEW w \in Workers, FindPrevious(w) PROVE SpoiledInv'
  <2>1. Push(w) \in Pushes
    BY <1>5, CtxType DEF FindPrevious, Fit, Busy
  <2>4. Others(w) /\ ctx'[w].file = ctx[w].file /\ pc'[w] # "raised"
    BY <1>5, <2>1, FindStep DEF PushInv
  <2>5. Spoiled' \subseteq Spoiled
    BY <1>5, <2>4, SpoiledSafe DEF FindPrevious, rows, env, server
  <2>q. QED BY <1>0, <1>5, <2>5, SpoiledKept DEF FindPrevious
<1>6. ASSUME NEW w \in Workers, RemovePrevious(w) PROVE SpoiledInv'
  <2>1. Others(w) /\ ctx'[w] = ctx[w] /\ pc'[w] = "finish"
    BY <1>6, Went DEF RemovePrevious, PushInv
  <2>2. Spoiled' \subseteq Spoiled
    BY <1>6, <2>1, SpoiledSafe DEF RemovePrevious, rows, env
  <2>3. faults' >= faults
    BY <1>0, <1>6 DEF RemovePrevious, Fault
  <2>q. QED BY <1>0, <2>2, <2>3, SpoiledKept
<1>7. ASSUME NEW w \in Workers, FailPush(w) PROVE SpoiledInv'
  <2>1. Others(w) /\ pc[w] = "raised"
    BY <1>7, Acked DEF FailPush, PushInv
  <2>2. Spoiled' \subseteq Spoiled
    BY <1>7, <2>1, SpoiledSafe DEF FailPush, env, server
  <2>q. QED BY <1>0, <1>7, <2>2, SpoiledKept DEF FailPush
<1>8. ASSUME NEW j \in Jobs, ChangeJob(j) \/ DeleteJob(j) PROVE SpoiledInv'
  <2>1. /\ UNCHANGED <<recorded, pc, ctx, store>> /\ faults' = faults + 1
        /\ \A i \in Jobs : job[i] = "deleted" => job'[i] = "deleted"
    BY <1>8 DEF ChangeJob, DeleteJob, rows, execs, server, Fault, PushInv, TypeOK
  <2>2. Spoiled' \subseteq Spoiled
    BY <2>1, FileParts, PushParts DEF Spoiled, PushInv, TypeOK
  <2>q. QED BY <1>0, <2>1, <2>2, SpoiledKept
<1>q. QED
  BY <1>1, <1>2, <1>3, <1>4, <1>5, <1>6, <1>7, <1>8,
     UploadSpoiled, DeleteSpoiled, CommitSpoiled, FaultSpoiled, <1>0
  DEF Next, Create, Receive, Wait, Execute, CheckCap, InsertPushes, SendMessage, SenderDies,
      RestoreUnacked, WindowPasses, DeleteConnection, ChangeKey, Fault, rows, env, execs, server, vars

\* For every number of pushes, workers and faults: each file that no push of an
\* existing job recorded and no execution holds has cost a fault, and every
\* unfinished push waits for a message, an execution or a request, or lost them
\* to a death (NothingLeftLying).
THEOREM NothingLeftLyingAlways == Spec => []NothingLeftLying
<1>1. Init => SpoiledInv /\ HandledInv
  <2> SUFFICES ASSUME Init PROVE SpoiledInv /\ HandledInv
    OBVIOUS
  <2>1. Spoiled = {}
    BY DEF Init, Spoiled
  <2>2. SpoiledInv
    BY <2>1, FS_EmptySet DEF Init, SpoiledInv
  <2>q. QED BY <2>2 DEF Init, HandledInv, Handled
<1>2. PushInv /\ SpoiledInv /\ HandledInv => NothingLeftLying
  <2> SUFFICES ASSUME PushInv, SpoiledInv, HandledInv PROVE NothingLeftLying
    OBVIOUS
  <2>1. Orphans \in SUBSET Spoiled
    BY DEF Orphans, Spoiled
  <2>2. IsFiniteSet(Spoiled) /\ Cardinality(Spoiled) \in Nat
    BY SpoiledFinite DEF PushInv, Typed
  <2>3. Cardinality(Orphans) <= Cardinality(Spoiled) /\ IsFiniteSet(Orphans)
    BY <2>1, <2>2, FS_Subset
  <2>4. Cardinality(Orphans) \in Nat /\ faults \in Nat
    BY <2>3, FS_CardinalityType DEF PushInv, TypeOK
  <2>5. OrphansExplained
    BY <2>2, <2>3, <2>4 DEF OrphansExplained, SpoiledInv
  <2>6. UnfinishedIsHandled
    BY DEF UnfinishedIsHandled, Unfinished, HandledInv, Handled, Waits
  <2>q. QED BY <2>5, <2>6 DEF NothingLeftLying
<1>q. QED
  BY InitPushInv, NextPushInv, NextSpoiled, NextHandled, <1>1, <1>2, PTL DEF Spec

-----------------------------------------------------------------------------
(* One file per document                                                   *)

LEMMA NoFault ==
  ASSUME TypeOK, [Next]_vars, faults' = 0
  PROVE  faults = 0 /\ UNCHANGED <<connection, job, faults>>
<1>1. ASSUME faults' = faults + 1 PROVE FALSE
  BY <1>1 DEF TypeOK
<1>2. faults' \in {faults, faults + 1} /\ (faults' = faults \/ UNCHANGED <<connection, job>> \/ faults' = faults + 1)
  BY DEF Next, Create, Receive, Wait, Execute, CheckCap, InsertPushes, SendMessage, SenderDies,
         TakeMessage, RestoreUnacked, WindowPasses, LoadContent, UploadFile, AddToKnowledge,
         DeleteUpload, FindPrevious, RemovePrevious, CommitFinished, FailPush, Raise, ChildDies,
         WorkerDies, ChangeJob, DeleteJob, DeleteConnection, ChangeKey, Fault, vars
<1>3. faults' = faults + 1 \/ UNCHANGED <<connection, job>>
  BY DEF Next, Create, Receive, Wait, Execute, CheckCap, InsertPushes, SendMessage, SenderDies,
         TakeMessage, RestoreUnacked, WindowPasses, LoadContent, UploadFile, AddToKnowledge,
         DeleteUpload, FindPrevious, RemovePrevious, CommitFinished, FailPush, Raise, ChildDies,
         WorkerDies, ChangeJob, DeleteJob, DeleteConnection, ChangeKey, Fault, env, vars
<1>q. QED BY <1>1, <1>2, <1>3

LEMMA FinishedSame ==
  ASSUME UNCHANGED <<status, recorded>>
  PROVE  \A j : Finished(j)' = Finished(j) /\ Newest(j)' = Newest(j)
  BY DEF Finished, Newest

\* Only pushes that were not finished change, and none becomes finished.
LEMMA FinishedStays ==
  ASSUME recorded' = recorded,
         \A p \in Pushes : status'[p] # status[p] => status'[p] # "finished" /\ status[p] # "finished"
  PROVE  \A j : Finished(j)' = Finished(j) /\ Newest(j)' = Newest(j)
<1>1. \A j : Finished(j)' = Finished(j)
  BY DEF Finished
<1>q. QED BY <1>1 DEF Newest

\* There is one newest push, and it is the one that is replaced.
LEMMA NewestIsOne ==
  ASSUME NEW j, NEW f \in Newest(j), NEW g \in Newest(j)
  PROVE  f = g
<1>1. PICK p \in Finished(j) : f = recorded[p] /\ \A o \in Finished(j) : Rank(o) <= Rank(p)
  BY DEF Newest
<1>2. PICK q \in Finished(j) : g = recorded[q] /\ \A o \in Finished(j) : Rank(o) <= Rank(q)
  BY DEF Newest
<1>3. p \in Pushes /\ q \in Pushes /\ JobOf(p) = JobOf(q) /\ Rank(p) \in Nat /\ Rank(q) \in Nat
      /\ Rank(p) <= Rank(q) /\ Rank(q) <= Rank(p)
  BY <1>1, <1>2, PushParts DEF Finished
<1>4. p = q
  BY <1>3, SameRank
<1>q. QED BY <1>1, <1>2, <1>4

LEMMA NewestIsReplaced ==
  ASSUME NEW p \in Pushes, p \notin Finished(JobOf(p)), connection # "deleted", NEW f \in Newest(JobOf(p))
  PROVE  f = Predecessor(p) /\ Predecessor(p) # NoFile
<1> DEFINE known == Finished(JobOf(p)) \ {p}
           last == CHOOSE q \in known : \A o \in known : Rank(o) <= Rank(q)
<1>1. known = Finished(JobOf(p))
  OBVIOUS
<1>2. \E q \in known : \A o \in known : Rank(o) <= Rank(q)
  BY <1>1 DEF Newest
<1>3. last \in known /\ \A o \in known : Rank(o) <= Rank(last)
  BY <1>2
<1>4. Predecessor(p) = recorded[last]
  BY <1>2 DEF Predecessor
<1> HIDE DEF last
<1>5. recorded[last] \in Newest(JobOf(p)) /\ recorded[last] # NoFile
  BY <1>1, <1>3 DEF Newest, Finished
<1>q. QED BY <1>4, <1>5, NewestIsOne

LEMMA OrderKept ==
  ASSUME NEW j \in Jobs, OrderOf(j),
         \A v \in Workers : For(v, j)' <=> For(v, j),
         \A v \in Workers : For(v, j) => pc'[v] = pc[v] /\ ctx'[v] = ctx[v],
         Of(j)' \subseteq Of(j),
         \A p \in Pushes : JobOf(p) = j => recorded'[p] = recorded[p],
         \A p \in Pushes : JobOf(p) = j => \/ status'[p] = status[p]
                                           \/ status[p] = "none" /\ status'[p] = "pending",
         \A v \in Workers : Busy(v) => Push(v) \in Pushes
  PROVE  OrderOf(j)'
<1>1. Finished(j)' = Finished(j)
  BY DEF Finished
<1>2. Newest(j)' = Newest(j)
  BY <1>1 DEF Newest, Finished
<1>3. ASSUME NEW v \in Workers, For(v, j) PROVE ~OvertakenBy(Push(v))'
  <2>1. ~OvertakenBy(Push(v)) /\ Push(v)' = Push(v) /\ JobOf(Push(v)) = j
    BY <1>3 DEF OrderOf, For, Push
  <2>q. QED BY <2>1 DEF OvertakenBy
<1>4. ASSUME NEW v \in Workers, For(v, j) PROVE Phase(v, j)'
  BY <1>2, <1>4 DEF OrderOf, Phase
<1>q. QED BY <1>2, <1>3, <1>4 DEF OrderOf

\* The step of the execution w does not concern the other documents.
LEMMA OrderOfOthers ==
  ASSUME PushInv, NEW j \in Jobs, OrderOf(j), NEW w \in Workers, Others(w), Busy(w), JobOf(Push(w)) # j,
         pc'[w] # "idle" => ctx'[w].push = ctx[w].push,
         Of(j)' \subseteq Of(j),
         \A p \in Pushes : p # Push(w) => status'[p] = status[p] /\ recorded'[p] = recorded[p]
  PROVE  OrderOf(j)'
<1>1. \A v \in Workers : For(v, j)' <=> For(v, j)
  BY DEF For, Others, Busy, Push
<1>2. \A v \in Workers : For(v, j) => pc'[v] = pc[v] /\ ctx'[v] = ctx[v]
  BY DEF For, Others
<1>3. \A v \in Workers : Busy(v) => Push(v) \in Pushes
  BY ClaimedRow
<1>q. QED BY <1>1, <1>2, <1>3, OrderKept

LEMMA OwnGoesOn ==
  ASSUME NEW w \in Workers, NEW j \in Jobs, For(w, j), OrderOf(j), Others(w),
         pc'[w] # "idle", ctx'[w].push = ctx[w].push, status' = status, Phase(w, j)'
  PROVE  OrderOf(j)'
<1>1. For(w, j)' /\ \A v \in Workers : For(v, j)' => v = w
  BY DEF OrderOf, For, Others, Busy, Push
<1>2. ~OvertakenBy(Push(w))'
  BY DEF OrderOf, OvertakenBy, Push
<1>q. QED BY <1>1, <1>2 DEF OrderOf

LEMMA OwnEnds ==
  ASSUME NEW w \in Workers, NEW j \in Jobs, For(w, j), OrderOf(j), Others(w),
         pc'[w] = "idle", Of(j)' \subseteq Newest(j)'
  PROVE  OrderOf(j)'
<1>1. \A v \in Workers : ~For(v, j)'
  BY DEF OrderOf, For, Others, Busy, Push
<1>q. QED BY <1>1 DEF OrderOf

LEMMA TakeOrder ==
  ASSUME PushInv, NEW w \in Workers, NEW p \in Pushes, TakeMessage(w, p),
         NEW j \in Jobs, OrderOf(j), j \notin mixed'
  PROVE  OrderOf(j)'
<1>0. /\ store' = store /\ attached' = attached /\ recorded' = recorded /\ pc[w] = "idle"
      /\ \A v \in Workers : Busy(v) => Push(v) \in Pushes
  BY ClaimedRow DEF TakeMessage, server
<1>1. Of(j)' = Of(j)
  BY <1>0 DEF Of, Visible
<1>2. CASE ~Claimable(p)
  BY <1>0, <1>1, <1>2, OrderKept DEF TakeMessage, For, Busy, Push
<1>3. CASE Claimable(p)
  <2>1. /\ Others(w) /\ pc'[w] = "claimed" /\ ctx'[w].push = p
        /\ status' = [status EXCEPT ![p] = "running"] /\ status[p] \in {"pending", "running"}
    BY <1>3, NewPush DEF TakeMessage, PushInv, Claimable
  <2>2. \A q \in Pushes : q # p => status'[q] = status[q]
    BY <2>1 DEF PushInv, TypeOK
  <2>3. CASE JobOf(p) # j
    <3>1. \A v \in Workers : For(v, j)' <=> For(v, j)
      BY <1>0, <2>1, <2>3 DEF For, Others, Busy, Push
    <3>2. \A v \in Workers : For(v, j) => pc'[v] = pc[v] /\ ctx'[v] = ctx[v]
      BY <1>0, <2>1 DEF For, Others, Busy
    <3>q. QED BY <1>0, <1>1, <2>2, <2>3, <3>1, <3>2, OrderKept
  <2>4. CASE JobOf(p) = j
    <3>1. Idle(j) /\ ~OvertakenBy(p)
      BY <1>3, <2>4 DEF TakeMessage
    <3>2. For(w, j)' /\ \A v \in Workers : For(v, j)' => v = w
      BY <2>1, <2>4, <3>1 DEF For, Others, Busy, Push, Idle
    <3>3. Push(w)' = p
      BY <2>1 DEF Push
    <3>4. ~OvertakenBy(p)'
      <4>1. Rank(p) \in Nat
        BY PushParts
      <4>q. QED BY <2>2, <3>1, <4>1 DEF OvertakenBy
    <3>5. Newest(j)' = Newest(j)
      BY <1>0, <2>1, <2>2, FinishedStays DEF PushInv, TypeOK
    <3>6. Of(j) \subseteq Newest(j)
      BY <3>1 DEF OrderOf, For, Idle, Busy
    <3>7. Phase(w, j)'
      BY <1>1, <2>1, <3>5, <3>6 DEF Phase
    <3>q. QED BY <3>2, <3>3, <3>4, <3>7 DEF OrderOf
  <2>q. QED BY <2>3, <2>4
<1>q. QED BY <1>2, <1>3

\* Without a deleted job the row of an execution is there.
LEMMA RowIsThere ==
  ASSUME PushInv, NEW w \in Workers, Busy(w), \A j \in Jobs : job[j] # "deleted"
  PROVE  Exists(Push(w)) /\ status[Push(w)] = "running" /\ Push(w) \in Pushes
  BY ClaimedRow, PushParts DEF PushInv, Rows, Row, Exists

\* What a step does to the document that the execution w is about.
LEMMA OwnOrder ==
  ASSUME PushInv, NEW w \in Workers, Execute(w), NEW j \in Jobs, For(w, j), OrderOf(j),
         faults' = faults, connection = "usable", \A i \in Jobs : job[i] # "deleted"
  PROVE  OrderOf(j)'
<1>0. /\ Busy(w) /\ Exists(Push(w)) /\ status[Push(w)] = "running" /\ Push(w) \in Pushes
      /\ JobOf(Push(w)) = j /\ Phase(w, j) /\ ~OvertakenBy(Push(w)) /\ TypeOK
  BY RowIsThere DEF For, OrderOf, PushInv
<1>1. faults \in Nat /\ ~(faults' = faults + 1)
  BY <1>0 DEF TypeOK
<1>f. \A kind : ~Fault(kind)
  BY <1>1 DEF Fault
<1>2. CASE LoadContent(w)
  <2>1. version[JobOf(Push(w))] \in Nat
    BY <1>0, PushParts DEF TypeOK
  <2>2. Others(w) /\ ctx'[w].push = ctx[w].push /\ pc'[w] \in {"upload", "raised"}
    BY <1>0, <1>2, <2>1, NewVersion, Went DEF LoadContent
  <2>3. pc[w] = "claimed" /\ UNCHANGED <<status, recorded>> /\ Of(j)' = Of(j)
    BY <1>2 DEF LoadContent, rows, server, Of, Visible
  <2>4. Phase(w, j)'
    BY <1>0, <2>2, <2>3, FinishedSame DEF Phase
  <2>q. QED BY <2>2, <2>3, <2>4, OwnGoesOn
<1>3. CASE UploadFile(w)
  <2>1. pc[w] = "upload" /\ UNCHANGED <<status, recorded, attached>>
    BY <1>3 DEF UploadFile, rows
  <2>2. CASE Goto(w, "wait") /\ Keep(w) /\ ctx' = [ctx EXCEPT ![w].file = NewFile(w)]
    <3>1. NewFile(w) \in File
      BY <1>0, NewFileParts
    <3>2. Others(w) /\ ctx'[w].push = ctx[w].push /\ pc'[w] = "wait" /\ ctx'[w].file = NewFile(w)
      BY <1>0, <2>2, <3>1, NewHeld
    <3>3. Of(j)' \subseteq Of(j) \cup {NewFile(w)}
      BY <2>1, <2>2 DEF Keep, Of, Visible
    <3>4. Phase(w, j)'
      BY <1>0, <2>1, <3>2, <3>3, FinishedSame DEF Phase
    <3>q. QED BY <2>1, <3>2, <3>4, OwnGoesOn
  <2>3. CASE Goto(w, "raised") /\ ctx' = ctx /\ store' = store
    <3>1. Others(w) /\ ctx'[w] = ctx[w] /\ pc'[w] = "raised"
      BY <1>0, <2>3, Went
    <3>2. Of(j)' = Of(j)
      BY <2>1, <2>3 DEF Of, Visible
    <3>3. Phase(w, j)'
      BY <1>0, <2>1, <3>1, <3>2, FinishedSame DEF Phase
    <3>q. QED BY <2>1, <3>1, <3>3, OwnGoesOn
  <2>q. QED BY <1>3, <1>f, <2>2, <2>3 DEF UploadFile
<1>4. CASE AddToKnowledge(w)
  <2>1. pc[w] = "wait" /\ UNCHANGED <<status, recorded, store>> /\ attached' \subseteq attached \cup {ctx[w].file}
    BY <1>4 DEF AddToKnowledge, rows
  <2>2. Others(w) /\ ctx'[w] = ctx[w] /\ pc'[w] \in {"find", "cleanup"}
    BY <1>0, <1>4, Went DEF AddToKnowledge, AfterAttach
  <2>3. Of(j)' \subseteq Of(j) \cup {ctx[w].file}
    BY <2>1 DEF Of, Visible
  <2>4. Phase(w, j)'
    BY <1>0, <2>1, <2>2, <2>3, FinishedSame DEF Phase
  <2>q. QED BY <2>1, <2>2, <2>4, OwnGoesOn
<1>5. CASE DeleteUpload(w)
  <2>1. /\ pc[w] = "cleanup" /\ UNCHANGED <<status, recorded, attached>> /\ store' = store \ {ctx[w].file}
    BY <1>5, <1>f DEF DeleteUpload, Discarded, rows
  <2>2. Others(w) /\ ctx'[w] = ctx[w] /\ pc'[w] = "raised"
    BY <1>0, <1>5, Went DEF DeleteUpload
  <2>3. Of(j)' \subseteq Of(j) \ {ctx[w].file}
    BY <2>1 DEF Of, Visible
  <2>4. Phase(w, j)'
    BY <1>0, <2>1, <2>2, <2>3, FinishedSame DEF Phase
  <2>q. QED BY <2>1, <2>2, <2>4, OwnGoesOn
<1>6. CASE FindPrevious(w)
  <2>1. pc[w] = "find" /\ UNCHANGED <<status, recorded, store, attached>> /\ Of(j)' = Of(j)
    BY <1>6 DEF FindPrevious, rows, server, Of, Visible
  <2>2. /\ Others(w) /\ pc'[w] \in {"replace", "finish"} /\ ctx'[w].push = ctx[w].push
        /\ ctx'[w].file = ctx[w].file /\ ctx'[w].old = Predecessor(Push(w))
        /\ pc'[w] = "finish" => Predecessor(Push(w)) = NoFile
    BY <1>0, <1>6, FindStep
  <2>3. Push(w) \notin Finished(j)
    BY <1>0 DEF Finished
  <2>4. \A f \in Newest(j) : f = Predecessor(Push(w)) /\ Predecessor(Push(w)) # NoFile
    BY <1>0, <2>3, NewestIsReplaced
  <2>5. Phase(w, j)'
    BY <1>0, <2>1, <2>2, <2>4 DEF Phase
  <2>q. QED BY <2>1, <2>2, <2>5, OwnGoesOn
<1>7. CASE RemovePrevious(w)
  <2>1. /\ pc[w] = "replace" /\ UNCHANGED <<status, recorded>> /\ store' = store \ {ctx[w].old}
    BY <1>7, <1>f DEF RemovePrevious, rows
  <2>2. Others(w) /\ ctx'[w] = ctx[w] /\ pc'[w] = "finish"
    BY <1>0, <1>7, Went DEF RemovePrevious
  <2>3. Of(j)' \subseteq Of(j) \ {ctx[w].old}
    BY <1>7, <2>1 DEF RemovePrevious, Of, Visible
  <2>4. Phase(w, j)'
    BY <1>0, <2>1, <2>2, <2>3 DEF Phase
  <2>q. QED BY <2>1, <2>2, <2>4, OwnGoesOn
<1>8. CASE CommitFinished(w)
  <2>1. /\ pc[w] = "finish" /\ status' = [status EXCEPT ![Push(w)] = "finished"]
        /\ recorded' = [recorded EXCEPT ![Push(w)] = ctx[w].file] /\ Ack(w)
    BY <1>0, <1>8 DEF CommitFinished
  <2>2. Others(w) /\ pc'[w] = "idle" /\ Of(j)' = Of(j) /\ ctx[w].file # NoFile
    BY <1>0, <1>8, <2>1, Acked, HeldFile DEF CommitFinished, server, Of, Visible, Holding
  <2>3. Push(w) \in Finished(j)' /\ recorded'[Push(w)] = ctx[w].file
    BY <1>0, <2>1, <2>2 DEF Finished, TypeOK
  <2>4. \A o \in Finished(j)' : Rank(o) <= Rank(Push(w))
    <3> SUFFICES ASSUME NEW o \in Finished(j)', o # Push(w) PROVE Rank(o) <= Rank(Push(w))
      BY <1>0, PushParts
    <3>1. o \in Pushes /\ JobOf(o) = j /\ status[o] = "finished"
      BY <1>0, <2>1 DEF Finished, TypeOK
    <3>2. Rank(o) \in Nat /\ Rank(Push(w)) \in Nat /\ ~(Rank(o) > Rank(Push(w)))
      BY <1>0, <3>1, PushParts DEF OvertakenBy
    <3>q. QED BY <3>2
  <2>5. Of(j)' \subseteq Newest(j)'
    BY <1>0, <2>1, <2>2, <2>3, <2>4 DEF Phase, Newest
  <2>q. QED BY <2>2, <2>5, OwnEnds
<1>9. CASE FailPush(w)
  <2>1. /\ pc[w] = "raised" /\ recorded' = recorded /\ Ack(w) /\ Of(j)' = Of(j)
        /\ \A p \in Pushes : status'[p] # status[p] => status'[p] # "finished" /\ status[p] # "finished"
    BY <1>0, <1>9 DEF FailPush, server, Of, Visible, TypeOK
  <2>2. Others(w) /\ pc'[w] = "idle" /\ Newest(j)' = Newest(j)
    BY <1>0, <2>1, Acked, FinishedStays
  <2>3. Of(j)' \subseteq Newest(j)'
    BY <1>0, <2>1, <2>2 DEF Phase
  <2>q. QED BY <2>2, <2>3, OwnEnds
<1>q. QED BY <1>2, <1>3, <1>4, <1>5, <1>6, <1>7, <1>8, <1>9 DEF Execute

LEMMA ExecuteOrder ==
  ASSUME PushInv, NEW w \in Workers, Execute(w), NEW j \in Jobs, OrderOf(j),
         faults' = faults, connection = "usable", \A i \in Jobs : job[i] # "deleted"
  PROVE  OrderOf(j)'
<1>0. /\ Busy(w) /\ TypeOK
  BY DEF Execute, LoadContent, UploadFile, AddToKnowledge, DeleteUpload, FindPrevious,
      RemovePrevious, CommitFinished, FailPush, Busy, PushInv
<1>1. Push(w) \in Pushes /\ Exists(Push(w))
  BY <1>0, RowIsThere
<1>2. CASE JobOf(Push(w)) = j
  BY <1>0, <1>2, OwnOrder DEF For
<1>3. CASE JobOf(Push(w)) # j
  <2>1. Others(w) /\ (pc'[w] # "idle" => ctx'[w].push = ctx[w].push)
    <3>1. version[JobOf(Push(w))] \in Nat /\ NewFile(w) \in File
      BY <1>0, <1>1, PushParts, NewFileParts DEF TypeOK
    <3>2. CASE LoadContent(w)
      BY <1>0, <1>1, <3>1, <3>2, NewVersion, Went DEF LoadContent
    <3>3. CASE UploadFile(w)
      BY <1>0, <3>1, <3>3, NewHeld, Went DEF UploadFile
    <3>4. CASE AddToKnowledge(w) \/ DeleteUpload(w) \/ RemovePrevious(w)
      BY <1>0, <3>4, Went DEF AddToKnowledge, DeleteUpload, RemovePrevious
    <3>5. CASE FindPrevious(w)
      BY <1>0, <1>1, <3>5, FindStep
    <3>6. CASE CommitFinished(w) \/ FailPush(w)
      BY <1>0, <1>1, <3>6, Acked DEF CommitFinished, FailPush
    <3>q. QED BY <3>2, <3>3, <3>4, <3>5, <3>6 DEF Execute
  <2>2. Of(j)' \subseteq Of(j)
    <3>1. ASSUME UploadFile(w) PROVE attached' = attached /\ store' \subseteq store \cup {NewFile(w)}
      BY <3>1 DEF UploadFile, Keep
    <3>2. NewFile(w).push = Push(w)
      BY <1>0, <1>1, NewFileParts
    <3>3. ASSUME AddToKnowledge(w)
          PROVE  /\ store' = store /\ attached' \subseteq attached \cup {ctx[w].file}
                 /\ ctx[w].file.push = Push(w)
      BY <3>3, HeldFile DEF AddToKnowledge, Holding
    <3>4. ASSUME Execute(w), ~UploadFile(w), ~AddToKnowledge(w)
          PROVE  store' \subseteq store /\ attached' \subseteq attached
      BY <3>4 DEF Execute, LoadContent, DeleteUpload, Discarded, FindPrevious, RemovePrevious,
                  CommitFinished, FailPush, server
    <3>q. QED BY <1>3, <3>1, <3>2, <3>3, <3>4 DEF Of, Visible
  <2>3. \A p \in Pushes : p # Push(w) => status'[p] = status[p] /\ recorded'[p] = recorded[p]
    BY <1>0, <1>1 DEF Execute, LoadContent, UploadFile, AddToKnowledge, DeleteUpload, FindPrevious,
      RemovePrevious, CommitFinished, FailPush, rows, TypeOK
  <2>q. QED BY <1>0, <1>3, <2>1, <2>2, <2>3, OrderOfOthers
<1>q. QED BY <1>2, <1>3

LEMMA NextOrder ==
  ASSUME PushInv, OrderInv, [Next]_vars
  PROVE  OrderInv'
<1> SUFFICES ASSUME faults' = 0 PROVE OrderInv'
  BY DEF OrderInv
<1>0. TypeOK /\ faults = 0 /\ faults' = faults /\ UNCHANGED <<connection, job>>
  BY NoFault DEF PushInv
<1>1. connection = "usable" /\ (\A j \in Jobs : job[j] # "deleted") /\ \A j \in Jobs \ mixed : OrderOf(j)
  BY <1>0 DEF OrderInv
<1> SUFFICES ASSUME NEW j \in Jobs, j \notin mixed' PROVE OrderOf(j)'
  BY <1>0, <1>1 DEF OrderInv
<1>f. \A kind : ~Fault(kind)
  BY <1>0 DEF Fault
<1>2. mixed \subseteq mixed'
  BY DEF Next, Create, Receive, Wait, Execute, CheckCap, InsertPushes, SendMessage, SenderDies,
         TakeMessage, RestoreUnacked, WindowPasses, LoadContent, UploadFile, AddToKnowledge,
         DeleteUpload, FindPrevious, RemovePrevious, CommitFinished, FailPush, Raise, ChildDies,
         WorkerDies, ChangeJob, DeleteJob, DeleteConnection, ChangeKey, history, vars
<1>3. OrderOf(j) /\ \A v \in Workers : Busy(v) => Push(v) \in Pushes
  BY <1>1, <1>2, ClaimedRow
<1>4. ASSUME NEW p \in Pushes, NEW w \in Workers, TakeMessage(w, p) PROVE OrderOf(j)'
  BY <1>3, <1>4, TakeOrder
<1>5. ASSUME NEW w \in Workers, Execute(w) PROVE OrderOf(j)'
  BY <1>0, <1>1, <1>3, <1>5, ExecuteOrder
<1>6. ASSUME UNCHANGED <<pc, ctx, store, attached, recorded>>,
             \A p \in Pushes : \/ status'[p] = status[p]
                               \/ status[p] = "none" /\ status'[p] = "pending"
      PROVE  OrderOf(j)'
  BY <1>3, <1>6, OrderKept DEF For, Busy, Push, Of, Visible
<1>7. ASSUME NEW r \in Requests, InsertPushes(r) PROVE OrderOf(j)'
  <2>1. \A p \in Pushes : p[1] = r => status[p] = "none"
    BY <1>7 DEF InsertPushes, PushInv, Rows, Row
  <2>q. QED BY <1>6, <1>7, <2>1 DEF InsertPushes, execs, server
<1>q. QED
  BY <1>f, <1>4, <1>5, <1>6, <1>7
  DEF Next, Create, Receive, Wait, CheckCap, SendMessage, SenderDies, RestoreUnacked, WindowPasses,
      Raise, ChildDies, WorkerDies, ChangeJob, DeleteJob, DeleteConnection, ChangeKey,
      rows, execs, server, vars

\* For every number of pushes, workers and faults: once a push of a job has
\* finished the collection always has a file of it, and while nothing failed and
\* its pushes ran one after the other it has just one (DocumentIsHeld).
THEOREM DocumentIsHeldAlways == Spec => []DocumentIsHeld
<1>1. Init => SettledInv /\ OrderInv
  <2> SUFFICES ASSUME Init PROVE SettledInv /\ OrderInv
    OBVIOUS
  <2>1. SettledInv
    BY DEF Init, SettledInv, Finished
  <2>2. \A j : Of(j) = {}
    BY DEF Init, Of, Visible
  <2>3. \A j \in Jobs : OrderOf(j)
    BY <2>2 DEF Init, OrderOf, For, Busy
  <2>q. QED BY <2>1, <2>3 DEF Init, OrderInv
<1>2. PushInv /\ SettledInv /\ OrderInv => DocumentIsHeld
  <2> SUFFICES ASSUME PushInv, SettledInv, OrderInv PROVE DocumentIsHeld
    OBVIOUS
  <2>1. NeverVanishes
    BY DEF NeverVanishes, SettledInv, Settled
  <2>2. ASSUME NEW j \in Jobs, faults = 0, j \notin mixed, Idle(j) PROVE Cardinality(Of(j)) <= 1
    <3>1. Of(j) \subseteq Newest(j)
      BY <2>2 DEF OrderInv, OrderOf, Idle, For, Busy
    <3>2. CASE Of(j) = {}
      BY <3>2, FS_EmptySet
    <3>3. CASE Of(j) # {}
      <4>1. PICK f \in Of(j) : TRUE
        BY <3>3
      <4>2. Of(j) = {f}
        BY <3>1, <4>1, NewestIsOne
      <4>q. QED BY <4>2, FS_Singleton
    <3>q. QED BY <3>2, <3>3
  <2>3. OneFile
    BY <2>2 DEF OneFile
  <2>q. QED BY <2>1, <2>3 DEF DocumentIsHeld
<1>q. QED
  BY InitPushInv, NextPushInv, NextSettled, NextOrder, <1>1, <1>2, PTL DEF Spec
=============================================================================
