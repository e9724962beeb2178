-------------------------- MODULE ImportRunProofs --------------------------
(***************************************************************************)
(* Machine-checked facts about ImportRun, for every tree of pages, every   *)
(* number of executions, requests and faults, and every cap.               *)
(***************************************************************************)
EXTENDS ImportRun, FiniteSetTheorems, TLAPS

(* TypeOK is not inductive alone: the restart hook replays a running run   *)
(* with chunk_seq - 1, which is a natural number because RUNNING is only   *)
(* ever entered by a claim.                                                *)
TypeInv ==
  /\ TypeOK
  /\ status = "RUNNING" => chunk_seq > 0

LEMMA InitTypeInv == Init => TypeInv
  <1> SUFFICES ASSUME Init PROVE TypeInv
    OBVIOUS
  <1> USE ConstantsAssumption DEF Init
  <1>1. IsFiniteSet({NoEntry}) /\ IsFiniteSet({})
    BY FS_EmptySet, FS_Singleton
  <1>2. NoEntry \in Entry
    BY DEF NoEntry, Entry
  <1>3. saved \in Saved
    <2>1. [p \in Pages |-> "no"] \in [Pages -> Mark]
      BY DEF Mark
    <2>2. {} \in Frontiers /\ {NoEntry} \in Frontiers
      BY <1>1, <1>2 DEF Frontiers
    <2>3. PICK f \in {{}, {NoEntry}} :
            saved = [frontier |-> f, visited |-> [p \in Pages |-> "no"], errors |-> {},
                     discovered |-> 0, imported |-> 0, failed |-> 0]
      OBVIOUS
    <2>4. f \in Frontiers
      BY <2>2
    <2> HIDE DEF Init
    <2> QED
      BY <2>1, <2>3, <2>4 DEF Saved
  <1>4. EmptyMem \in Mem
    BY <1>1, <1>2 DEF Mem, Frontiers, EmptyMem, Mark
  <1>5. "idle" \in Request
    BY DEF Request
  <1>6. queue \subseteq Nat
    OBVIOUS
  <1> QED
    BY <1>3, <1>4, <1>5, <1>6 DEF TypeInv, TypeOK, Active, PCs

LEMMA AckType ==
  ASSUME TypeOK, NEW e \in Execs, Ack(e)
  PROVE  /\ pc' \in [Execs -> PCs] /\ msg' \in [Execs -> Nat]
         /\ claimed' \in [Execs -> Nat] /\ mem' \in [Execs -> Mem]
  <1>1. IsFiniteSet({})
    BY FS_EmptySet
  <1>2. EmptyMem \in Mem
    BY <1>1, ConstantsAssumption DEF Mem, Frontiers, EmptyMem, Mark, Entry, NoEntry
  <1> QED
    BY <1>2 DEF Ack, TypeOK, PCs

LEMMA GotoType ==
  ASSUME TypeOK, NEW e \in Execs, NEW point \in PCs, Goto(e, point)
  PROVE  /\ pc' \in [Execs -> PCs] /\ msg' \in [Execs -> Nat]
         /\ claimed' \in [Execs -> Nat]
  BY DEF Goto, TypeOK

LEMMA RememberType ==
  ASSUME TypeOK, NEW e \in Execs, NEW m \in Mem, Remember(e, m)
  PROVE  mem' \in [Execs -> Mem]
  BY DEF Remember, TypeOK

LEMMA PersistedType ==
  ASSUME TypeOK, NEW m \in Mem
  PROVE  Persisted(m) \in Saved
  BY DEF TypeOK, Persisted, Saved, Mem

LEMMA MemType ==
  ASSUME TypeOK, NEW e \in Execs
  PROVE  /\ mem[e] \in Mem /\ mem[e].page \in Entry /\ InFlight(e) \in Pages
         /\ mem[e].frontier \in SUBSET Entry /\ IsFiniteSet(mem[e].frontier)
         /\ mem[e].visited \in [Pages -> Mark] /\ mem[e].errors \subseteq Pages
         /\ mem[e].pages \in Nat
  BY DEF TypeOK, Mem, Entry, InFlight, Frontiers

(* What the row and the memory become are again values of their types.     *)

LEMMA MarkedMemType ==
  ASSUME TypeOK, NEW e \in Execs, NEW k \in Mark
  PROVE  [mem[e] EXCEPT !.visited[InFlight(e)] = k] \in Mem
  BY MemType DEF Mem

LEMMA NotedMemType ==
  ASSUME NEW m \in Mem, NEW p \in Pages
  PROVE  [m EXCEPT !.errors = @ \cup {p}] \in Mem
  BY DEF Mem

LEMMA FrontierMemType ==
  ASSUME NEW m \in Mem, NEW f \in Frontiers
  PROVE  [m EXCEPT !.frontier = f] \in Mem
  BY DEF Mem

LEMMA CommitType ==
  ASSUME TypeOK, NEW e \in Execs, NEW row \in Saved, CommitOwned(e, row)
  PROVE  saved' \in Saved /\ stale' \in BOOLEAN /\ status = "RUNNING" /\ chunk_seq = claimed[e]
  BY DEF CommitOwned, Owns

LEMMA AppendedType ==
  ASSUME TypeOK, NEW e \in Execs, NEW new \in SUBSET Fresh(e)
  PROVE  /\ Appended(e, new) \in Mem
         /\ IsFiniteSet(new) /\ Cardinality(new) \in Nat
  <1>1. new \subseteq Pages
    BY MemType, ConstantsAssumption DEF Fresh
  <1>2. IsFiniteSet(new)
    BY <1>1, FS_Subset, ConstantsAssumption
  <1> DEFINE entry(c) == [id |-> c, depth |-> mem[e].page.depth + 1]
             entries  == {entry(c) : c \in new}
             f        == [c \in new |-> entry(c)]
  <1>3. entries \subseteq Entry
    <2>1. mem[e].page.depth + 1 \in Nat
      BY MemType DEF Entry
    <2> QED
      BY <1>1, <2>1 DEF Entry
  <1>4. IsFiniteSet(entries)
    <2>1. f \in Surjection(new, entries)
      BY DEF Surjection
    <2> QED
      BY <1>2, <2>1, FS_Surjection
  <1> DEFINE g == mem[e].frontier \cup entries
  <1>5. g \in Frontiers
    BY <1>3, <1>4, MemType, FS_Union DEF Frontiers
  <1>6. Appended(e, new) = [mem[e] EXCEPT !.frontier = g]
    BY DEF Appended
  <1>7. [mem[e] EXCEPT !.frontier = g] \in Mem
    <2> HIDE DEF g
    <2> QED
      BY <1>5, MemType, FrontierMemType
  <1> QED
    BY <1>2, <1>6, <1>7, FS_CardinalityType

LEMMA SoftLimitMemType ==
  ASSUME TypeOK, NEW e \in Execs, NEW m \in Mem
  PROVE  AfterSoftLimit(e, m) \in Mem
  <1>1. [m EXCEPT !.errors = @ \cup {InFlight(e)}] \in Mem
    BY MemType, NotedMemType
  <1>2. Reinserted(e, m) \in Mem
    <2> DEFINE g == m.frontier \cup {mem[e].page}
               n == [m EXCEPT !.visited[InFlight(e)] = "no"]
    <2>1. m.frontier \subseteq Entry /\ IsFiniteSet(m.frontier)
      BY DEF Mem, Frontiers
    <2>2. g \in Frontiers
      BY <2>1, MemType, FS_AddElement DEF Frontiers
    <2>3. n \in Mem
      BY MemType DEF Mem, Mark
    <2>4. Reinserted(e, m) = [n EXCEPT !.frontier = g]
      BY DEF Reinserted, Mem
    <2> HIDE DEF g, n
    <2> QED
      BY <2>2, <2>3, <2>4, FrontierMemType
  <1> QED
    BY <1>1, <1>2 DEF AfterSoftLimit

(* Every kind of step keeps the types.                                     *)

LEMMA ClaimTypeInv ==
  ASSUME TypeInv, NEW e \in Execs, NEW s \in queue, ClaimChunk(e, s)
  PROVE  TypeInv'
  <1>1. s \in Nat /\ chunk_seq \in Nat /\ NextSeq(s) \in Nat /\ NextSeq(s) > 0
    BY DEF TypeInv, TypeOK, NextSeq
  <1>2. Loaded \in Mem
    <2>1. NoEntry \in Entry
      BY ConstantsAssumption DEF NoEntry, Entry
    <2> QED
      BY <2>1 DEF Loaded, TypeInv, TypeOK, Saved, Mem
  <1>3. mem' \in [Execs -> Mem]
    BY <1>2, RememberType DEF ClaimChunk, TypeInv
  <1>4. /\ pc' \in [Execs -> PCs] /\ msg' \in [Execs -> Nat] /\ claimed' \in [Execs -> Nat]
    BY <1>1 DEF ClaimChunk, TypeInv, TypeOK, PCs
  <1> QED
    BY <1>1, <1>3, <1>4 DEF ClaimChunk, TypeInv, TypeOK, Active, jobVars

LEMMA IgnoreTypeInv ==
  ASSUME TypeInv, NEW e \in Execs, NEW s \in queue, IgnoreMessage(e, s)
  PROVE  TypeInv'
  BY DEF IgnoreMessage, TypeInv, TypeOK, rowVars, jobVars, execVars

LEMMA EndTypeInv ==
  ASSUME TypeInv, NEW e \in Execs,
         \/ CancelBeforeStart(e) \/ FailSetup(e) \/ ObserveCancel(e) \/ EndRun(e)
  PROVE  TypeInv'
  <1>1. Persisted(mem[e]) \in Saved
    BY MemType, PersistedType DEF TypeInv
  <1>2. CASE CancelRun(e)
    <2>1. saved' \in Saved /\ stale' \in BOOLEAN
      BY <1>1, <1>2, CommitType DEF TypeInv, CancelRun
    <2>2. /\ pc' \in [Execs -> PCs] /\ msg' \in [Execs -> Nat]
          /\ claimed' \in [Execs -> Nat] /\ mem' \in [Execs -> Mem]
      BY <1>2, AckType DEF TypeInv, CancelRun
    <2> QED
      BY <1>2, <2>1, <2>2 DEF CancelRun, TypeInv, TypeOK, jobVars, mqVars, Active, Terminal
  <1>3. CASE FailSetup(e)
    <2>1. saved' \in Saved /\ stale' \in BOOLEAN
      BY <1>1, <1>3, CommitType DEF TypeInv, FailSetup, FailRun
    <2>2. /\ pc' \in [Execs -> PCs] /\ msg' \in [Execs -> Nat]
          /\ claimed' \in [Execs -> Nat] /\ mem' \in [Execs -> Mem]
      BY <1>3, AckType DEF TypeInv, FailSetup, FailRun
    <2> QED
      BY <1>3, <2>1, <2>2 DEF FailSetup, FailRun, Fault, TypeInv, TypeOK, jobVars, mqVars, Active, Terminal
  <1>4. CASE FinalizeRun(e)
    <2>1. saved' \in Saved /\ stale' \in BOOLEAN
      BY <1>1, <1>4, CommitType DEF TypeInv, FinalizeRun
    <2>2. /\ pc' \in [Execs -> PCs] /\ msg' \in [Execs -> Nat]
          /\ claimed' \in [Execs -> Nat]
      BY <1>4, GotoType DEF TypeInv, FinalizeRun, PCs
    <2> QED
      BY <1>4, <2>1, <2>2 DEF FinalizeRun, TypeInv, TypeOK, jobVars, mqVars, Active, Terminal
  <1> QED
    BY <1>2, <1>3, <1>4 DEF CancelBeforeStart, ObserveCancel, EndRun

(* Steps that leave the row alone and end the execution.                   *)
LEMMA ReturnTypeInv ==
  ASSUME TypeInv, NEW e \in Execs,
         \/ ResendPendingChildren(e) \/ SendContinuation(e) \/ LeaseLost(e)
         \/ Crash(e) \/ FailAfterException(e)
  PROVE  TypeInv'
  <1>1. Ack(e)
    BY DEF ResendPendingChildren, SendContinuation, LeaseLost, Crash, FailAfterException
  <1>2. /\ pc' \in [Execs -> PCs] /\ msg' \in [Execs -> Nat]
        /\ claimed' \in [Execs -> Nat] /\ mem' \in [Execs -> Mem]
    BY <1>1, AckType DEF TypeInv
  <1>3. CASE ResendPendingChildren(e)
    BY <1>2, <1>3 DEF ResendPendingChildren, TypeInv, TypeOK, rowVars, jobVars
  <1>4. CASE SendContinuation(e)
    BY <1>2, <1>4 DEF SendContinuation, TypeInv, TypeOK, rowVars, jobVars
  <1>5. CASE LeaseLost(e)
    BY <1>2, <1>5 DEF LeaseLost, TypeInv, TypeOK, rowVars, jobVars, mqVars
  <1>6. CASE Crash(e)
    <2>1. msg[e] \in Nat /\ queue \subseteq Nat /\ faults \in Nat
      BY DEF TypeInv, TypeOK
    <2>2. queue' = queue \cup {msg[e]} \/ queue' = queue
      BY <1>6 DEF Crash
    <2>3. faults' = faults + 1
      BY <1>6 DEF Crash, Fault
    <2>4. queue' \subseteq Nat
      <3>1. CASE queue' = queue \cup {msg[e]}
        BY <2>1, <3>1, Zenon
      <3>2. CASE queue' = queue
        BY <2>1, <3>2, Zenon
      <3> QED
        BY <2>2, <3>1, <3>2
    <2>5. faults' \in Nat
      BY <2>1, <2>3
    <2> QED
      BY <1>2, <1>6, <2>4, <2>5 DEF Crash, TypeInv, TypeOK, rowVars, jobVars
  <1>7. CASE FailAfterException(e)
    <2>1. status' \in Active \cup Terminal \cup {Gone} /\ status' # "RUNNING"
      BY <1>7 DEF FailAfterException, Terminal, Gone
    <2> QED
      BY <1>2, <1>7, <2>1 DEF FailAfterException, TypeInv, TypeOK, jobVars, mqVars, Active, Terminal
  <1> QED
    BY <1>3, <1>4, <1>5, <1>6, <1>7

(* Steps of the crawl loop.                                                *)
LEMMA LoopTypeInv ==
  ASSUME TypeInv, NEW e \in Execs,
         \/ SeedFrontier(e) \/ Resume(e) \/ EndChunk(e)
         \/ \E x \in mem[e].frontier : PopPage(e, x)
  PROVE  TypeInv'
  <1>1. Persisted(mem[e]) \in Saved /\ mem[e] \in Mem
    BY MemType, PersistedType DEF TypeInv
  <1>2. CASE SeedFrontier(e)
    <2> DEFINE g == IF mem[e].frontier = {} THEN {NoEntry} ELSE mem[e].frontier
               m == [mem[e] EXCEPT !.frontier = g]
    <2>1. g \in Frontiers
      <3>1. NoEntry \in Entry
        BY ConstantsAssumption DEF NoEntry, Entry
      <3> QED
        BY <3>1, MemType, FS_Singleton DEF Frontiers, TypeInv
    <2>2. m \in Mem /\ m.frontier = g
      <3> HIDE DEF g
      <3> QED
        BY <1>1, <2>1, FrontierMemType DEF Mem
    <2>3. Cardinality(m.frontier) \in Nat
      BY <2>1, <2>2, FS_CardinalityType DEF Frontiers
    <2>4. /\ CommitOwned(e, [Persisted(m) EXCEPT !.discovered = Cardinality(m.frontier)])
          /\ Remember(e, m)
      BY <1>2 DEF SeedFrontier
    <2> HIDE DEF m
    <2>5. [Persisted(m) EXCEPT !.discovered = Cardinality(m.frontier)] \in Saved
      BY <2>2, <2>3, PersistedType DEF TypeInv, Saved
    <2>6. saved' \in Saved /\ stale' \in BOOLEAN /\ mem' \in [Execs -> Mem]
      BY <2>2, <2>4, <2>5, CommitType, RememberType DEF TypeInv
    <2>7. /\ pc' \in [Execs -> PCs] /\ msg' \in [Execs -> Nat] /\ claimed' \in [Execs -> Nat]
      BY <1>2, GotoType DEF SeedFrontier, TypeInv, PCs
    <2> QED
      BY <1>2, <2>6, <2>7 DEF SeedFrontier, TypeInv, TypeOK, jobVars, mqVars
  <1>3. CASE Resume(e)
    <2>1. /\ pc' \in [Execs -> PCs] /\ msg' \in [Execs -> Nat] /\ claimed' \in [Execs -> Nat]
      BY <1>3, GotoType DEF Resume, TypeInv, PCs
    <2> QED
      BY <1>3, <2>1 DEF Resume, TypeInv, TypeOK, rowVars, jobVars, mqVars
  <1>4. CASE EndChunk(e)
    <2>1. saved' \in Saved /\ stale' \in BOOLEAN
      BY <1>1, <1>4, CommitType DEF TypeInv, EndChunk
    <2>2. /\ pc' \in [Execs -> PCs] /\ msg' \in [Execs -> Nat] /\ claimed' \in [Execs -> Nat]
      BY <1>4, GotoType DEF EndChunk, TypeInv, PCs
    <2> QED
      BY <1>4, <2>1, <2>2 DEF EndChunk, TypeInv, TypeOK, jobVars, mqVars
  <1>5. ASSUME NEW x \in mem[e].frontier, PopPage(e, x)
        PROVE  TypeInv'
    <2> DEFINE g == mem[e].frontier \ {x}
               m == [mem[e] EXCEPT !.frontier = g]
               n == [mem[e] EXCEPT !.frontier = g, !.page = x, !.pages = @ + 1]
    <2>1. g \in Frontiers /\ x \in Entry
      BY MemType, FS_RemoveElement DEF Frontiers, TypeInv
    <2>2. m \in Mem /\ n \in Mem
      <3> HIDE DEF g
      <3>1. m \in Mem
        BY <1>1, <2>1, FrontierMemType
      <3>2. mem[e].pages + 1 \in Nat
        BY MemType DEF TypeInv
      <3>3. n = [m EXCEPT !.page = x, !.pages = mem[e].pages + 1]
        BY <1>1 DEF Mem
      <3> HIDE DEF m, n
      <3> QED
        BY <3>1, <3>2, <3>3, <2>1 DEF Mem
    <2>3. Remember(e, m) \/ Remember(e, n)
      BY <1>5 DEF PopPage
    <2>4. Goto(e, "loop") \/ Goto(e, "fetch")
      BY <1>5 DEF PopPage
    <2> HIDE DEF m, n
    <2>5. mem' \in [Execs -> Mem]
      BY <2>2, <2>3, RememberType DEF TypeInv
    <2>6. /\ pc' \in [Execs -> PCs] /\ msg' \in [Execs -> Nat] /\ claimed' \in [Execs -> Nat]
      BY <2>4, GotoType DEF TypeInv, PCs
    <2> QED
      BY <1>5, <2>5, <2>6 DEF PopPage, TypeInv, TypeOK, rowVars, jobVars, mqVars
  <1> QED
    BY <1>2, <1>3, <1>4, <1>5

LEMMA FetchTypeInv ==
  ASSUME TypeInv, NEW e \in Execs, FetchPage(e)
  PROVE  TypeInv'
  <1> DEFINE k == IF InFlight(e) \in Unchanged THEN "prior" ELSE "job"
             m == [mem[e] EXCEPT !.visited[InFlight(e)] = k]
  <1>1. k \in Mark
    BY DEF Mark
  <1>2. Remember(e, m) /\ Goto(e, "page")
    BY DEF FetchPage
  <1>3. m \in Mem
    <2> HIDE DEF k
    <2> QED
      BY <1>1, MarkedMemType DEF TypeInv
  <1> HIDE DEF m
  <1>4. /\ pc' \in [Execs -> PCs] /\ msg' \in [Execs -> Nat]
        /\ claimed' \in [Execs -> Nat] /\ mem' \in [Execs -> Mem]
    BY <1>2, <1>3, RememberType, GotoType DEF TypeInv, PCs
  <1> QED
    BY <1>4 DEF FetchPage, TypeInv, TypeOK, rowVars, jobVars, mqVars

LEMMA SubtreeType ==
  ASSUME TypeOK, NEW p \in Pages,
         \/ NoteOwedSubtree(p)
         \/ \E what \in {"owed", "listed", "noted", "capped"} : MarkSubtree(p, what)
         \/ UNCHANGED subtree
  PROVE  subtree' \in [Pages -> {"none", "owed", "listed", "noted", "capped"}]
  BY DEF NoteOwedSubtree, MarkSubtree, TypeOK

LEMMA AfterPageType ==
  ASSUME NEW e \in Execs
  PROVE  AfterPage(e) \in PCs
  BY DEF AfterPage, PCs

LEMMA PageTypeInv ==
  ASSUME TypeInv, NEW e \in Execs, CommitPage(e) \/ HeartbeatAttachment(e)
  PROVE  TypeInv'
  <1>1. CommitImported(e) /\ UNCHANGED mem
    BY DEF CommitPage, HeartbeatAttachment
  <1>2. PICK q \in PCs : Goto(e, q)
    BY AfterPageType DEF CommitPage, HeartbeatAttachment, PCs
  <1>3. InFlight(e) \in Pages /\ mem[e] \in Mem
    BY MemType DEF TypeInv
  <1> DEFINE row == [Persisted(mem[e]) EXCEPT !.imported = @ + 1]
  <1>4. row \in Saved
    BY <1>3, PersistedType DEF TypeInv, Saved
  <1>5. saved' \in Saved /\ stale' \in BOOLEAN
    BY <1>1, <1>4, CommitType DEF TypeInv, CommitImported
  <1>6. jobs' \in [Pages -> Nat]
    BY <1>1, <1>3 DEF TypeInv, TypeOK, CommitImported
  <1>7. subtree' \in [Pages -> {"none", "owed", "listed", "noted", "capped"}]
    BY <1>1, <1>3, SubtreeType DEF TypeInv, CommitImported
  <1>8. pc' \in [Execs -> PCs] /\ msg' \in [Execs -> Nat] /\ claimed' \in [Execs -> Nat]
    BY <1>2, GotoType DEF TypeInv
  <1> QED
    BY <1>1, <1>5, <1>6, <1>7, <1>8 DEF CommitImported, TypeInv, TypeOK, mqVars

LEMMA AttachmentTypeInv ==
  ASSUME TypeInv, NEW e \in Execs,
         CommitUnchanged(e) \/ CommitAttachments(e) \/ EnqueueChild(e)
  PROVE  TypeInv'
  <1>1. PICK q \in PCs : Goto(e, q)
    BY AfterPageType DEF CommitUnchanged, CommitAttachments, EnqueueChild, PCs
  <1>2. pc' \in [Execs -> PCs] /\ msg' \in [Execs -> Nat] /\ claimed' \in [Execs -> Nat]
    BY <1>1, GotoType DEF TypeInv
  <1>3. InFlight(e) \in Pages /\ Persisted(mem[e]) \in Saved
    BY MemType, PersistedType DEF TypeInv
  <1>4. CASE CommitUnchanged(e)
    <2>1. saved' \in Saved /\ stale' \in BOOLEAN
      BY <1>3, <1>4, CommitType DEF TypeInv, CommitUnchanged
    <2>2. subtree' \in [Pages -> {"none", "owed", "listed", "noted", "capped"}]
      BY <1>3, <1>4, SubtreeType DEF TypeInv, CommitUnchanged
    <2> QED
      BY <1>2, <1>4, <2>1, <2>2 DEF CommitUnchanged, TypeInv, TypeOK, jobVars, mqVars
  <1>5. CASE CommitAttachments(e)
    <2>1. saved' \in Saved /\ stale' \in BOOLEAN
      BY <1>3, <1>5, CommitType DEF TypeInv, CommitAttachments
    <2>2. child' \in [Pages -> {"none", "PENDING", "taken"}]
      BY <1>3, <1>5 DEF TypeInv, TypeOK, CommitAttachments
    <2> QED
      BY <1>2, <1>5, <2>1, <2>2 DEF CommitAttachments, TypeInv, TypeOK, mqVars
  <1>6. CASE EnqueueChild(e)
    BY <1>2, <1>3, <1>6 DEF EnqueueChild, TypeInv, TypeOK, rowVars, jobVars
  <1> QED
    BY <1>4, <1>5, <1>6

(* Steps that commit an altered memory and go on with the loop.            *)
LEMMA NotePageTypeInv ==
  ASSUME TypeInv, NEW e \in Execs, HitByteCap(e) \/ FailPage(e)
  PROVE  TypeInv'
  <1>1. InFlight(e) \in Pages /\ mem[e] \in Mem
    BY MemType DEF TypeInv
  <1>2. CASE HitByteCap(e)
    <2> DEFINE m == [mem[e] EXCEPT !.frontier = {}, !.errors = @ \cup {InFlight(e)}]
    <2>1. {} \in Frontiers
      BY FS_EmptySet DEF Frontiers
    <2>2. m \in Mem
      BY <1>1, <2>1 DEF Mem
    <2>3. CommitOwned(e, Persisted(m)) /\ Remember(e, m)
      BY <1>2 DEF HitByteCap
    <2> HIDE DEF m
    <2>4. saved' \in Saved /\ stale' \in BOOLEAN /\ mem' \in [Execs -> Mem]
      BY <2>2, <2>3, PersistedType, CommitType, RememberType DEF TypeInv
    <2>5. /\ pc' \in [Execs -> PCs] /\ msg' \in [Execs -> Nat] /\ claimed' \in [Execs -> Nat]
      BY <1>2, GotoType DEF HitByteCap, TypeInv, PCs
    <2> QED
      BY <1>2, <2>4, <2>5 DEF HitByteCap, Fault, TypeInv, TypeOK, jobVars, mqVars
  <1>3. CASE FailPage(e)
    <2> DEFINE n == [mem[e] EXCEPT !.visited[InFlight(e)] = "failed"]
               m == [mem[e] EXCEPT !.visited[InFlight(e)] = "failed",
                                   !.errors = @ \cup {InFlight(e)}]
               row == [Persisted(m) EXCEPT !.failed = @ + 1]
    <2>1. n \in Mem
      BY MarkedMemType DEF Mark, TypeInv
    <2>2. m = [n EXCEPT !.errors = @ \cup {InFlight(e)}]
      BY <1>1 DEF Mem
    <2>3. CommitOwned(e, row) /\ Remember(e, m)
      BY <1>3 DEF FailPage
    <2> HIDE DEF n
    <2>4. m \in Mem
      BY <1>1, <2>1, <2>2, NotedMemType
    <2> HIDE DEF m
    <2>5. row \in Saved
      BY <2>4, PersistedType DEF TypeInv, Saved
    <2> HIDE DEF row
    <2>6. saved' \in Saved /\ stale' \in BOOLEAN /\ mem' \in [Execs -> Mem]
      BY <2>3, <2>4, <2>5, CommitType, RememberType DEF TypeInv
    <2>7. /\ pc' \in [Execs -> PCs] /\ msg' \in [Execs -> Nat] /\ claimed' \in [Execs -> Nat]
      BY <1>3, GotoType DEF FailPage, TypeInv, PCs
    <2>8. subtree' \in [Pages -> {"none", "owed", "listed", "noted", "capped"}]
      BY <1>1, <1>3, SubtreeType DEF FailPage, TypeInv
    <2> QED
      BY <1>3, <2>6, <2>7, <2>8 DEF FailPage, Fault, TypeInv, TypeOK, jobVars, mqVars
  <1> QED
    BY <1>2, <1>3

LEMMA DiscoveryTypeInv ==
  ASSUME TypeInv, NEW e \in Execs, NEW new \in SUBSET Fresh(e),
         DiscoverChildren(e, new) \/ ListingFails(e, new)
  PROVE  TypeInv'
  <1>1. InFlight(e) \in Pages /\ Appended(e, new) \in Mem /\ Cardinality(new) \in Nat
    BY MemType, AppendedType DEF TypeInv
  <1> DEFINE noted == [Appended(e, new) EXCEPT !.errors = @ \cup {InFlight(e)}]
  <1>2. noted \in Mem
    BY <1>1, NotedMemType
  <1>3. PICK m \in Mem : CommitDiscovered(e, m, new)
    BY <1>1, <1>2 DEF DiscoverChildren, ListingFails
  <1> HIDE DEF noted
  <1> DEFINE row == [Persisted(m) EXCEPT !.discovered = @ + Cardinality(new)]
  <1>4. row \in Saved
    BY <1>1, PersistedType DEF TypeInv, Saved
  <1>5. CommitOwned(e, row) /\ Remember(e, m) /\ Goto(e, "loop")
    BY <1>3 DEF CommitDiscovered
  <1> HIDE DEF row
  <1>6. saved' \in Saved /\ stale' \in BOOLEAN /\ mem' \in [Execs -> Mem]
    BY <1>4, <1>5, CommitType, RememberType DEF TypeInv
  <1>7. /\ pc' \in [Execs -> PCs] /\ msg' \in [Execs -> Nat] /\ claimed' \in [Execs -> Nat]
    BY <1>5, GotoType DEF TypeInv, PCs
  <1>8. subtree' \in [Pages -> {"none", "owed", "listed", "noted", "capped"}]
    BY <1>1, SubtreeType DEF DiscoverChildren, ListingFails, TypeInv
  <1>9. faults' \in Nat
    BY DEF DiscoverChildren, ListingFails, Fault, TypeInv, TypeOK
  <1> QED
    BY <1>3, <1>6, <1>7, <1>8, <1>9 DEF CommitDiscovered, TypeInv, TypeOK, jobVars, mqVars

LEMMA SoftLimitTypeInv ==
  ASSUME TypeInv, NEW e \in Execs, NEW new \in SUBSET Fresh(e), SoftTimeLimit(e, new)
  PROVE  TypeInv'
  <1> DEFINE m == AfterSoftLimit(e, Appended(e, new))
  <1>1. InFlight(e) \in Pages /\ m \in Mem
    BY MemType, AppendedType, SoftLimitMemType DEF TypeInv
  <1>2. CommitOwned(e, Persisted(m)) /\ Remember(e, m) /\ Goto(e, "more")
    BY DEF SoftTimeLimit
  <1> HIDE DEF m
  <1>3. saved' \in Saved /\ stale' \in BOOLEAN /\ mem' \in [Execs -> Mem]
    BY <1>1, <1>2, PersistedType, CommitType, RememberType DEF TypeInv
  <1>4. /\ pc' \in [Execs -> PCs] /\ msg' \in [Execs -> Nat] /\ claimed' \in [Execs -> Nat]
    BY <1>2, GotoType DEF TypeInv, PCs
  <1>5. subtree' \in [Pages -> {"none", "owed", "listed", "noted", "capped"}]
    BY <1>1, SubtreeType DEF SoftTimeLimit, TypeInv
  <1>6. faults' \in Nat
    BY DEF SoftTimeLimit, Fault, TypeInv, TypeOK
  <1> QED
    BY <1>3, <1>4, <1>5, <1>6 DEF SoftTimeLimit, TypeInv, TypeOK, jobVars, mqVars

(* Exceptions, redelivery, the restart hook and the heartbeat clock.       *)
LEMMA DisturbanceTypeInv ==
  ASSUME TypeInv,
         \/ \E e \in Execs : Uncaught(e) \/ ReadAfterException(e) \/ Redeliver(e)
         \/ HeartbeatLapses \/ RequeueAfterRestart \/ \E p \in Pages : TakeChild(p)
  PROVE  TypeInv'
  <1>1. ASSUME NEW e \in Execs, Uncaught(e) PROVE TypeInv'
    <2>1. EmptyMem \in Mem
      BY FS_EmptySet, ConstantsAssumption DEF Mem, Frontiers, EmptyMem, Mark, Entry, NoEntry
    <2>2. mem' \in [Execs -> Mem]
      BY <1>1, <2>1, RememberType DEF Uncaught, TypeInv
    <2>3. /\ pc' \in [Execs -> PCs] /\ msg' \in [Execs -> Nat] /\ claimed' \in [Execs -> Nat]
      BY <1>1, GotoType DEF Uncaught, TypeInv, PCs
    <2> QED
      BY <1>1, <2>2, <2>3 DEF Uncaught, Fault, TypeInv, TypeOK, rowVars, jobVars, mqVars
  <1>2. ASSUME NEW e \in Execs, ReadAfterException(e) PROVE TypeInv'
    <2>1. CASE Goto(e, "failing") /\ UNCHANGED mem
      <3>1. /\ pc' \in [Execs -> PCs] /\ msg' \in [Execs -> Nat] /\ claimed' \in [Execs -> Nat]
        BY <2>1, GotoType DEF TypeInv, PCs
      <3> QED
        BY <1>2, <2>1, <3>1 DEF ReadAfterException, TypeInv, TypeOK, rowVars, jobVars, mqVars
    <2>2. CASE Ack(e)
      <3>1. /\ pc' \in [Execs -> PCs] /\ msg' \in [Execs -> Nat]
            /\ claimed' \in [Execs -> Nat] /\ mem' \in [Execs -> Mem]
        BY <2>2, AckType DEF TypeInv
      <3> QED
        BY <1>2, <3>1 DEF ReadAfterException, TypeInv, TypeOK, rowVars, jobVars, mqVars
    <2> QED
      BY <1>2, <2>1, <2>2 DEF ReadAfterException
  <1>3. ASSUME NEW e \in Execs, Redeliver(e) PROVE TypeInv'
    <2>1. msg[e] \in Nat /\ queue \subseteq Nat /\ queue' = queue \cup {msg[e]}
      BY <1>3 DEF Redeliver, TypeInv, TypeOK
    <2>2. queue' \subseteq Nat
      BY <2>1, Zenon
    <2>3. faults' \in Nat
      BY <1>3 DEF Redeliver, Fault, TypeInv, TypeOK
    <2> QED
      BY <1>3, <2>2, <2>3 DEF Redeliver, TypeInv, TypeOK, rowVars, jobVars, execVars
  <1>4. ASSUME HeartbeatLapses PROVE TypeInv'
    <2>1. faults' \in Nat
      BY <1>4 DEF HeartbeatLapses, Fault, TypeInv, TypeOK
    <2> QED
      BY <1>4, <2>1 DEF HeartbeatLapses, TypeInv, TypeOK, jobVars, execVars, mqVars
  <1>5. ASSUME RequeueAfterRestart PROVE TypeInv'
    <2>1. ReplaySeq \in Nat
      BY <1>5 DEF RequeueAfterRestart, ReplaySeq, TypeInv, TypeOK, Active
    <2>2. queue' \subseteq Nat
      BY <1>5, <2>1 DEF RequeueAfterRestart, TypeInv, TypeOK
    <2> QED
      BY <1>5, <2>2 DEF RequeueAfterRestart, TypeInv, TypeOK, rowVars, jobVars, execVars
  <1>6. ASSUME NEW p \in Pages, TakeChild(p) PROVE TypeInv'
    <2>1. child' \in [Pages -> {"none", "PENDING", "taken"}] /\ childQueue' \subseteq Pages
      BY <1>6 DEF TakeChild, TypeInv, TypeOK
    <2> QED
      BY <1>6, <2>1 DEF TakeChild, TypeInv, TypeOK, rowVars, execVars
  <1> QED
    BY <1>1, <1>2, <1>3, <1>4, <1>5, <1>6

LEMMA RequestTypeInv ==
  ASSUME TypeInv, NEW a \in Callers, Serve(a)
  PROVE  TypeInv'
  <1>1. ASSUME NEW op \in Ops, ApiRead(a, op)
        PROVE  TypeInv'
    <2>1. api' \in [Callers -> Request]
      BY <1>1 DEF ApiRead, Request, TypeInv, TypeOK
    <2> QED
      BY <1>1, <2>1 DEF ApiRead, TypeInv, TypeOK, rowVars, jobVars, execVars, mqVars
  <1>2. ASSUME \/ ForceCancel(a) \/ RequestCancel(a) \/ ReapStaleRun(a)
               \/ DeleteRun(a) \/ WriteToDeletedRun(a)
        PROVE  TypeInv'
    <2>1. "done" \in Request
      BY DEF Request
    <2>2. api' \in [Callers -> Request]
      BY <1>2, <2>1 DEF ForceCancel, RequestCancel, ReapStaleRun, DeleteRun,
                        WriteToDeletedRun, Answer, TypeInv, TypeOK
    <2>3. CASE ForceCancel(a) \/ ReapStaleRun(a)
      BY <2>2, <2>3 DEF ForceCancel, ReapStaleRun, TypeInv, TypeOK, jobVars, execVars,
                        mqVars, Active, Terminal
    <2>4. CASE RequestCancel(a)
      BY <2>2, <2>4 DEF RequestCancel, TypeInv, TypeOK, jobVars, execVars, mqVars
    <2>5. CASE DeleteRun(a)
      <3>1. jobs' \in [Pages -> Nat] /\ child' \in [Pages -> {"none", "PENDING", "taken"}]
        BY <2>5 DEF DeleteRun, TypeInv, TypeOK, jobVars
      <3> QED
        BY <2>2, <2>5, <3>1 DEF DeleteRun, TypeInv, TypeOK, execVars, mqVars, Gone
    <2>6. CASE WriteToDeletedRun(a)
      BY <2>2, <2>6 DEF WriteToDeletedRun, TypeInv, TypeOK, rowVars, jobVars, execVars, mqVars
    <2> QED
      BY <1>2, <2>3, <2>4, <2>5, <2>6
  <1> QED
    BY <1>1, <1>2 DEF Serve

LEMMA StepTypeInv == TypeInv /\ [Next]_vars => TypeInv'
  <1> SUFFICES ASSUME TypeInv, [Next]_vars PROVE TypeInv'
    OBVIOUS
  <1>1. ASSUME NEW e \in Execs, Deliver(e) PROVE TypeInv'
    BY <1>1, ClaimTypeInv, IgnoreTypeInv DEF Deliver
  <1>2. ASSUME NEW e \in Execs, Work(e) PROVE TypeInv'
    BY <1>2, EndTypeInv, ReturnTypeInv, LoopTypeInv, FetchTypeInv, PageTypeInv,
       AttachmentTypeInv, DiscoveryTypeInv, DisturbanceTypeInv DEF Work
  <1>3. ASSUME NEW e \in Execs, Disturb(e) PROVE TypeInv'
    BY <1>3, EndTypeInv, ReturnTypeInv, NotePageTypeInv, DiscoveryTypeInv,
       SoftLimitTypeInv, DisturbanceTypeInv DEF Disturb
  <1>4. ASSUME UNCHANGED vars PROVE TypeInv'
    BY <1>4 DEF vars, rowVars, jobVars, execVars, mqVars, TypeInv, TypeOK
  <1> QED
    BY <1>1, <1>2, <1>3, <1>4, RequestTypeInv, DisturbanceTypeInv DEF Next

(* Every reachable state has the types TypeOK states, for every instance.  *)
THEOREM TypeCorrect == Spec => []TypeOK
  <1>1. TypeInv => TypeOK
    BY DEF TypeInv
  <1> QED
    BY <1>1, InitTypeInv, StepTypeInv, PTL DEF Spec

-----------------------------------------------------------------------------
(* The lease.  A claim takes a sequence number above all earlier ones, so  *)
(* running executions hold pairwise different ones, none above the row's.  *)
LeaseInv ==
  /\ \A e \in Execs : pc[e] # "idle" => claimed[e] <= chunk_seq
  /\ \A e, f \in Execs : pc[e] # "idle" /\ pc[f] # "idle" /\ claimed[e] = claimed[f] => e = f

\* What every step but a claim does to the lease: nothing, or it ends one.
LeaseKept ==
  /\ chunk_seq' = chunk_seq
  /\ \A f \in Execs : pc'[f] # "idle" => pc[f] # "idle" /\ claimed'[f] = claimed[f]

LEMMA AckKeepsLease ==
  ASSUME TypeOK, NEW e \in Execs, Ack(e), UNCHANGED chunk_seq
  PROVE  LeaseKept
  BY DEF Ack, LeaseKept, TypeOK

LEMMA GotoKeepsLease ==
  ASSUME TypeOK, NEW e \in Execs, pc[e] # "idle",
         \E q \in PCs : Goto(e, q), UNCHANGED chunk_seq
  PROVE  LeaseKept
  BY DEF Goto, LeaseKept, TypeOK

LEMMA IdleKeepsLease ==
  ASSUME UNCHANGED <<pc, claimed, chunk_seq>>
  PROVE  LeaseKept
  BY DEF LeaseKept

LEMMA WorkKeepsLease ==
  ASSUME TypeOK, NEW e \in Execs, Work(e)
  PROVE  LeaseKept
  <1>1. CASE \/ CancelBeforeStart(e) \/ ObserveCancel(e) \/ SendContinuation(e)
             \/ ResendPendingChildren(e) \/ LeaseLost(e) \/ FailAfterException(e)
    <2>1. Ack(e) /\ UNCHANGED chunk_seq
      BY <1>1 DEF CancelBeforeStart, ObserveCancel, CancelRun, SendContinuation,
                  ResendPendingChildren, LeaseLost, FailAfterException, rowVars
    <2> QED
      BY <2>1, AckKeepsLease
  <1>2. CASE \/ SeedFrontier(e) \/ Resume(e) \/ EndChunk(e) \/ EndRun(e) \/ FetchPage(e)
             \/ \E x \in mem[e].frontier : PopPage(e, x)
    <2>1. UNCHANGED chunk_seq /\ pc[e] # "idle"
      BY <1>2 DEF SeedFrontier, Resume, EndChunk, EndRun, FinalizeRun, FetchPage, PopPage, rowVars
    <2>2. \E q \in PCs : Goto(e, q)
      BY <1>2 DEF SeedFrontier, Resume, EndChunk, EndRun, FinalizeRun, FetchPage, PopPage, PCs
    <2> QED
      BY <2>1, <2>2, GotoKeepsLease
  <1>3. CASE \/ CommitPage(e) \/ HeartbeatAttachment(e) \/ CommitUnchanged(e)
             \/ CommitAttachments(e) \/ EnqueueChild(e)
    <2>1. UNCHANGED chunk_seq /\ pc[e] # "idle"
      BY <1>3 DEF CommitPage, HeartbeatAttachment, CommitImported, CommitUnchanged,
                  CommitAttachments, EnqueueChild, rowVars
    <2>2. \E q \in PCs : Goto(e, q)
      BY <1>3, AfterPageType DEF CommitPage, HeartbeatAttachment, CommitUnchanged,
                                 CommitAttachments, EnqueueChild, PCs
    <2> QED
      BY <2>1, <2>2, GotoKeepsLease
  <1>4. CASE \E new \in SUBSET Fresh(e) : DiscoverChildren(e, new)
    <2>1. UNCHANGED chunk_seq /\ pc[e] # "idle" /\ Goto(e, "loop")
      BY <1>4 DEF DiscoverChildren, CommitDiscovered
    <2> QED
      BY <2>1, GotoKeepsLease DEF PCs
  <1>5. CASE ReadAfterException(e)
    <2>1. UNCHANGED chunk_seq /\ pc[e] # "idle" /\ (Goto(e, "failing") \/ Ack(e))
      BY <1>5 DEF ReadAfterException, rowVars
    <2> QED
      BY <2>1, GotoKeepsLease, AckKeepsLease DEF PCs
  <1> QED
    BY <1>1, <1>2, <1>3, <1>4, <1>5 DEF Work

LEMMA DisturbKeepsLease ==
  ASSUME TypeOK, NEW e \in Execs, Disturb(e)
  PROVE  LeaseKept
  <1>1. CASE FailSetup(e) \/ Crash(e)
    <2>1. Ack(e) /\ UNCHANGED chunk_seq
      BY <1>1 DEF FailSetup, FailRun, Crash, rowVars
    <2> QED
      BY <2>1, AckKeepsLease
  <1>2. CASE \/ HitByteCap(e) \/ FailPage(e) \/ Uncaught(e)
             \/ \E new \in SUBSET Fresh(e) : ListingFails(e, new) \/ SoftTimeLimit(e, new)
    <2>1. UNCHANGED chunk_seq /\ pc[e] # "idle"
      BY <1>2 DEF HitByteCap, FailPage, Uncaught, ListingFails, CommitDiscovered,
                  SoftTimeLimit, InsideLoop, rowVars
    <2>2. Goto(e, "loop") \/ Goto(e, "more") \/ Goto(e, "raised")
      BY <1>2 DEF HitByteCap, FailPage, Uncaught, ListingFails, CommitDiscovered, SoftTimeLimit
    <2> QED
      BY <2>1, <2>2, GotoKeepsLease DEF PCs
  <1>3. CASE Redeliver(e)
    BY <1>3, IdleKeepsLease DEF Redeliver, rowVars, execVars
  <1> QED
    BY <1>1, <1>2, <1>3 DEF Disturb

LEMMA OthersKeepLease ==
  ASSUME \/ \E e \in Execs, s \in queue : IgnoreMessage(e, s)
         \/ HeartbeatLapses \/ RequeueAfterRestart
         \/ \E p \in Pages : TakeChild(p)
         \/ \E a \in Callers : Serve(a)
         \/ UNCHANGED vars
  PROVE  LeaseKept
  <1>1. UNCHANGED <<pc, claimed, chunk_seq>>
    BY DEF IgnoreMessage, HeartbeatLapses, RequeueAfterRestart, TakeChild, Serve, ApiRead,
           ForceCancel, RequestCancel, ReapStaleRun, DeleteRun, WriteToDeletedRun,
           vars, rowVars, execVars
  <1> QED
    BY <1>1, IdleKeepsLease

LEMMA StepLeaseInv == TypeInv /\ LeaseInv /\ [Next]_vars => LeaseInv'
  <1> SUFFICES ASSUME TypeInv, LeaseInv, [Next]_vars PROVE LeaseInv'
    OBVIOUS
  <1>1. CASE LeaseKept
    BY <1>1 DEF LeaseKept, LeaseInv
  <1>2. ASSUME NEW e \in Execs, NEW s \in queue, ClaimChunk(e, s) PROVE LeaseInv'
    <2>1. /\ chunk_seq' = chunk_seq + 1 /\ chunk_seq \in Nat
          /\ claimed' = [claimed EXCEPT ![e] = chunk_seq + 1]
          /\ pc' = [pc EXCEPT ![e] = "setup"]
          /\ claimed \in [Execs -> Nat] /\ pc \in [Execs -> PCs]
      BY <1>2 DEF ClaimChunk, NextSeq, TypeInv, TypeOK
    <2>2. \A f \in Execs : f # e => pc'[f] = pc[f] /\ claimed'[f] = claimed[f]
      BY <2>1
    <2>3. \A f \in Execs : f # e /\ pc[f] # "idle" => claimed[f] <= chunk_seq /\ claimed[f] \in Nat
      BY <2>1 DEF LeaseInv
    <2>4. claimed'[e] = chunk_seq + 1
      BY <2>1
    <2>5. \A f \in Execs : pc'[f] # "idle" => claimed'[f] <= chunk_seq'
      BY <2>1, <2>2, <2>3, <2>4
    <2>6. ASSUME NEW f \in Execs, NEW g \in Execs, pc'[f] # "idle", pc'[g] # "idle",
                 claimed'[f] = claimed'[g]
          PROVE  f = g
      BY <2>1, <2>2, <2>3, <2>4, <2>6 DEF LeaseInv
    <2> QED
      BY <2>5, <2>6 DEF LeaseInv
  <1> QED
    BY <1>1, <1>2, WorkKeepsLease, DisturbKeepsLease, OthersKeepLease
       DEF Next, Deliver, TypeInv

(* No two executions ever hold the current chunk_seq, so that at most one  *)
(* passes the guard of _commit_owned, however many there are and however   *)
(* often messages are redelivered and leases reclaimed.                    *)
THEOREM LeaseExclusive == Spec => []OneOwner
  <1>1. Init => LeaseInv
    BY DEF Init, LeaseInv
  <1>2. LeaseInv => OneOwner
    BY DEF LeaseInv, OneOwner
  <1> QED
    BY <1>1, <1>2, InitTypeInv, StepTypeInv, StepLeaseInv, PTL DEF Spec

---------------------------------------------------------------------------
(***************************************************************************)
(* ImportRun keeps the promise of ImportPromise and imports every page at  *)
(* most once, for every instance.  The lease alone does not give this: the *)
(* owner decides from its private memory whether a page is new, so the     *)
(* memory must know every page that already has a job (CrawlInv).  And it  *)
(* forgets no page it was told of (CoverInv).                              *)
(***************************************************************************)

\* Points from which an execution can still commit what it has in memory.
Inside(e) == pc[e] \in InsideLoop \cup {"setup"}

CrawlOf(e) ==
  /\ \A p \in Pages : jobs[p] = 1 => mem[e].visited[p] \in {"job", "failed"}
  /\ pc[e] \in {"fetch", "page"} => jobs[InFlight(e)] = 0

\* The owner's memory covers the committed jobs; others may be out of date.
CrawlInv == \A e \in Execs : Inside(e) /\ Owns(e) => CrawlOf(e)

JobInv ==
  /\ \A p \in Pages : jobs[p] \in {0, 1} /\ (jobs[p] = 1 => saved.visited[p] \in {"job", "failed"})
  /\ status # Gone => saved.imported = Cardinality({p \in Pages : jobs[p] = 1})

\* A request to delete was let in after the run had ended.
RequestInv ==
  \A a \in Callers :
    api[a] \in {"delete", "purge"} => status \notin Active

RunInv == TypeInv /\ LeaseInv /\ CrawlInv /\ JobInv /\ RequestInv

LEMMA InitRunInv == Init => RunInv
  <1> SUFFICES ASSUME Init PROVE RunInv
    OBVIOUS
  <1>1. TypeInv
    BY InitTypeInv
  <1>2. LeaseInv /\ CrawlInv /\ RequestInv
    BY DEF Init, LeaseInv, CrawlInv, Inside, InsideLoop, RequestInv
  <1>3. JobInv
    <2>1. \A p \in Pages : jobs[p] = 0
      BY DEF Init
    <2>2. {p \in Pages : jobs[p] = 1} = {}
      BY <2>1
    <2>3. saved.imported = 0
      BY DEF Init
    <2> QED
      BY <2>1, <2>2, <2>3, FS_EmptySet DEF JobInv
  <1> QED
    BY <1>1, <1>2, <1>3 DEF RunInv

-----------------------------------------------------------------------------
(* What is common to the steps                                             *)

\* Only the execution e takes a step, the lease stays, and no run restarts.
StepOf(e) ==
  /\ LeaseKept
  /\ status' = "RUNNING" => status = "RUNNING"
  /\ \A f \in Execs \ {e} : pc'[f] = pc[f] /\ mem'[f] = mem[f]

LEMMA AckStep ==
  ASSUME TypeInv, NEW e \in Execs, Ack(e), UNCHANGED chunk_seq,
         status' = "RUNNING" => status = "RUNNING"
  PROVE  StepOf(e) /\ ~Inside(e)'
  <1>1. LeaseKept
    BY AckKeepsLease DEF TypeInv
  <1>2. pc'[e] = "idle" /\ \A f \in Execs \ {e} : pc'[f] = pc[f] /\ mem'[f] = mem[f]
    BY DEF Ack, TypeInv, TypeOK
  <1> QED
    BY <1>1, <1>2 DEF StepOf, Inside, InsideLoop

LEMMA GotoStep ==
  ASSUME TypeInv, NEW e \in Execs, NEW q \in PCs, Goto(e, q), pc[e] # "idle",
         UNCHANGED chunk_seq, status' = "RUNNING" => status = "RUNNING",
         UNCHANGED mem \/ \E m \in Mem : Remember(e, m)
  PROVE  StepOf(e) /\ pc'[e] = q
  <1>1. LeaseKept
    BY GotoKeepsLease DEF TypeInv
  <1>2. pc'[e] = q /\ \A f \in Execs \ {e} : pc'[f] = pc[f] /\ mem'[f] = mem[f]
    BY DEF Goto, Remember, TypeInv, TypeOK
  <1> QED
    BY <1>1, <1>2 DEF StepOf

\* Only a step that commits as the owner may add a job, and the owner is
\* unique: what the other executions remember does not matter.
LEMMA StepCrawl ==
  ASSUME TypeInv, LeaseInv, CrawlInv, NEW e \in Execs, StepOf(e),
         jobs' = jobs \/ (pc[e] # "idle" /\ Owns(e)),
         Inside(e)' /\ Owns(e)' => CrawlOf(e)'
  PROVE  CrawlInv'
  <1> SUFFICES ASSUME NEW f \in Execs, Inside(f)', Owns(f)' PROVE CrawlOf(f)'
    BY DEF CrawlInv
  <1>1. CASE f = e
    BY <1>1
  <1>2. CASE f # e
    <2>1. pc'[f] = pc[f] /\ mem'[f] = mem[f] /\ pc[f] # "idle"
      BY <1>2 DEF StepOf, Inside, InsideLoop
    <2>2. claimed'[f] = claimed[f] /\ chunk_seq' = chunk_seq
      BY <2>1 DEF StepOf, LeaseKept
    <2>3. Owns(f) /\ Inside(f)
      BY <2>1, <2>2 DEF StepOf, Owns, Inside
    <2>4. jobs' = jobs
      BY <1>2, <2>1, <2>3 DEF Owns, LeaseInv
    <2>5. CrawlOf(f)
      BY <2>3 DEF CrawlInv
    <2> QED
      BY <2>1, <2>4, <2>5 DEF CrawlOf, InFlight
  <1> QED
    BY <1>1, <1>2

\* A commit that adds no job keeps the jobs covered.
LEMMA CommitKeepsJobs ==
  ASSUME TypeInv, JobInv, NEW e \in Execs, NEW row \in Saved, CommitOwned(e, row),
         jobs' = jobs, row.imported = saved.imported,
         \A p \in Pages : jobs[p] = 1 => row.visited[p] \in {"job", "failed"}
  PROVE  JobInv'
  <1>1. saved' = row /\ status # Gone
    BY DEF CommitOwned, Owns, Gone
  <1> QED
    BY <1>1 DEF JobInv

LEMMA NoCommitKeepsJobs ==
  ASSUME JobInv, jobs' = jobs, saved' = saved, status = Gone => status' = Gone
  PROVE  JobInv'
  BY DEF JobInv

LEMMA PersistedFields ==
  ASSUME TypeInv, NEW m
  PROVE  Persisted(m).visited = m.visited /\ Persisted(m).imported = saved.imported
  BY DEF TypeInv, TypeOK, Saved, Persisted

-----------------------------------------------------------------------------
(* The steps, one lemma for those that argue alike                         *)

\* The execution ends, writing what it remembers or nothing at all.
LEMMA EndCrawl ==
  ASSUME RunInv, NEW e \in Execs,
         \/ CancelBeforeStart(e) \/ FailSetup(e) \/ ObserveCancel(e)
         \/ ResendPendingChildren(e) \/ SendContinuation(e) \/ LeaseLost(e)
         \/ Crash(e) \/ FailAfterException(e)
  PROVE  CrawlInv' /\ JobInv'
  <1>1. Ack(e) /\ UNCHANGED <<chunk_seq, jobs>>
    BY DEF CancelBeforeStart, CancelRun, FailSetup, FailRun, ObserveCancel, Crash, LeaseLost,
           ResendPendingChildren, SendContinuation, FailAfterException, rowVars, jobVars
  <1>2. status' = "RUNNING" => status = "RUNNING"
    BY DEF CancelBeforeStart, CancelRun, FailSetup, FailRun, ObserveCancel, Crash, LeaseLost,
           ResendPendingChildren, SendContinuation, FailAfterException, rowVars, Gone
  <1>3. CrawlInv'
    <2>1. StepOf(e) /\ ~Inside(e)'
      BY <1>1, <1>2, AckStep DEF RunInv
    <2> QED
      BY <1>1, <2>1, StepCrawl DEF RunInv
  <1>4. CASE CancelBeforeStart(e) \/ FailSetup(e) \/ ObserveCancel(e)
    <2>1. CommitOwned(e, Persisted(mem[e])) /\ Inside(e)
      BY <1>4 DEF CancelBeforeStart, FailSetup, ObserveCancel, CancelRun, FailRun, Inside, InsideLoop
    <2>2. CrawlOf(e)
      BY <2>1 DEF RunInv, CrawlInv, CommitOwned
    <2>3. Persisted(mem[e]) \in Saved
      BY MemType, PersistedType DEF RunInv, TypeInv
    <2>4. JobInv'
      BY <1>1, <2>1, <2>2, <2>3, PersistedFields, CommitKeepsJobs DEF RunInv, CrawlOf
    <2> QED
      BY <1>3, <2>4
  <1>5. CASE \/ ResendPendingChildren(e) \/ SendContinuation(e) \/ LeaseLost(e)
             \/ Crash(e) \/ FailAfterException(e)
    <2>1. saved' = saved /\ (status = Gone => status' = Gone)
      BY <1>5 DEF ResendPendingChildren, SendContinuation, LeaseLost, Crash, FailAfterException, rowVars
    <2> QED
      BY <1>1, <1>3, <2>1, NoCommitKeepsJobs DEF RunInv
  <1> QED
    BY <1>4, <1>5

\* The execution leaves the crawl, or only its program counter moves.
LEMMA LeaveCrawl ==
  ASSUME RunInv, NEW e \in Execs,
         EndRun(e) \/ EndChunk(e) \/ Resume(e) \/ Uncaught(e) \/ ReadAfterException(e)
  PROVE  CrawlInv' /\ JobInv'
  <1>1. UNCHANGED <<chunk_seq, jobs>> /\ (status' = "RUNNING" => status = "RUNNING") /\ pc[e] # "idle"
    BY DEF EndRun, FinalizeRun, EndChunk, Resume, Uncaught, ReadAfterException, rowVars, jobVars
  <1>2. CASE EndRun(e) \/ EndChunk(e)
    <2>1. PICK q \in {"backstop", "more"} : Goto(e, q)
      BY <1>2 DEF EndRun, FinalizeRun, EndChunk
    <2>2. UNCHANGED mem /\ CommitOwned(e, Persisted(mem[e])) /\ pc[e] = "loop"
      BY <1>2 DEF EndRun, FinalizeRun, EndChunk
    <2>3. StepOf(e) /\ ~Inside(e)'
      BY <1>1, <2>1, <2>2, GotoStep DEF RunInv, PCs, Inside, InsideLoop
    <2>4. CrawlInv'
      BY <1>1, <2>3, StepCrawl DEF RunInv
    <2>5. CrawlOf(e)
      BY <2>2 DEF RunInv, CrawlInv, CommitOwned, Inside, InsideLoop
    <2>6. Persisted(mem[e]) \in Saved
      BY MemType, PersistedType DEF RunInv, TypeInv
    <2>7. JobInv'
      BY <1>1, <2>2, <2>5, <2>6, PersistedFields, CommitKeepsJobs DEF RunInv, CrawlOf
    <2> QED
      BY <2>4, <2>7
  <1>3. CASE Resume(e)
    <2>1. Goto(e, "loop") /\ UNCHANGED <<mem, rowVars>> /\ pc[e] = "setup"
      BY <1>3 DEF Resume
    <2>2. StepOf(e) /\ pc'[e] = "loop"
      BY <1>1, <2>1, GotoStep DEF RunInv, PCs
    <2>3. Owns(e)' => Owns(e)
      BY <2>1, <2>2 DEF Owns, Goto, rowVars
    <2>4. Owns(e)' => CrawlOf(e)'
      BY <1>1, <2>1, <2>2, <2>3 DEF RunInv, CrawlInv, CrawlOf, Inside
    <2>5. CrawlInv'
      BY <1>1, <2>2, <2>4, StepCrawl DEF RunInv
    <2> QED
      BY <1>1, <2>1, <2>5, NoCommitKeepsJobs DEF RunInv, rowVars
  <1>4. CASE Uncaught(e)
    <2>1. EmptyMem \in Mem
      BY FS_EmptySet, ConstantsAssumption DEF Mem, Frontiers, EmptyMem, Mark, Entry, NoEntry
    <2>2. Goto(e, "raised") /\ Remember(e, EmptyMem) /\ UNCHANGED rowVars
      BY <1>4 DEF Uncaught
    <2>3. StepOf(e) /\ ~Inside(e)'
      BY <1>1, <2>1, <2>2, GotoStep DEF RunInv, PCs, Inside, InsideLoop
    <2> QED
      BY <1>1, <2>2, <2>3, StepCrawl, NoCommitKeepsJobs DEF RunInv, rowVars
  <1>5. CASE ReadAfterException(e)
    <2>1. (Goto(e, "failing") /\ UNCHANGED mem) \/ Ack(e)
      BY <1>5 DEF ReadAfterException
    <2>2. UNCHANGED rowVars
      BY <1>5 DEF ReadAfterException
    <2>3. StepOf(e) /\ ~Inside(e)'
      BY <1>1, <2>1, GotoStep, AckStep DEF RunInv, PCs, Inside, InsideLoop
    <2> QED
      BY <1>1, <2>2, <2>3, StepCrawl, NoCommitKeepsJobs DEF RunInv, rowVars
  <1> QED
    BY <1>2, <1>3, <1>4, <1>5

LEMMA PoppedFields ==
  ASSUME TypeInv, NEW e \in Execs, NEW x \in mem[e].frontier, PopPage(e, x)
  PROVE  /\ mem'[e].visited = mem[e].visited
         /\ IF mem[e].visited[x.id] # "no" THEN pc'[e] = "loop" ELSE mem'[e].page = x
  <1>1. mem[e] \in Mem /\ mem \in [Execs -> Mem] /\ pc \in [Execs -> PCs]
    BY DEF TypeInv, TypeOK
  <1>2. CASE mem[e].visited[x.id] # "no"
    <2>1. mem'[e] = [mem[e] EXCEPT !.frontier = @ \ {x}] /\ pc'[e] = "loop"
      BY <1>1, <1>2 DEF PopPage, Goto, Remember
    <2>2. mem'[e].visited = mem[e].visited
      BY <1>1, <2>1 DEF Mem
    <2> QED
      BY <1>2, <2>1, <2>2
  <1>3. CASE mem[e].visited[x.id] = "no"
    <2> DEFINE g == mem[e].frontier \ {x}
               k == mem[e].pages + 1
    <2>1. mem'[e] = [mem[e] EXCEPT !.frontier = g, !.page = x, !.pages = k]
      BY <1>1, <1>3 DEF PopPage, Remember
    <2> HIDE DEF g, k
    <2>2. mem'[e].visited = mem[e].visited /\ mem'[e].page = x
      BY <1>1, <2>1 DEF Mem
    <2> QED
      BY <1>3, <2>2
  <1> QED
    BY <1>2, <1>3

\* Steps inside the crawl that commit nothing.
LEMMA ReadCrawl ==
  ASSUME RunInv, NEW e \in Execs,
         \/ \E x \in mem[e].frontier : PopPage(e, x)
         \/ FetchPage(e) \/ EnqueueChild(e)
  PROVE  CrawlInv' /\ JobInv'
  <1>1. UNCHANGED <<chunk_seq, jobs, status, saved>> /\ pc[e] # "idle" /\ Inside(e)
    BY DEF PopPage, FetchPage, EnqueueChild, rowVars, jobVars, Inside, InsideLoop
  <1>2. TypeInv' /\ TypeInv
    BY LoopTypeInv, FetchTypeInv, AttachmentTypeInv DEF RunInv
  <1>3. PICK q \in PCs : Goto(e, q)
    BY AfterPageType DEF PopPage, FetchPage, EnqueueChild, PCs
  <1>4. StepOf(e) /\ pc'[e] = q
    <2>1. \A f \in Execs \ {e} : mem'[f] = mem[f]
      BY <1>2 DEF PopPage, FetchPage, EnqueueChild, Remember, TypeInv, TypeOK
    <2>2. pc'[e] = q /\ \A f \in Execs \ {e} : pc'[f] = pc[f]
      BY <1>2, <1>3 DEF Goto, TypeInv, TypeOK
    <2> QED
      BY <1>1, <1>2, <1>3, <2>1, <2>2, GotoKeepsLease DEF StepOf, TypeInv
  <1>5. ASSUME Owns(e)' PROVE CrawlOf(e)'
    <2>1. Owns(e)
      BY <1>1, <1>3, <1>5 DEF Owns, Goto
    <2>2. CrawlOf(e)
      BY <1>1, <2>1 DEF RunInv, CrawlInv
    <2>3. mem[e] \in Mem
      BY <1>2, MemType DEF TypeInv
    <2>4. ASSUME NEW x \in mem[e].frontier, PopPage(e, x) PROVE CrawlOf(e)'
      <3>1. x.id \in Pages
        BY <1>2, MemType DEF Entry, TypeInv
      <3>2. /\ mem'[e].visited = mem[e].visited
            /\ IF mem[e].visited[x.id] # "no" THEN pc'[e] = "loop" ELSE mem'[e].page = x
        BY <1>2, <2>4, PoppedFields
      <3>3. CASE mem[e].visited[x.id] # "no"
        BY <1>1, <2>2, <3>2, <3>3 DEF CrawlOf
      <3>4. CASE mem[e].visited[x.id] = "no"
        <4>1. jobs[x.id] = 0
          BY <2>2, <3>1, <3>4 DEF CrawlOf, RunInv, JobInv
        <4> QED
          BY <1>1, <2>2, <3>2, <3>4, <4>1 DEF CrawlOf, InFlight
      <3> QED
        BY <3>3, <3>4
    <2>5. CASE FetchPage(e)
      <3>1. InFlight(e) \in Pages
        BY <1>2, MemType DEF TypeInv
      <3>2. jobs[InFlight(e)] = 0
        BY <2>2, <2>5 DEF CrawlOf, FetchPage
      <3>3. mem'[e].page = mem[e].page
        BY <1>2, <2>3, <2>5 DEF FetchPage, Remember, TypeInv, TypeOK, Mem
      <3>4. \A p \in Pages : p # InFlight(e) => mem'[e].visited[p] = mem[e].visited[p]
        BY <1>2, <2>3, <2>5 DEF FetchPage, Remember, TypeInv, TypeOK, Mem
      <3> QED
        BY <1>1, <2>2, <3>2, <3>3, <3>4 DEF CrawlOf, InFlight
    <2>6. CASE EnqueueChild(e)
      <3>1. pc'[e] \notin {"fetch", "page"} /\ mem' = mem
        BY <1>2, <2>6 DEF EnqueueChild, Goto, AfterPage, TypeInv, TypeOK
      <3> QED
        BY <1>1, <2>2, <3>1 DEF CrawlOf
    <2> QED
      BY <2>4, <2>5, <2>6
  <1> QED
    BY <1>1, <1>4, <1>5, StepCrawl, NoCommitKeepsJobs DEF RunInv

\* What the crawl steps that commit without adding a job have in common.
LEMMA CommitCrawl ==
  ASSUME RunInv, NEW e \in Execs, Inside(e), NEW m \in Mem, NEW row \in Saved,
         CommitOwned(e, row), Remember(e, m), UNCHANGED <<chunk_seq, jobs, status>>,
         row.visited = m.visited, row.imported = saved.imported,
         NEW q \in PCs \ {"fetch", "page"}, Goto(e, q),
         \A p \in Pages : jobs[p] = 1 => m.visited[p] \in {"job", "failed"}
  PROVE  CrawlInv' /\ JobInv'
  <1>1. pc[e] # "idle"
    BY DEF Inside, InsideLoop
  <1>2. StepOf(e) /\ pc'[e] = q
    BY <1>1, GotoStep DEF RunInv
  <1>3. mem'[e] = m
    BY DEF Remember, RunInv, TypeInv, TypeOK
  <1>4. CrawlOf(e)'
    BY <1>2, <1>3 DEF CrawlOf
  <1>5. CrawlInv'
    BY <1>2, <1>4, StepCrawl DEF RunInv
  <1>6. JobInv'
    BY CommitKeepsJobs DEF RunInv
  <1> QED
    BY <1>5, <1>6

\* The owner's memory, at a point from which it commits.
LEMMA OwnerKnows ==
  ASSUME RunInv, NEW e \in Execs, Inside(e), Owns(e)
  PROVE  /\ CrawlOf(e) /\ mem[e] \in Mem /\ mem \in [Execs -> Mem] /\ saved \in Saved
         /\ InFlight(e) \in Pages /\ mem[e].visited \in [Pages -> Mark]
         /\ \A p \in Pages : jobs[p] = 1 => mem[e].visited[p] \in {"job", "failed"}
  <1>1. CrawlOf(e)
    BY DEF RunInv, CrawlInv
  <1> QED
    BY <1>1, MemType DEF CrawlOf, RunInv, TypeInv, TypeOK

LEMMA SeedCrawl ==
  ASSUME RunInv, NEW e \in Execs, SeedFrontier(e)
  PROVE  CrawlInv' /\ JobInv'
  <1>1. Inside(e) /\ Owns(e) /\ UNCHANGED <<chunk_seq, jobs, status>>
    BY DEF SeedFrontier, CommitOwned, Inside, jobVars
  <1> DEFINE g   == IF mem[e].frontier = {} THEN {NoEntry} ELSE mem[e].frontier
             m   == [mem[e] EXCEPT !.frontier = g]
             row == [Persisted(m) EXCEPT !.discovered = Cardinality(m.frontier)]
  <1>2. CommitOwned(e, row) /\ Remember(e, m) /\ Goto(e, "loop")
    BY DEF SeedFrontier
  <1>3. g \in Frontiers
    <2>1. NoEntry \in Entry
      BY ConstantsAssumption DEF NoEntry, Entry
    <2> QED
      BY <2>1, MemType, FS_Singleton DEF Frontiers, RunInv, TypeInv
  <1>4. m \in Mem /\ m.frontier = g /\ m.visited = mem[e].visited
    <2> HIDE DEF g
    <2> QED
      BY <1>1, <1>3, OwnerKnows, FrontierMemType DEF Mem
  <1>5. Cardinality(m.frontier) \in Nat
    BY <1>3, <1>4, FS_CardinalityType DEF Frontiers
  <1> HIDE DEF m
  <1>6. row \in Saved /\ row.visited = m.visited /\ row.imported = saved.imported
    <2>1. Persisted(m) \in Saved
      BY <1>4, PersistedType DEF RunInv, TypeInv
    <2> QED
      BY <1>5, <2>1, PersistedFields DEF RunInv, Saved
  <1> HIDE DEF row
  <1>7. \A p \in Pages : jobs[p] = 1 => m.visited[p] \in {"job", "failed"}
    BY <1>1, <1>4, OwnerKnows
  <1> QED
    BY <1>1, <1>2, <1>4, <1>6, <1>7, CommitCrawl DEF PCs

LEMMA NoteCrawl ==
  ASSUME RunInv, NEW e \in Execs, HitByteCap(e) \/ FailPage(e)
  PROVE  CrawlInv' /\ JobInv'
  <1>1. Inside(e) /\ Owns(e) /\ UNCHANGED <<chunk_seq, jobs, status>> /\ Goto(e, "loop")
    BY DEF HitByteCap, FailPage, CommitOwned, Inside, InsideLoop, jobVars
  <1>2. CASE HitByteCap(e)
    <2> DEFINE m == [mem[e] EXCEPT !.frontier = {}, !.errors = @ \cup {InFlight(e)}]
    <2>1. CommitOwned(e, Persisted(m)) /\ Remember(e, m)
      BY <1>2 DEF HitByteCap
    <2>2. {} \in Frontiers
      BY FS_EmptySet DEF Frontiers
    <2>3. m \in Mem /\ m.visited = mem[e].visited
      BY <1>1, <2>2, OwnerKnows DEF Mem
    <2> HIDE DEF m
    <2>4. Persisted(m) \in Saved
      BY <2>3, PersistedType DEF RunInv, TypeInv
    <2>5. Persisted(m).visited = m.visited /\ Persisted(m).imported = saved.imported
      BY PersistedFields DEF RunInv
    <2>6. \A p \in Pages : jobs[p] = 1 => m.visited[p] \in {"job", "failed"}
      BY <1>1, <2>3, OwnerKnows
    <2> QED
      BY <1>1, <2>1, <2>3, <2>4, <2>5, <2>6, CommitCrawl DEF PCs
  <1>3. CASE FailPage(e)
    <2> DEFINE n == [mem[e] EXCEPT !.visited[InFlight(e)] = "failed"]
               m == [mem[e] EXCEPT !.visited[InFlight(e)] = "failed",
                                   !.errors = @ \cup {InFlight(e)}]
               row == [Persisted(m) EXCEPT !.failed = @ + 1]
    <2>1. CommitOwned(e, row) /\ Remember(e, m)
      BY <1>3 DEF FailPage
    <2>2. n \in Mem
      BY MarkedMemType DEF Mark, RunInv, TypeInv
    <2>3. m = [n EXCEPT !.errors = @ \cup {InFlight(e)}]
      BY <1>1, OwnerKnows DEF Mem
    <2>4. \A p \in Pages : n.visited[p] \in {mem[e].visited[p], "failed"}
      BY <1>1, OwnerKnows DEF Mem
    <2> HIDE DEF n
    <2>5. m \in Mem /\ m.visited = n.visited
      BY <1>1, <2>2, <2>3, OwnerKnows, NotedMemType DEF Mem
    <2> HIDE DEF m
    <2>6. row \in Saved /\ row.visited = m.visited /\ row.imported = saved.imported
      <3>1. Persisted(m) \in Saved
        BY <2>5, PersistedType DEF RunInv, TypeInv
      <3> QED
        BY <3>1, PersistedFields DEF RunInv, Saved
    <2> HIDE DEF row
    <2>7. \A p \in Pages : jobs[p] = 1 => m.visited[p] \in {"job", "failed"}
      BY <1>1, <2>4, <2>5, OwnerKnows
    <2> QED
      BY <1>1, <2>1, <2>5, <2>6, <2>7, CommitCrawl DEF PCs
  <1> QED
    BY <1>2, <1>3

LEMMA AppendedVisited ==
  ASSUME TypeOK, NEW e \in Execs, NEW new
  PROVE  Appended(e, new).visited = mem[e].visited
  BY MemType DEF Appended, Mem

LEMMA DiscoverCrawl ==
  ASSUME RunInv, NEW e \in Execs, NEW new \in SUBSET Fresh(e),
         DiscoverChildren(e, new) \/ ListingFails(e, new)
  PROVE  CrawlInv' /\ JobInv'
  <1>1. Inside(e) /\ Owns(e)
    BY DEF DiscoverChildren, ListingFails, CommitDiscovered, CommitOwned, Inside, InsideLoop
  <1>2. Appended(e, new) \in Mem /\ Cardinality(new) \in Nat /\ InFlight(e) \in Pages
        /\ Appended(e, new).visited = mem[e].visited
    BY AppendedType, AppendedVisited, MemType DEF RunInv, TypeInv
  <1> DEFINE noted == [Appended(e, new) EXCEPT !.errors = @ \cup {InFlight(e)}]
  <1>3. noted \in Mem /\ noted.visited = mem[e].visited
    BY <1>2, NotedMemType DEF Mem
  <1>4. PICK m \in Mem : CommitDiscovered(e, m, new) /\ m.visited = mem[e].visited
    BY <1>2, <1>3 DEF DiscoverChildren, ListingFails
  <1> HIDE DEF noted
  <1> DEFINE row == [Persisted(m) EXCEPT !.discovered = @ + Cardinality(new)]
  <1>5. row \in Saved /\ row.visited = m.visited /\ row.imported = saved.imported
    <2>1. Persisted(m) \in Saved
      BY PersistedType DEF RunInv, TypeInv
    <2> QED
      BY <1>2, <2>1, PersistedFields DEF RunInv, Saved
  <1>6. /\ CommitOwned(e, row) /\ Remember(e, m) /\ Goto(e, "loop")
        /\ UNCHANGED <<chunk_seq, jobs, status>>
    BY <1>4 DEF CommitDiscovered, jobVars
  <1> HIDE DEF row
  <1>7. \A p \in Pages : jobs[p] = 1 => m.visited[p] \in {"job", "failed"}
    BY <1>1, <1>4, OwnerKnows
  <1> QED
    BY <1>1, <1>5, <1>6, <1>7, CommitCrawl DEF PCs

LEMMA SoftLimitCrawl ==
  ASSUME RunInv, NEW e \in Execs, NEW new \in SUBSET Fresh(e), SoftTimeLimit(e, new)
  PROVE  CrawlInv' /\ JobInv'
  <1>1. Inside(e) /\ Owns(e) /\ UNCHANGED <<chunk_seq, jobs, status>> /\ Goto(e, "more")
    BY DEF SoftTimeLimit, CommitOwned, Inside, jobVars
  <1> DEFINE a == Appended(e, new)
             m == AfterSoftLimit(e, a)
  <1>2. a \in Mem /\ a.visited = mem[e].visited /\ m \in Mem
    BY AppendedType, AppendedVisited, SoftLimitMemType DEF RunInv, TypeInv
  <1>3. CommitOwned(e, Persisted(m)) /\ Remember(e, m)
    BY DEF SoftTimeLimit
  <1>4. \A p \in Pages : jobs[p] = 1 => m.visited[p] \in {"job", "failed"}
    <2> HIDE DEF a
    <2>1. CASE PageIsInFlight(e) /\ Unprocessed(e)
      <3> DEFINE g == a.frontier \cup {mem[e].page}
      <3>1. m = [a EXCEPT !.visited[InFlight(e)] = "no", !.frontier = g]
        BY <2>1 DEF AfterSoftLimit, Reinserted
      <3> HIDE DEF g, m
      <3>2. \A p \in Pages : p # InFlight(e) => m.visited[p] = a.visited[p]
        BY <1>2, <3>1 DEF Mem
      <3>3. jobs[InFlight(e)] # 1
        BY <1>1, <2>1, OwnerKnows DEF Unprocessed, Phantom
      <3> QED
        BY <1>1, <1>2, <3>2, <3>3, OwnerKnows
    <2>2. CASE PageIsInFlight(e) /\ ~Unprocessed(e)
      <3>1. m = [a EXCEPT !.errors = @ \cup {InFlight(e)}]
        BY <2>2 DEF AfterSoftLimit
      <3> HIDE DEF m
      <3>2. m.visited = a.visited
        BY <1>2, <3>1 DEF Mem
      <3> QED
        BY <1>1, <1>2, <3>2, OwnerKnows
    <2>3. CASE ~PageIsInFlight(e)
      BY <1>1, <1>2, <2>3, OwnerKnows DEF AfterSoftLimit
    <2> QED
      BY <2>1, <2>2, <2>3
  <1> HIDE DEF m
  <1>5. Persisted(m) \in Saved
    BY <1>2, PersistedType DEF RunInv, TypeInv
  <1>6. Persisted(m).visited = m.visited /\ Persisted(m).imported = saved.imported
    BY PersistedFields DEF RunInv
  <1> QED
    BY <1>1, <1>2, <1>3, <1>4, <1>5, <1>6, CommitCrawl DEF PCs

LEMMA UnchangedCrawl ==
  ASSUME RunInv, NEW e \in Execs, CommitUnchanged(e) \/ CommitAttachments(e)
  PROVE  CrawlInv' /\ JobInv'
  <1>1. Inside(e) /\ Owns(e) /\ UNCHANGED <<chunk_seq, jobs, status>>
    BY DEF CommitUnchanged, CommitAttachments, CommitOwned, Inside, InsideLoop, jobVars
  <1>2. PICK q \in PCs \ {"fetch", "page"} : Goto(e, q)
    BY DEF CommitUnchanged, CommitAttachments, AfterPage, PCs
  <1>3. CommitOwned(e, Persisted(mem[e])) /\ Remember(e, mem[e])
    BY <1>1, OwnerKnows DEF CommitUnchanged, CommitAttachments, Remember
  <1>4. Persisted(mem[e]) \in Saved
    BY <1>1, OwnerKnows, PersistedType DEF RunInv, TypeInv
  <1>5. Persisted(mem[e]).visited = mem[e].visited /\ Persisted(mem[e]).imported = saved.imported
    BY PersistedFields DEF RunInv
  <1> QED
    BY <1>1, <1>2, <1>3, <1>4, <1>5, OwnerKnows, CommitCrawl

\* The step that adds a job: the owner's memory shows the page is new.
LEMMA PageCrawl ==
  ASSUME RunInv, NEW e \in Execs, CommitPage(e) \/ HeartbeatAttachment(e)
  PROVE  CrawlInv' /\ JobInv' /\ jobs[InFlight(e)] = 0 /\ status = "RUNNING"
  <1> DEFINE row == [Persisted(mem[e]) EXCEPT !.imported = @ + 1]
             p0  == InFlight(e)
  <1>1. /\ Inside(e) /\ Owns(e) /\ pc[e] = "page" /\ mem[e].visited[p0] = "job"
        /\ CommitOwned(e, row) /\ jobs' = [jobs EXCEPT ![p0] = @ + 1]
        /\ UNCHANGED <<mem, chunk_seq, status>>
    BY DEF CommitPage, HeartbeatAttachment, CommitImported, CommitOwned, Inside, InsideLoop
  <1>2. PICK q \in PCs \ {"fetch", "page"} : Goto(e, q)
    BY DEF CommitPage, HeartbeatAttachment, AfterPage, PCs
  <1>3. p0 \in Pages /\ jobs[p0] = 0 /\ jobs \in [Pages -> Nat]
    BY <1>1, OwnerKnows DEF CrawlOf, RunInv, TypeInv, TypeOK
  <1>4. jobs'[p0] = 1 /\ \A p \in Pages : p # p0 => jobs'[p] = jobs[p]
    BY <1>1, <1>3
  <1>5. \A p \in Pages : jobs'[p] = 1 => mem[e].visited[p] \in {"job", "failed"}
    BY <1>1, <1>4, OwnerKnows
  <1>6. StepOf(e) /\ pc'[e] = q
    BY <1>1, <1>2, GotoStep DEF RunInv
  <1>7. CrawlInv'
    <2>1. CrawlOf(e)'
      BY <1>1, <1>5, <1>6 DEF CrawlOf
    <2> QED
      BY <1>1, <1>6, <2>1, StepCrawl DEF RunInv, Inside, InsideLoop
  <1>8. row.visited = mem[e].visited /\ row.imported = saved.imported + 1
    <2>1. Persisted(mem[e]) \in Saved
      BY <1>1, OwnerKnows, PersistedType DEF RunInv, TypeInv
    <2> QED
      BY <2>1, PersistedFields DEF RunInv, Saved
  <1>9. JobInv'
    <2> DEFINE old == {p \in Pages : jobs[p] = 1}
               new == {p \in Pages : jobs'[p] = 1}
    <2>1. \A p \in Pages : jobs'[p] \in {0, 1}
      BY <1>3, <1>4 DEF RunInv, JobInv
    <2>2. new = old \cup {p0} /\ p0 \notin old
      BY <1>3, <1>4
    <2>3. IsFiniteSet(old)
      BY FS_Subset, ConstantsAssumption
    <2>4. Cardinality(new) = Cardinality(old) + 1
      BY <2>2, <2>3, FS_AddElement
    <2>5. saved.imported = Cardinality(old)
      BY <1>1 DEF RunInv, JobInv, Owns, Gone
    <2>6. saved' = row
      BY <1>1 DEF CommitOwned
    <2> HIDE DEF row, old
    <2> QED
      BY <1>5, <1>8, <2>1, <2>4, <2>5, <2>6 DEF JobInv
  <1> QED
    BY <1>1, <1>3, <1>7, <1>9 DEF Owns

\* A claim reads the stored crawl, and takes the lease from everyone else.
LEMMA ClaimCrawl ==
  ASSUME RunInv, NEW e \in Execs, NEW s \in queue, ClaimChunk(e, s)
  PROVE  CrawlInv' /\ JobInv'
  <1>1. /\ UNCHANGED <<saved, jobs>> /\ chunk_seq' = chunk_seq + 1 /\ chunk_seq \in Nat
        /\ pc'[e] = "setup" /\ mem'[e] = Loaded
        /\ \A f \in Execs \ {e} : pc'[f] = pc[f] /\ claimed'[f] = claimed[f] /\ claimed[f] \in Nat
    BY DEF ClaimChunk, NextSeq, Remember, RunInv, TypeInv, TypeOK, jobVars
  <1>2. CrawlOf(e)'
    BY <1>1 DEF CrawlOf, Loaded, RunInv, JobInv
  <1>3. ASSUME NEW f \in Execs, f # e, Inside(f)' PROVE ~Owns(f)'
    <2>1. pc[f] # "idle"
      BY <1>1, <1>3 DEF Inside, InsideLoop
    <2>2. claimed[f] <= chunk_seq
      BY <2>1 DEF RunInv, LeaseInv
    <2> QED
      BY <1>1, <1>3, <2>2 DEF Owns
  <1>4. status # Gone
    BY DEF ClaimChunk, CanClaim, CanReclaim, Active, Gone
  <1> QED
    BY <1>1, <1>2, <1>3, <1>4, NoCommitKeepsJobs DEF CrawlInv, RunInv

\* Steps of the surroundings: the executions stay where they are.
LEMMA OutsideCrawl ==
  ASSUME RunInv,
         \/ \E e \in Execs, s \in queue : IgnoreMessage(e, s)
         \/ \E e \in Execs : Redeliver(e)
         \/ HeartbeatLapses \/ RequeueAfterRestart
         \/ \E p \in Pages : TakeChild(p)
         \/ \E a \in Callers : Serve(a)
         \/ UNCHANGED vars
  PROVE  CrawlInv' /\ JobInv'
  <1>1. /\ UNCHANGED <<pc, claimed, mem, chunk_seq, saved>>
        /\ status' = "RUNNING" => status = "RUNNING"
        /\ status = Gone => status' = Gone
    BY DEF IgnoreMessage, Redeliver, HeartbeatLapses, RequeueAfterRestart, TakeChild, Serve,
           ApiRead, ForceCancel, RequestCancel, ReapStaleRun, DeleteRun, WriteToDeletedRun,
           vars, rowVars, execVars, Gone
  <1>2. jobs' = jobs \/ (jobs' = [p \in Pages |-> 0] /\ status' = Gone)
    BY DEF IgnoreMessage, Redeliver, HeartbeatLapses, RequeueAfterRestart, TakeChild, Serve,
           ApiRead, ForceCancel, RequestCancel, ReapStaleRun, DeleteRun, WriteToDeletedRun,
           vars, jobVars
  <1>3. CASE jobs' = jobs
    <2>1. CrawlInv'
      BY <1>1, <1>3 DEF RunInv, CrawlInv, CrawlOf, Inside, Owns, InFlight
    <2> QED
      BY <1>1, <1>3, <2>1, NoCommitKeepsJobs DEF RunInv
  <1>4. CASE jobs' = [p \in Pages |-> 0] /\ status' = Gone
    <2>1. \A p \in Pages : jobs'[p] = 0
      BY <1>4
    <2> QED
      BY <1>4, <2>1 DEF CrawlInv, JobInv, Owns, Gone
  <1> QED
    BY <1>2, <1>3, <1>4

-----------------------------------------------------------------------------
(* What a step can do to the run as its user sees it                       *)

\* An execution writes the row or the jobs only as the owner, except that the
\* handler of uncaught exceptions fails the run without asking for the lease.
ExecEffect(e) ==
  /\ api' = api
  /\ \/ UNCHANGED <<status, saved, jobs>>
     \/ Owns(e) /\ jobs' = jobs /\ status' \in {status} \cup Terminal
     \/ Owns(e) /\ status' = status /\ (CommitPage(e) \/ HeartbeatAttachment(e))
     \/ FailAfterException(e)

LEMMA ExecEffects ==
  ASSUME NEW e \in Execs, Work(e) \/ Disturb(e)
  PROVE  ExecEffect(e)
  <1>1. CASE CancelBeforeStart(e) \/ FailSetup(e) \/ ObserveCancel(e) \/ EndRun(e)
    BY <1>1 DEF CancelBeforeStart, ObserveCancel, CancelRun, FailSetup, FailRun, EndRun,
                FinalizeRun, CommitOwned, ExecEffect, jobVars, Terminal
  <1>2. CASE SeedFrontier(e) \/ EndChunk(e) \/ CommitUnchanged(e) \/ CommitAttachments(e)
    BY <1>2 DEF SeedFrontier, EndChunk, CommitUnchanged, CommitAttachments, CommitOwned,
                ExecEffect, jobVars
  <1>3. CASE HitByteCap(e) \/ FailPage(e)
    BY <1>3 DEF HitByteCap, FailPage, CommitOwned, ExecEffect, jobVars
  <1>4. CASE \E new \in SUBSET Fresh(e) :
               DiscoverChildren(e, new) \/ ListingFails(e, new) \/ SoftTimeLimit(e, new)
    BY <1>4 DEF DiscoverChildren, ListingFails, CommitDiscovered, SoftTimeLimit, CommitOwned,
                ExecEffect, jobVars
  <1>5. CASE CommitPage(e) \/ HeartbeatAttachment(e)
    BY <1>5 DEF CommitPage, HeartbeatAttachment, CommitImported, CommitOwned, ExecEffect
  <1>6. CASE FailAfterException(e)
    BY <1>6 DEF FailAfterException, ExecEffect
  <1>7. CASE \/ Resume(e) \/ (\E x \in mem[e].frontier : PopPage(e, x)) \/ FetchPage(e)
             \/ SendContinuation(e) \/ ResendPendingChildren(e) \/ EnqueueChild(e)
    BY <1>7 DEF Resume, PopPage, FetchPage, SendContinuation, ResendPendingChildren,
                EnqueueChild, ExecEffect, rowVars, jobVars
  <1>8. CASE \/ LeaseLost(e) \/ Uncaught(e) \/ ReadAfterException(e) \/ Crash(e) \/ Redeliver(e)
    BY <1>8 DEF LeaseLost, Uncaught, ReadAfterException, Crash, Redeliver, ExecEffect,
                rowVars, jobVars
  <1> QED
    BY <1>1, <1>2, <1>3, <1>4, <1>5, <1>6, <1>7, <1>8 DEF Work, Disturb

\* A request ends the run, deletes it, or leaves status and jobs alone.
ServeEffect(a) ==
  /\ saved' = saved
  /\ \/ status' = status /\ jobs' = jobs
     \/ status # Gone /\ status' \in Terminal /\ jobs' = jobs
     \/ DeleteRun(a)

LEMMA ServeEffects ==
  ASSUME NEW a \in Callers, Serve(a)
  PROVE  ServeEffect(a)
  BY DEF Serve, ApiRead, ForceCancel, RequestCancel, ReapStaleRun, DeleteRun, WriteToDeletedRun,
         ServeEffect, rowVars, jobVars, Terminal

\* A claim makes an active run RUNNING; the rest of the system leaves it alone.
LEMMA OtherEffects ==
  ASSUME \/ \E e \in Execs : Deliver(e)
         \/ HeartbeatLapses \/ RequeueAfterRestart \/ (\E p \in Pages : TakeChild(p))
         \/ UNCHANGED vars
  PROVE  /\ UNCHANGED <<api, saved, jobs>>
         /\ status' = status \/ (status \in Active /\ status' = "RUNNING")
  BY DEF Deliver, ClaimChunk, CanClaim, CanReclaim, IgnoreMessage, HeartbeatLapses,
         RequeueAfterRestart, TakeChild, vars, rowVars, jobVars, Active

\* No ended run becomes active again.
LEMMA StaysEnded ==
  ASSUME [Next]_vars, status \notin Active
  PROVE  status' \notin Active
  <1>1. ASSUME NEW e \in Execs, Work(e) \/ Disturb(e) PROVE status' \notin Active
    BY <1>1, ExecEffects DEF ExecEffect, FailAfterException, Active, Terminal, Gone
  <1>2. ASSUME NEW a \in Callers, Serve(a) PROVE status' \notin Active
    BY <1>2, ServeEffects DEF ServeEffect, DeleteRun, Active, Terminal, Gone
  <1> QED
    BY <1>1, <1>2, OtherEffects DEF Next

LEMMA StepRequestInv ==
  ASSUME RequestInv, TypeOK, [Next]_vars
  PROVE  RequestInv'
  <1>1. ASSUME NEW a \in Callers, Serve(a) PROVE RequestInv'
    <2>1. \A b \in Callers \ {a} : api'[b] = api[b]
      BY <1>1 DEF Serve, ApiRead, ForceCancel, RequestCancel, ReapStaleRun, DeleteRun,
                  WriteToDeletedRun, Answer, TypeOK
    <2>2. api'[a] \in {"delete", "purge"} => status' \notin Active
      <3>1. ASSUME NEW op \in Ops, ApiRead(a, op),
                   op \in {"delete", "purge"}
            PROVE  status \in Terminal /\ status' = status
        BY <3>1 DEF ApiRead, MayRequest, rowVars
      <3>2. ASSUME NEW op \in Ops, ApiRead(a, op)
            PROVE  api'[a] = op
        BY <3>2 DEF ApiRead, TypeOK
      <3>3. CASE \/ ForceCancel(a) \/ RequestCancel(a) \/ ReapStaleRun(a)
                 \/ DeleteRun(a) \/ WriteToDeletedRun(a)
        <4>1. api'[a] = "done"
          BY <3>3 DEF ForceCancel, RequestCancel, ReapStaleRun, DeleteRun, WriteToDeletedRun,
                      Answer, TypeOK
        <4> QED
          BY <4>1
      <3> QED
        BY <1>1, <3>1, <3>2, <3>3 DEF Serve, Active, Terminal
    <2> QED
      BY <2>1, <2>2, StaysEnded DEF RequestInv
  <1>2. CASE api' = api
    BY <1>2, StaysEnded DEF RequestInv
  <1> QED
    BY <1>1, <1>2, ExecEffects, OtherEffects DEF Next, ExecEffect

LEMMA StepRunInv == RunInv /\ [Next]_vars => RunInv'
  <1> SUFFICES ASSUME RunInv, [Next]_vars PROVE RunInv'
    OBVIOUS
  <1>1. CrawlInv' /\ JobInv'
    <2>1. ASSUME NEW e \in Execs, Work(e) PROVE CrawlInv' /\ JobInv'
      BY <2>1, EndCrawl, LeaveCrawl, ReadCrawl, SeedCrawl, DiscoverCrawl, UnchangedCrawl,
         PageCrawl DEF Work
    <2>2. ASSUME NEW e \in Execs, Disturb(e) PROVE CrawlInv' /\ JobInv'
      BY <2>2, EndCrawl, LeaveCrawl, NoteCrawl, DiscoverCrawl, SoftLimitCrawl,
         OutsideCrawl DEF Disturb
    <2> QED
      BY <2>1, <2>2, ClaimCrawl, OutsideCrawl DEF Next, Deliver
  <1> QED
    BY <1>1, StepTypeInv, StepLeaseInv, StepRequestInv DEF RunInv, TypeInv

LEMMA RunInvariant == Spec => []RunInv
  BY InitRunInv, StepRunInv, PTL DEF Spec

-----------------------------------------------------------------------------
(* The results                                                             *)

(* Every page has at most one job of the run, pages_imported counts them,  *)
(* and the stored crawl knows each: no redelivery, reclaim, crash or soft  *)
(* limit makes _import_one_page commit a page a second time.               *)
THEOREM ImportsOnce == Spec => []ImportedOnce
  <1>1. RunInv => ImportedOnce
    BY DEF RunInv, JobInv, ImportedOnce
  <1> QED
    BY <1>1, RunInvariant, PTL

(* One execution at a time crawls a run and each page becomes a job once:  *)
(* the lease of _claim_chunk and the guard of _commit_owned together.      *)
THEOREM CrawlsOnce == Spec => []CrawledOnce
BY LeaseExclusive, ImportsOnce, PTL DEF CrawledOnce

(* An ended run stays ended, and no late execution, redelivered message or *)
(* request writes a page or a crawl state into it.                         *)
THEOREM EndedIsFinal == Spec => TerminalIsFinal
  <1>1. ASSUME RunInv, [Next]_vars, status \in Terminal
        PROVE  /\ status' \in Terminal \cup {Gone}
               /\ saved' = saved
               /\ status' # Gone => jobs' = jobs
    <2>1. \A e \in Execs : ~Owns(e)
      BY <1>1 DEF Owns, Terminal
    <2>2. ASSUME NEW e \in Execs, Work(e) \/ Disturb(e)
          PROVE  /\ status' \in Terminal \cup {Gone}
                 /\ UNCHANGED <<saved, jobs>>
      BY <1>1, <2>1, <2>2, ExecEffects
         DEF ExecEffect, FailAfterException, jobVars, Terminal
    <2>3. ASSUME NEW a \in Callers, Serve(a)
          PROVE  /\ status' \in Terminal \cup {Gone}
                 /\ saved' = saved
                 /\ status' # Gone => jobs' = jobs
      BY <1>1, <2>3, ServeEffects DEF ServeEffect, DeleteRun
    <2> QED
      BY <1>1, <2>2, <2>3, OtherEffects DEF Next, Active, Terminal
  <1>2. RunInv /\ [Next]_vars =>
          [(status \in Terminal) =>
             /\ status' \in Terminal \cup {Gone}
             /\ saved' = saved
             /\ status' # Gone => jobs' = jobs]_vars
    BY <1>1
  <1> QED
    BY <1>2, RunInvariant, PTL DEF Spec, TerminalIsFinal

(* The chunked task with its leases, duplicates and requests implements the *)
(* promise: each step imports one new page of an active run, ends the run,  *)
(* deletes an ended one, or changes nothing the user can see.               *)
THEOREM RefinesPromise == Spec => KeepsPromise
  <1>1. Init => Promise!PromiseInit
    BY DEF Init, Promise!PromiseInit, Phase, Active, Terminal, Gone
  <1>2. ASSUME RunInv, [Next]_vars
        PROVE  [Promise!PromiseNext]_(Promise!promiseVars)
    <2> USE DEF Promise!promiseVars, Promise!PromiseNext
    <2>1. status \in Active \cup Terminal \cup {Gone} /\ status' \in Active \cup Terminal \cup {Gone}
      BY <1>2, StepTypeInv DEF RunInv, TypeInv, TypeOK
    <2>2. ASSUME status # Gone, jobs' = jobs, status' \in Terminal
          PROVE  Promise!EndRun \/ (UNCHANGED Phase /\ jobs' = jobs)
      BY <2>1, <2>2 DEF Promise!EndRun, Phase, Active, Terminal, Gone
    <2>3. ASSUME NEW e \in Execs, Work(e) \/ Disturb(e)
          PROVE  [Promise!PromiseNext]_(Promise!promiseVars)
      <3>1. CASE UNCHANGED <<status, saved, jobs>>
        BY <3>1 DEF Phase
      <3>2. CASE Owns(e) /\ jobs' = jobs /\ status' \in {status} \cup Terminal
        <4>1. status # Gone
          BY <3>2 DEF Owns, Gone
        <4> QED
          BY <2>2, <3>2, <4>1 DEF Phase
      <3>3. CASE Owns(e) /\ status' = status /\ (CommitPage(e) \/ HeartbeatAttachment(e))
        <4>1. jobs[InFlight(e)] = 0 /\ InFlight(e) \in Pages
          BY <1>2, <3>3, PageCrawl, MemType DEF RunInv, TypeInv
        <4>2. jobs' = [jobs EXCEPT ![InFlight(e)] = 1]
          BY <3>3, <4>1 DEF CommitPage, HeartbeatAttachment, CommitImported
        <4>3. Phase = "active" /\ UNCHANGED Phase
          BY <3>3 DEF Phase, Active, Terminal, Gone, Owns
        <4>4. Promise!ImportPage(InFlight(e))
          BY <4>1, <4>2, <4>3 DEF Promise!ImportPage
        <4> QED
          BY <4>1, <4>4
      <3>4. CASE FailAfterException(e)
        <4>1. jobs' = jobs
          BY <3>4 DEF FailAfterException, jobVars
        <4>2. (status = Gone /\ status' = Gone) \/ (status # Gone /\ status' \in Terminal)
          BY <3>4 DEF FailAfterException, Terminal
        <4> QED
          BY <2>2, <4>1, <4>2 DEF Phase
      <3> QED
        BY <2>3, <3>1, <3>2, <3>3, <3>4, ExecEffects DEF ExecEffect
    <2>4. ASSUME NEW a \in Callers, Serve(a)
          PROVE  [Promise!PromiseNext]_(Promise!promiseVars)
      <3>1. CASE status' = status /\ jobs' = jobs
        BY <3>1 DEF Phase
      <3>2. CASE status # Gone /\ status' \in Terminal /\ jobs' = jobs
        BY <2>2, <3>2
      <3>3. CASE DeleteRun(a)
        <4>1. status \notin Active /\ status # Gone /\ status' = Gone
          BY <1>2, <3>3 DEF DeleteRun, RunInv, RequestInv
        <4>2. Phase = "ended" /\ Phase' = "deleted"
          BY <2>1, <4>1 DEF Phase, Active, Terminal, Gone
        <4>3. jobs' \in {jobs, [p \in Pages |-> 0]}
          BY <3>3 DEF DeleteRun, jobVars
        <4> QED
          BY <4>2, <4>3 DEF Promise!DeleteRun
      <3> QED
        BY <2>4, <3>1, <3>2, <3>3, ServeEffects DEF ServeEffect
    <2>5. ASSUME jobs' = jobs, status' = status \/ (status \in Active /\ status' = "RUNNING")
          PROVE  [Promise!PromiseNext]_(Promise!promiseVars)
      BY <2>5 DEF Phase, Active, Terminal, Gone
    <2> QED
      BY <1>2, <2>3, <2>4, <2>5, OtherEffects DEF Next
  <1> QED
    BY <1>1, <1>2, RunInvariant, PTL DEF Spec, KeepsPromise, Promise!PromiseSpec

-----------------------------------------------------------------------------
(* Nothing is forgotten: what the run has listed it visits, the cap on     *)
(* imported pages holds, and a finished run has handed over its children.  *)
(* The crawl lives in the memory of its owner between two commits, so what *)
(* is stored and what is remembered are followed together.                 *)

Listed          == {p \in Pages : subtree[p] = "listed"}
Known(crawl)    == Visited(crawl.visited) \cup Ids(crawl.frontier)
Recorded(crawl) == \A p \in crawl.errors : crawl.visited[p] # "no"

\* A crawl knows every child of the pages S, except of those that are taken
\* from its frontier, or a byte cap has emptied the frontier: then the page it
\* stopped at has an error and was not visited.
Covers(crawl, taken, S) ==
  /\ ~Recorded(crawl) => crawl.frontier = {}
  /\ Recorded(crawl) => \A p \in S : Kids[p] \subseteq Known(crawl) \cup taken

Unstarted(crawl) == crawl.errors = {} /\ Visited(crawl.visited) = {}

StoredInv ==
  /\ saved.discovered = 0 => Unstarted(saved) /\ Listed = {}
  /\ Covers(saved, {}, Listed)
  /\ saved.imported <= MaxPages
  /\ status = "FINISHED" => saved.frontier = {} \/ ~WithinPageCap

Taken(e) == IF pc[e] = "fetch" THEN {InFlight(e)} ELSE {}

RemembersOf(e) ==
  /\ saved.discovered = 0 => pc[e] = "setup" /\ Unstarted(mem[e])
  /\ Covers(mem[e], Taken(e), Listed)
  /\ ~Recorded(mem[e]) => pc[e] \in {"setup", "loop"}
  /\ pc[e] = "fetch" => mem[e].visited[InFlight(e)] = "no"
  /\ pc[e] = "page" => mem[e].visited[InFlight(e)] \in {"job", "prior"} /\ InFlight(e) \notin mem[e].errors
  /\ pc[e] \in {"attached", "enqueue", "discover"} => ~Unprocessed(e)
  /\ pc[e] \in {"fetch", "page"} => WithinPageCap

\* The owner's memory covers what was listed; others may be out of date.
RemembersInv == \A e \in Execs : Inside(e) /\ Owns(e) => RemembersOf(e)

CoverInv == RunInv /\ StoredInv /\ RemembersInv

LEMMA InitCoverInv == Init => CoverInv
<1> SUFFICES ASSUME Init PROVE CoverInv  OBVIOUS
<1>1. RunInv
  BY InitRunInv
<1>2. saved.errors = {} /\ Visited(saved.visited) = {} /\ saved.imported = 0
  BY DEF Init, Visited
<1>3. Listed = {}
  BY DEF Init, Listed
<1>4. StoredInv
  BY <1>2, <1>3, ConstantsAssumption DEF StoredInv, Unstarted, Covers, Recorded, Init
<1>5. RemembersInv
  BY DEF Init, RemembersInv, Inside, InsideLoop
<1>q. QED BY <1>1, <1>4, <1>5 DEF CoverInv

-----------------------------------------------------------------------------
(* What is common to the steps                                             *)

\* Only the owner writes the stored crawl and what became of the listings.
LEMMA StepRemembers ==
  ASSUME TypeInv, LeaseInv, RemembersInv, NEW e \in Execs, StepOf(e),
         UNCHANGED <<saved, subtree, jobs>> \/ (pc[e] # "idle" /\ Owns(e)),
         Inside(e)' /\ Owns(e)' => RemembersOf(e)'
  PROVE  RemembersInv'
<1> SUFFICES ASSUME NEW f \in Execs, Inside(f)', Owns(f)' PROVE RemembersOf(f)'
  BY DEF RemembersInv
<1>1. CASE f = e
  BY <1>1
<1>2. CASE f # e
  <2>1. pc'[f] = pc[f] /\ mem'[f] = mem[f] /\ pc[f] # "idle"
    BY <1>2 DEF StepOf, Inside, InsideLoop
  <2>2. claimed'[f] = claimed[f] /\ chunk_seq' = chunk_seq
    BY <2>1 DEF StepOf, LeaseKept
  <2>3. Owns(f) /\ Inside(f)
    BY <2>1, <2>2 DEF StepOf, Owns, Inside
  <2>4. UNCHANGED <<saved, subtree, jobs>>
    BY <1>2, <2>1, <2>3 DEF Owns, LeaseInv
  <2>5. RemembersOf(f)
    BY <2>3 DEF RemembersInv
  <2>q. QED BY <2>1, <2>4, <2>5 DEF RemembersOf, Taken, InFlight, Listed, WithinPageCap, Unprocessed, Phantom
<1>q. QED BY <1>1, <1>2

\* The stored crawl stays when a step neither writes it nor ends the run as finished.
LEMMA NoCommitKeepsStored ==
  ASSUME StoredInv, saved' = saved, subtree' = subtree, status' = "FINISHED" => status = "FINISHED"
  PROVE  StoredInv'
BY DEF StoredInv, Listed, WithinPageCap

\* A step that leaves the loop, or the run, without a commit.
LEMMA LeavesLoop ==
  ASSUME CoverInv, NEW e \in Execs, StepOf(e), ~Inside(e)',
         UNCHANGED <<saved, subtree>>, jobs' = jobs, status' = "FINISHED" => status = "FINISHED"
  PROVE  StoredInv' /\ RemembersInv'
<1>1. RemembersInv'
  BY StepRemembers DEF CoverInv, RunInv
<1>q. QED BY <1>1, NoCommitKeepsStored DEF CoverInv

\* What every commit of a crawl establishes.
LEMMA CommitStores ==
  ASSUME NEW row, NEW m, saved' = row,
         row.visited = m.visited, row.frontier = m.frontier, row.errors = m.errors,
         row.imported <= MaxPages, Covers(m, {}, Listed'),
         row.discovered = 0 => Unstarted(m) /\ Listed' = {},
         status' = "FINISHED" => m.frontier = {} \/ ~(row.imported < MaxPages)
  PROVE  StoredInv'
BY DEF StoredInv, Covers, Recorded, Known, Unstarted, WithinPageCap

LEMMA CommitRemembers ==
  ASSUME CoverInv, NEW e \in Execs, Inside(e), Owns(e), NEW m, mem'[e] = m,
         StepOf(e), pc'[e] \in {"loop", "more", "attached", "enqueue", "discover"},
         Covers(m, {}, Listed'), saved'.discovered # 0,
         pc'[e] \in {"attached", "enqueue", "discover"} => Recorded(m) /\ ~Unprocessed(e)'
  PROVE  RemembersInv'
<1>1. pc[e] # "idle"
  BY DEF Inside, InsideLoop
<1>2. ASSUME Inside(e)' PROVE RemembersOf(e)'
  <2>1. Taken(e)' = {}
    BY DEF Taken
  <2>2. Covers(mem[e], Taken(e), Listed)'
    BY <2>1 DEF Covers, Recorded, Known
  <2>3. ~Recorded(mem'[e]) => pc'[e] \in {"setup", "loop"}
    BY <1>2 DEF Inside, InsideLoop
  <2>q. QED BY <2>2, <2>3 DEF RemembersOf, Recorded
<1>q. QED BY <1>1, <1>2, StepRemembers DEF CoverInv, RunInv

-----------------------------------------------------------------------------
(* The steps, one lemma for those that argue alike                         *)

LEMMA RowFields ==
  ASSUME TypeInv, NEW m
  PROVE  LET row == Persisted(m)
         IN  /\ row.visited = m.visited /\ row.frontier = m.frontier /\ row.errors = m.errors
             /\ row.imported = saved.imported /\ row.discovered = saved.discovered
BY DEF TypeInv, TypeOK, Saved, Persisted

LEMMA OwnerRemembers ==
  ASSUME CoverInv, NEW e \in Execs, Inside(e), Owns(e)
  PROVE  /\ RemembersOf(e)
         /\ pc[e] # "fetch" => Covers(mem[e], {}, Listed)
         /\ pc[e] # "setup" => saved.discovered # 0
         /\ saved.imported <= MaxPages
         /\ saved.discovered = 0 => Unstarted(mem[e]) /\ Listed = {}
<1>1. RemembersOf(e)
  BY DEF CoverInv, RemembersInv
<1>2. pc[e] # "fetch" => Taken(e) = {}
  BY DEF Taken
<1>q. QED BY <1>1, <1>2 DEF RemembersOf, CoverInv, StoredInv

\* The execution ends, writing what it remembers or nothing at all.
LEMMA EndCovers ==
  ASSUME CoverInv, NEW e \in Execs,
         \/ CancelBeforeStart(e) \/ FailSetup(e) \/ ObserveCancel(e)
         \/ ResendPendingChildren(e) \/ SendContinuation(e) \/ LeaseLost(e)
         \/ Crash(e) \/ FailAfterException(e)
  PROVE  StoredInv' /\ RemembersInv'
<1>1. Ack(e) /\ UNCHANGED <<chunk_seq, jobs, subtree>>
  BY DEF CancelBeforeStart, CancelRun, FailSetup, FailRun, ObserveCancel, Crash, LeaseLost,
         ResendPendingChildren, SendContinuation, FailAfterException, rowVars, jobVars
<1>2. status' = "RUNNING" => status = "RUNNING"
  BY DEF CancelBeforeStart, CancelRun, FailSetup, FailRun, ObserveCancel, Crash, LeaseLost,
         ResendPendingChildren, SendContinuation, FailAfterException, rowVars, Gone
<1>3. StepOf(e) /\ ~Inside(e)'
  BY <1>1, <1>2, AckStep DEF CoverInv, RunInv
<1>4. CASE CancelBeforeStart(e) \/ FailSetup(e) \/ ObserveCancel(e)
  <2>1. /\ saved' = Persisted(mem[e]) /\ Owns(e) /\ pc[e] \in {"setup", "loop"}
        /\ status' \in {"CANCELLED", "FAILED"}
    BY <1>4 DEF CancelBeforeStart, FailSetup, ObserveCancel, CancelRun, FailRun, CommitOwned
  <2>2. Inside(e) /\ pc[e] # "fetch" /\ Listed' = Listed
    BY <1>1, <2>1 DEF Inside, InsideLoop, Listed
  <2>3. StoredInv'
    <3> DEFINE row == Persisted(mem[e])
    <3>1. /\ row.visited = mem[e].visited /\ row.frontier = mem[e].frontier /\ row.errors = mem[e].errors
          /\ row.imported = saved.imported /\ row.discovered = saved.discovered
      BY RowFields DEF CoverInv, RunInv
    <3> HIDE DEF row
    <3>2. /\ Covers(mem[e], {}, Listed) /\ saved.imported <= MaxPages
          /\ saved.discovered = 0 => Unstarted(mem[e]) /\ Listed = {}
      BY <2>1, <2>2, OwnerRemembers
    <3>3. saved' = row /\ status' # "FINISHED"
      BY <2>1 DEF row
    <3>q. QED BY <2>2, <3>1, <3>2, <3>3, CommitStores
  <2>4. RemembersInv'
    BY <1>1, <1>3, <2>1, <2>2, StepRemembers DEF CoverInv, RunInv
  <2>q. QED BY <2>3, <2>4
<1>5. CASE \/ ResendPendingChildren(e) \/ SendContinuation(e) \/ LeaseLost(e)
           \/ Crash(e) \/ FailAfterException(e)
  <2>1. saved' = saved /\ (status' = "FINISHED" => status = "FINISHED")
    BY <1>5 DEF ResendPendingChildren, SendContinuation, LeaseLost, Crash, FailAfterException, rowVars, Gone
  <2>q. QED BY <1>1, <1>3, <2>1, LeavesLoop
<1>q. QED BY <1>4, <1>5

\* The execution leaves the crawl, or only its program counter moves.
LEMMA LeaveCovers ==
  ASSUME CoverInv, NEW e \in Execs,
         EndRun(e) \/ EndChunk(e) \/ Resume(e) \/ Uncaught(e) \/ ReadAfterException(e)
  PROVE  StoredInv' /\ RemembersInv'
<1>1. /\ UNCHANGED <<chunk_seq, jobs, subtree>> /\ (status' = "RUNNING" => status = "RUNNING")
      /\ pc[e] # "idle"
  BY DEF EndRun, FinalizeRun, EndChunk, Resume, Uncaught, ReadAfterException, rowVars, jobVars
<1>2. CASE EndRun(e) \/ EndChunk(e)
  <2>1. PICK q \in {"backstop", "more"} : Goto(e, q)
    BY <1>2 DEF EndRun, FinalizeRun, EndChunk
  <2>2. UNCHANGED mem /\ saved' = Persisted(mem[e]) /\ Owns(e) /\ pc[e] = "loop"
    BY <1>2 DEF EndRun, FinalizeRun, EndChunk, CommitOwned
  <2>3. StepOf(e) /\ ~Inside(e)'
    BY <1>1, <2>1, <2>2, GotoStep DEF CoverInv, RunInv, PCs, Inside, InsideLoop
  <2>4. Inside(e) /\ Listed' = Listed
    BY <1>1, <2>2 DEF Inside, InsideLoop, Listed
  <2>5. status' = "FINISHED" => mem[e].frontier = {} \/ ~(saved.imported < MaxPages)
    BY <1>2 DEF EndRun, EndChunk, MorePages, WithinPageCap, CommitOwned, Owns
  <2>6. StoredInv'
    <3> DEFINE row == Persisted(mem[e])
    <3>1. /\ row.visited = mem[e].visited /\ row.frontier = mem[e].frontier /\ row.errors = mem[e].errors
          /\ row.imported = saved.imported /\ row.discovered = saved.discovered
      BY RowFields DEF CoverInv, RunInv
    <3> HIDE DEF row
    <3>2. /\ Covers(mem[e], {}, Listed) /\ saved.imported <= MaxPages
          /\ saved.discovered = 0 => Unstarted(mem[e]) /\ Listed = {}
      BY <2>2, <2>4, OwnerRemembers
    <3>3. saved' = row
      BY <2>2 DEF row
    <3>q. QED BY <2>4, <2>5, <3>1, <3>2, <3>3, CommitStores
  <2>7. RemembersInv'
    BY <1>1, <2>2, <2>3, StepRemembers DEF CoverInv, RunInv
  <2>q. QED BY <2>6, <2>7
<1>3. CASE Resume(e)
  <2>1. Goto(e, "loop") /\ UNCHANGED <<mem, rowVars>> /\ pc[e] = "setup" /\ ~FirstChunk(e)
    BY <1>3 DEF Resume
  <2>2. StepOf(e) /\ pc'[e] = "loop"
    BY <1>1, <2>1, GotoStep DEF CoverInv, RunInv, PCs
  <2>3. Owns(e)' => Owns(e) /\ Inside(e)
    BY <2>1, <2>2 DEF Owns, Goto, rowVars, Inside
  <2>4. ASSUME Owns(e)' PROVE RemembersOf(e)'
    <3>1. RemembersOf(e)
      BY <2>3, <2>4, OwnerRemembers
    <3>2. saved.discovered # 0
      BY <2>1, <3>1 DEF RemembersOf, Unstarted, FirstChunk
    <3>3. Taken(e)' = {} /\ Taken(e) = {}
      BY <2>1, <2>2 DEF Taken
    <3>4. UNCHANGED <<saved, mem, Listed>>
      BY <1>1, <2>1 DEF rowVars, Listed
    <3>q. QED BY <2>2, <3>1, <3>2, <3>3, <3>4 DEF RemembersOf
  <2>5. RemembersInv'
    BY <1>1, <2>1, <2>2, <2>4, StepRemembers DEF CoverInv, RunInv, rowVars
  <2>q. QED BY <1>1, <2>1, <2>5, NoCommitKeepsStored DEF CoverInv, rowVars
<1>4. CASE Uncaught(e)
  <2>1. EmptyMem \in Mem
    BY FS_EmptySet, ConstantsAssumption DEF Mem, Frontiers, EmptyMem, Mark, Entry, NoEntry
  <2>2. Goto(e, "raised") /\ Remember(e, EmptyMem) /\ UNCHANGED rowVars
    BY <1>4 DEF Uncaught
  <2>3. StepOf(e) /\ ~Inside(e)'
    BY <1>1, <2>1, <2>2, GotoStep DEF CoverInv, RunInv, PCs, Inside, InsideLoop
  <2>q. QED BY <1>1, <2>2, <2>3, LeavesLoop DEF rowVars
<1>5. CASE ReadAfterException(e)
  <2>1. (Goto(e, "failing") /\ UNCHANGED mem) \/ Ack(e)
    BY <1>5 DEF ReadAfterException
  <2>2. UNCHANGED rowVars
    BY <1>5 DEF ReadAfterException
  <2>3. StepOf(e) /\ ~Inside(e)'
    BY <1>1, <2>1, GotoStep, AckStep DEF CoverInv, RunInv, PCs, Inside, InsideLoop
  <2>q. QED BY <1>1, <2>2, <2>3, LeavesLoop DEF rowVars
<1>q. QED BY <1>2, <1>3, <1>4, <1>5

\* A step inside the crawl that commits nothing.
LEMMA MovesInside ==
  ASSUME CoverInv, NEW e \in Execs, Inside(e), UNCHANGED <<chunk_seq, status, saved, subtree, jobs>>,
         NEW q \in PCs, Goto(e, q), UNCHANGED mem \/ \E m \in Mem : Remember(e, m),
         Owns(e) /\ pc'[e] = q => RemembersOf(e)'
  PROVE  StoredInv' /\ RemembersInv'
<1>1. pc[e] # "idle"
  BY DEF Inside, InsideLoop
<1>2. StepOf(e) /\ pc'[e] = q
  BY <1>1, GotoStep DEF CoverInv, RunInv
<1>3. Owns(e)' => Owns(e)
  BY DEF Owns, Goto
<1>4. RemembersInv'
  BY <1>1, <1>2, <1>3, StepRemembers DEF CoverInv, RunInv
<1>q. QED BY <1>4, NoCommitKeepsStored DEF CoverInv

LEMMA PopCovers ==
  ASSUME CoverInv, NEW e \in Execs, NEW x \in mem[e].frontier, PopPage(e, x)
  PROVE  StoredInv' /\ RemembersInv'
<1>1. /\ UNCHANGED <<chunk_seq, jobs, status, saved, subtree>> /\ pc[e] = "loop" /\ Inside(e)
      /\ WithinPageCap /\ mem[e].frontier # {}
  BY DEF PopPage, rowVars, jobVars, Inside, InsideLoop, LoopGoesOn
<1>2. x \in Entry /\ x.id \in Pages /\ mem[e] \in Mem /\ mem \in [Execs -> Mem]
  BY MemType DEF Entry, CoverInv, RunInv, TypeInv, TypeOK
<1> DEFINE g == mem[e].frontier \ {x}
           k == mem[e].pages + 1
           m1 == [mem[e] EXCEPT !.frontier = g]
           m2 == [mem[e] EXCEPT !.frontier = g, !.page = x, !.pages = k]
<1>3. g \in Frontiers /\ k \in Nat
  BY <1>2, FS_Subset DEF Mem, Frontiers
<1>4. m1 \in Mem /\ m2 \in Mem
  <2> HIDE DEF g, k
  <2>q. QED BY <1>2, <1>3 DEF Mem
<1>5. /\ m1.frontier = g /\ m1.visited = mem[e].visited /\ m1.errors = mem[e].errors
      /\ m2.frontier = g /\ m2.visited = mem[e].visited /\ m2.errors = mem[e].errors /\ m2.page = x
  <2> HIDE DEF g, k
  <2>q. QED BY <1>2 DEF Mem
<1>6. Ids(mem[e].frontier) \subseteq Ids(g) \cup {x.id}
  BY DEF Ids
<1>7. CASE mem[e].visited[x.id] # "no"
  <2>1. Goto(e, "loop") /\ Remember(e, m1)
    BY <1>7 DEF PopPage
  <2>2. ASSUME Owns(e), pc'[e] = "loop" PROVE RemembersOf(e)'
    <3>1. RemembersOf(e) /\ Covers(mem[e], {}, Listed) /\ saved.discovered # 0
      BY <1>1, <2>2, OwnerRemembers
    <3>2. mem'[e] = m1
      BY <1>2, <2>1 DEF Remember
    <3>3. Taken(e)' = {} /\ Listed' = Listed
      BY <1>1, <2>2 DEF Taken, Listed
    <3> HIDE DEF g
    <3>4. g = {} \/ Recorded(mem[e])
      BY <1>1, <3>1 DEF Covers
    <3>5. Recorded(m1) <=> Recorded(mem[e])
      BY <1>5 DEF Recorded
    <3>6. Known(mem[e]) \subseteq Known(m1)
      <4>1. x.id \in Visited(mem[e].visited)
        BY <1>2, <1>7 DEF Visited
      <4>q. QED BY <1>5, <1>6, <4>1 DEF Known
    <3> HIDE DEF m1
    <3>7. Covers(m1, {}, Listed)
      BY <1>5, <3>1, <3>4, <3>5, <3>6 DEF Covers
    <3>8. Covers(mem[e], Taken(e), Listed)'
      BY <3>2, <3>3, <3>7 DEF Covers, Recorded, Known
    <3>q. QED BY <1>1, <2>2, <3>1, <3>8 DEF RemembersOf
  <2> HIDE DEF m1
  <2>q. QED BY <1>1, <1>4, <2>1, <2>2, MovesInside DEF PCs
<1>8. CASE mem[e].visited[x.id] = "no"
  <2>1. Goto(e, "fetch") /\ Remember(e, m2)
    BY <1>8 DEF PopPage
  <2>2. ASSUME Owns(e), pc'[e] = "fetch" PROVE RemembersOf(e)'
    <3>1. RemembersOf(e) /\ Covers(mem[e], {}, Listed) /\ saved.discovered # 0
      BY <1>1, <2>2, OwnerRemembers
    <3>2. mem'[e] = m2
      BY <1>2, <2>1 DEF Remember
    <3>3. Taken(e)' = {x.id} /\ Listed' = Listed /\ InFlight(e)' = x.id
      BY <1>1, <1>5, <2>2, <3>2 DEF Taken, Listed, InFlight
    <3> HIDE DEF g
    <3>4. Recorded(mem[e])
      BY <1>1, <3>1 DEF Covers
    <3>5. Recorded(m2)
      BY <1>5, <3>4 DEF Recorded
    <3>6. Known(mem[e]) \subseteq Known(m2) \cup {x.id}
      BY <1>5, <1>6 DEF Known
    <3>7. m2.visited[x.id] = "no"
      BY <1>5, <1>8
    <3> HIDE DEF m2
    <3>8. Covers(m2, {x.id}, Listed)
      BY <3>1, <3>4, <3>5, <3>6 DEF Covers
    <3>9. Covers(mem[e], Taken(e), Listed)'
      BY <3>2, <3>3, <3>8 DEF Covers, Recorded, Known
    <3>q. QED BY <1>1, <2>2, <3>1, <3>2, <3>3, <3>5, <3>7, <3>9 DEF RemembersOf, WithinPageCap, Recorded
  <2> HIDE DEF m2
  <2>q. QED BY <1>1, <1>4, <2>1, <2>2, MovesInside DEF PCs
<1>q. QED BY <1>7, <1>8

LEMMA FetchCovers ==
  ASSUME CoverInv, NEW e \in Execs, FetchPage(e)
  PROVE  StoredInv' /\ RemembersInv'
<1>1. UNCHANGED <<chunk_seq, jobs, status, saved, subtree>> /\ pc[e] = "fetch" /\ Inside(e)
  BY DEF FetchPage, rowVars, jobVars, Inside, InsideLoop
<1> DEFINE p == InFlight(e)
           k == IF p \in Unchanged THEN "prior" ELSE "job"
           m == [mem[e] EXCEPT !.visited[p] = k]
<1>2. /\ k \in {"job", "prior"} /\ p \in Pages /\ mem[e] \in Mem /\ mem \in [Execs -> Mem]
      /\ mem[e].visited \in [Pages -> Mark] /\ m \in Mem
  <2>1. k \in Mark
    BY DEF Mark
  <2>q. QED BY <2>1, MemType, MarkedMemType DEF CoverInv, RunInv, TypeInv, TypeOK
<1>3. Goto(e, "page") /\ Remember(e, m)
  BY DEF FetchPage
<1>4. /\ m.frontier = mem[e].frontier /\ m.errors = mem[e].errors /\ m.page = mem[e].page
      /\ m.visited[p] = k /\ \A r \in Pages : r # p => m.visited[r] = mem[e].visited[r]
  <2> HIDE DEF k
  <2>q. QED BY <1>2 DEF Mem
<1>5. ASSUME Owns(e), pc'[e] = "page" PROVE RemembersOf(e)'
  <2>1. /\ Recorded(mem[e]) /\ saved.discovered # 0 /\ WithinPageCap
        /\ mem[e].visited[p] = "no" /\ Covers(mem[e], {p}, Listed)
    BY <1>1, <1>5, OwnerRemembers DEF RemembersOf, Taken
  <2>2. mem'[e] = m
    BY <1>2, <1>3 DEF Remember
  <2>3. Taken(e)' = {} /\ Listed' = Listed /\ InFlight(e)' = p
    BY <1>1, <1>4, <1>5, <2>2 DEF Taken, Listed, InFlight
  <2>4. p \notin m.errors
    BY <1>4, <2>1 DEF Recorded
  <2>5. Recorded(m)
    <3>1. m.errors \subseteq Pages
      BY <1>2 DEF Mem
    <3>q. QED BY <1>4, <2>1, <2>4, <3>1 DEF Recorded
  <2>6. Known(mem[e]) \cup {p} \subseteq Known(m)
    BY <1>2, <1>4 DEF Known, Visited
  <2> HIDE DEF m
  <2>7. Covers(m, {}, Listed)
    BY <2>1, <2>5, <2>6 DEF Covers
  <2>8. Covers(mem[e], Taken(e), Listed)'
    BY <2>2, <2>3, <2>7 DEF Covers, Recorded, Known
  <2> HIDE DEF p
  <2>q. QED BY <1>1, <1>2, <1>4, <1>5, <2>1, <2>2, <2>3, <2>4, <2>5, <2>8 DEF RemembersOf, WithinPageCap, Recorded
<1> HIDE DEF m
<1>q. QED BY <1>1, <1>2, <1>3, <1>5, MovesInside DEF PCs

LEMMA EnqueueCovers ==
  ASSUME CoverInv, NEW e \in Execs, EnqueueChild(e)
  PROVE  StoredInv' /\ RemembersInv'
<1>1. /\ UNCHANGED <<chunk_seq, jobs, status, saved, subtree, mem>> /\ pc[e] = "enqueue" /\ Inside(e)
      /\ AfterPage(e) \in PCs /\ AfterPage(e) \in {"discover", "loop"} /\ Goto(e, AfterPage(e))
  BY DEF EnqueueChild, rowVars, jobVars, Inside, InsideLoop, AfterPage, PCs
<1>2. ASSUME Owns(e), pc'[e] = AfterPage(e) PROVE RemembersOf(e)'
  <2>1. RemembersOf(e) /\ saved.discovered # 0
    BY <1>1, <1>2, OwnerRemembers
  <2>2. Taken(e)' = Taken(e) /\ Listed' = Listed
    BY <1>1, <1>2 DEF Taken, Listed
  <2>3. Unprocessed(e)' = Unprocessed(e)
    BY <1>1 DEF Unprocessed, Phantom, InFlight
  <2>q. QED BY <1>1, <1>2, <2>1, <2>2, <2>3 DEF RemembersOf
<1>q. QED BY <1>1, <1>2, MovesInside

\* What the crawl steps that commit the memory m have in common.
LEMMA CommitCovers ==
  ASSUME CoverInv, NEW e \in Execs, Inside(e), NEW m \in Mem, NEW row,
         CommitOwned(e, row), Remember(e, m), UNCHANGED <<chunk_seq, status>>,
         row.visited = m.visited, row.frontier = m.frontier, row.errors = m.errors,
         row.imported <= MaxPages, row.discovered # 0, Covers(m, {}, Listed'),
         NEW q \in {"loop", "more", "attached", "enqueue", "discover"}, Goto(e, q),
         q \in {"attached", "enqueue", "discover"} => Recorded(m) /\ ~Unprocessed(e)'
  PROVE  StoredInv' /\ RemembersInv'
<1>1. pc[e] # "idle" /\ Owns(e) /\ saved' = row /\ q \in PCs /\ status' # "FINISHED"
  BY DEF Inside, InsideLoop, CommitOwned, Owns, PCs
<1>2. StepOf(e) /\ pc'[e] = q
  BY <1>1, GotoStep DEF CoverInv, RunInv
<1>3. mem'[e] = m
  BY DEF Remember, CoverInv, RunInv, TypeInv, TypeOK
<1>4. StoredInv'
  BY <1>1, CommitStores
<1>5. RemembersInv'
  BY <1>1, <1>2, <1>3, CommitRemembers
<1>q. QED BY <1>4, <1>5

LEMMA SubtreeListed ==
  ASSUME TypeInv, NEW p \in Pages
  PROVE  /\ NoteOwedSubtree(p) => Listed' = Listed
         /\ \A what \in {"owed", "capped", "noted"} : MarkSubtree(p, what) => Listed' \subseteq Listed
         /\ MarkSubtree(p, "listed") => Listed' \subseteq Listed \cup {p}
BY DEF NoteOwedSubtree, MarkSubtree, Listed, TypeInv, TypeOK

LEMMA FewerCovers ==
  ASSUME NEW m, NEW t, NEW S, NEW T \in SUBSET S, Covers(m, t, S)
  PROVE  Covers(m, t, T)
BY DEF Covers

LEMMA SeedCovers ==
  ASSUME CoverInv, NEW e \in Execs, SeedFrontier(e)
  PROVE  StoredInv' /\ RemembersInv'
<1>1. /\ Inside(e) /\ Owns(e) /\ UNCHANGED <<chunk_seq, status, subtree>> /\ pc[e] = "setup"
      /\ saved.discovered = 0
  BY DEF SeedFrontier, CommitOwned, Inside, FirstChunk
<1> DEFINE g   == IF mem[e].frontier = {} THEN {NoEntry} ELSE mem[e].frontier
           m   == [mem[e] EXCEPT !.frontier = g]
           row == [Persisted(m) EXCEPT !.discovered = Cardinality(m.frontier)]
<1>2. CommitOwned(e, row) /\ Remember(e, m) /\ Goto(e, "loop")
  BY DEF SeedFrontier
<1>3. g \in Frontiers /\ g # {}
  <2>1. NoEntry \in Entry
    BY ConstantsAssumption DEF NoEntry, Entry
  <2>q. QED BY <2>1, MemType, FS_Singleton DEF Frontiers, CoverInv, RunInv, TypeInv
<1>4. m \in Mem /\ m.frontier = g /\ m.visited = mem[e].visited /\ m.errors = mem[e].errors
  <2> HIDE DEF g
  <2>1. mem[e] \in Mem
    BY MemType DEF CoverInv, RunInv, TypeInv
  <2>q. QED BY <1>3, <2>1, FrontierMemType DEF Mem
<1>5. Cardinality(m.frontier) # 0
  <2>1. IsFiniteSet(m.frontier) /\ m.frontier # {}
    BY <1>3, <1>4 DEF Frontiers
  <2> HIDE DEF m
  <2>q. QED BY <2>1, FS_EmptySet
<1>6. Unstarted(mem[e]) /\ Listed = {} /\ Listed' = {} /\ saved.imported <= MaxPages
  BY <1>1, OwnerRemembers DEF Listed
<1>7. Covers(m, {}, Listed')
  BY <1>4, <1>6 DEF Covers, Recorded, Unstarted
<1> HIDE DEF m
<1>8. /\ row.visited = m.visited /\ row.frontier = m.frontier /\ row.errors = m.errors
      /\ row.imported = saved.imported /\ row.discovered = Cardinality(m.frontier)
  <2>1. Persisted(m) \in Saved
    BY <1>4, PersistedType DEF CoverInv, RunInv, TypeInv
  <2>q. QED BY <2>1, RowFields DEF CoverInv, RunInv, Saved
<1> HIDE DEF row
<1>q. QED BY <1>1, <1>2, <1>4, <1>5, <1>6, <1>7, <1>8, CommitCovers

LEMMA ByteCapCovers ==
  ASSUME CoverInv, NEW e \in Execs, HitByteCap(e)
  PROVE  StoredInv' /\ RemembersInv'
<1>1. Inside(e) /\ Owns(e) /\ UNCHANGED <<chunk_seq, status, subtree>> /\ pc[e] = "fetch" /\ Goto(e, "loop")
  BY DEF HitByteCap, CommitOwned, Inside, InsideLoop
<1> DEFINE m == [mem[e] EXCEPT !.frontier = {}, !.errors = @ \cup {InFlight(e)}]
<1>2. CommitOwned(e, Persisted(m)) /\ Remember(e, m)
  BY DEF HitByteCap
<1>3. /\ m \in Mem /\ m.frontier = {} /\ m.visited = mem[e].visited /\ InFlight(e) \in m.errors
  <2>1. {} \in Frontiers
    BY FS_EmptySet DEF Frontiers
  <2>q. QED BY <2>1, MemType DEF Mem, CoverInv, RunInv, TypeInv
<1>4. RemembersOf(e) /\ saved.discovered # 0 /\ saved.imported <= MaxPages
  BY <1>1, OwnerRemembers
<1>5. ~Recorded(m)
  BY <1>1, <1>3, <1>4 DEF Recorded, RemembersOf
<1> DEFINE row == Persisted(m)
<1> HIDE DEF m
<1>6. /\ row.visited = m.visited /\ row.frontier = m.frontier /\ row.errors = m.errors
      /\ row.imported = saved.imported /\ row.discovered = saved.discovered
  BY RowFields DEF CoverInv, RunInv
<1>7. CommitOwned(e, row)
  BY <1>2
<1>8. Covers(m, {}, Listed')
  BY <1>3, <1>5 DEF Covers
<1> HIDE DEF row
<1>q. QED BY <1>1, <1>2, <1>3, <1>4, <1>6, <1>7, <1>8, CommitCovers

LEMMA FailPageCovers ==
  ASSUME CoverInv, NEW e \in Execs, FailPage(e)
  PROVE  StoredInv' /\ RemembersInv'
<1>1. /\ Inside(e) /\ Owns(e) /\ UNCHANGED <<chunk_seq, status>> /\ Goto(e, "loop")
      /\ pc[e] \in {"fetch", "page", "attached", "enqueue"} /\ NoteOwedSubtree(InFlight(e))
  BY DEF FailPage, CommitOwned, Inside, InsideLoop
<1> DEFINE p   == InFlight(e)
           n   == [mem[e] EXCEPT !.visited[p] = "failed"]
           m   == [mem[e] EXCEPT !.visited[p] = "failed", !.errors = @ \cup {p}]
           row == [Persisted(m) EXCEPT !.failed = @ + 1]
<1>2. CommitOwned(e, row) /\ Remember(e, m)
  BY DEF FailPage
<1>3. p \in Pages /\ mem[e] \in Mem /\ mem[e].visited \in [Pages -> Mark] /\ mem[e].errors \subseteq Pages
  BY MemType DEF CoverInv, RunInv, TypeInv
<1>4. n \in Mem
  BY MarkedMemType DEF Mark, CoverInv, RunInv, TypeInv
<1>5. /\ n.frontier = mem[e].frontier /\ n.errors = mem[e].errors
      /\ n.visited[p] = "failed" /\ \A r \in Pages : r # p => n.visited[r] = mem[e].visited[r]
  BY <1>3 DEF Mem
<1>6. m = [n EXCEPT !.errors = @ \cup {p}]
  BY <1>3 DEF Mem
<1> HIDE DEF n
<1>7. m \in Mem /\ m.visited = n.visited /\ m.frontier = n.frontier /\ m.errors = n.errors \cup {p}
  BY <1>3, <1>4, <1>6, NotedMemType DEF Mem
<1> HIDE DEF m
<1>8. /\ row.visited = m.visited /\ row.frontier = m.frontier /\ row.errors = m.errors
      /\ row.imported = saved.imported /\ row.discovered = saved.discovered
  <2>1. Persisted(m) \in Saved
    BY <1>7, PersistedType DEF CoverInv, RunInv, TypeInv
  <2>q. QED BY <2>1, RowFields DEF CoverInv, RunInv, Saved
<1> HIDE DEF row
<1>9. /\ RemembersOf(e) /\ saved.discovered # 0 /\ saved.imported <= MaxPages
  BY <1>1, OwnerRemembers
<1>10. Recorded(mem[e]) /\ Covers(mem[e], {p}, Listed)
  BY <1>1, <1>9 DEF RemembersOf, Covers, Taken
<1>11. Recorded(m)
  BY <1>3, <1>5, <1>7, <1>10 DEF Recorded
<1>12. Known(mem[e]) \cup {p} \subseteq Known(m)
  BY <1>3, <1>5, <1>7 DEF Known, Visited
<1>13. Listed' = Listed
  BY <1>1, <1>3, SubtreeListed DEF CoverInv, RunInv
<1>14. Covers(m, {}, Listed')
  BY <1>10, <1>11, <1>12, <1>13 DEF Covers
<1>q. QED BY <1>1, <1>2, <1>7, <1>8, <1>9, <1>14, CommitCovers

LEMMA AppendedFields ==
  ASSUME TypeOK, NEW e \in Execs, NEW new
  PROVE  LET a == Appended(e, new)
         IN  /\ a.visited = mem[e].visited /\ a.errors = mem[e].errors /\ a.page = mem[e].page
             /\ a.frontier = mem[e].frontier \cup {[id |-> c, depth |-> mem[e].page.depth + 1] : c \in new}
             /\ Ids(a.frontier) = Ids(mem[e].frontier) \cup new
<1> DEFINE a == Appended(e, new)
           g == {[id |-> c, depth |-> mem[e].page.depth + 1] : c \in new}
<1>1. /\ a.visited = mem[e].visited /\ a.errors = mem[e].errors /\ a.page = mem[e].page
      /\ a.frontier = mem[e].frontier \cup g
  <2>1. a = [mem[e] EXCEPT !.frontier = @ \cup g]
    BY DEF Appended
  <2> HIDE DEF a, g
  <2>q. QED BY <2>1, MemType DEF Mem
<1>2. Ids(mem[e].frontier \cup g) = Ids(mem[e].frontier) \cup new
  <2>1. Ids(g) = new
    <3>1. \A x \in g : x.id \in new
      OBVIOUS
    <3>2. ASSUME NEW c \in new PROVE \E x \in g : x.id = c
      <4>1. [id |-> c, depth |-> mem[e].page.depth + 1] \in g
        OBVIOUS
      <4>q. QED BY <4>1
    <3> HIDE DEF g
    <3>q. QED BY <3>1, <3>2 DEF Ids
  <2> HIDE DEF g
  <2>q. QED BY <2>1 DEF Ids
<1>q. QED BY <1>1, <1>2

LEMMA DiscoverCovers ==
  ASSUME CoverInv, NEW e \in Execs, NEW new \in SUBSET Fresh(e),
         DiscoverChildren(e, new) \/ ListingFails(e, new)
  PROVE  StoredInv' /\ RemembersInv'
<1>1. Inside(e) /\ Owns(e) /\ pc[e] = "discover"
  BY DEF DiscoverChildren, ListingFails, CommitDiscovered, CommitOwned, Inside, InsideLoop
<1> DEFINE p     == InFlight(e)
           a     == Appended(e, new)
           noted == [a EXCEPT !.errors = @ \cup {p}]
<1>2. a \in Mem /\ Cardinality(new) \in Nat /\ p \in Pages
  BY AppendedType, MemType DEF CoverInv, RunInv, TypeInv
<1>3. /\ a.visited = mem[e].visited /\ a.errors = mem[e].errors
      /\ Ids(a.frontier) = Ids(mem[e].frontier) \cup new
  BY AppendedFields DEF CoverInv, RunInv, TypeInv
<1>4. /\ RemembersOf(e) /\ saved.discovered # 0 /\ saved.imported <= MaxPages
      /\ Covers(mem[e], {}, Listed)
  BY <1>1, OwnerRemembers
<1>5. Recorded(mem[e]) /\ mem[e].visited[p] # "no"
  BY <1>1, <1>4 DEF RemembersOf, Unprocessed
<1> HIDE DEF a
<1>6. noted \in Mem /\ noted.visited = a.visited /\ noted.frontier = a.frontier /\ noted.errors = a.errors \cup {p}
  BY <1>2, NotedMemType DEF Mem
<1> HIDE DEF noted
<1>7. PICK m \in {a, noted} :
        /\ CommitDiscovered(e, m, new)
        /\ \/ m = noted /\ MarkSubtree(p, "noted")
           \/ new = Fresh(e) /\ MarkSubtree(p, "listed")
           \/ MarkSubtree(p, "capped")
  BY DEF DiscoverChildren, ListingFails, a, noted
<1>8. /\ m \in Mem /\ m.visited = mem[e].visited /\ Ids(m.frontier) = Ids(mem[e].frontier) \cup new
      /\ m.errors \in {mem[e].errors, mem[e].errors \cup {p}}
  BY <1>2, <1>3, <1>6
<1> DEFINE row == [Persisted(m) EXCEPT !.discovered = @ + Cardinality(new)]
<1>9. /\ row.visited = m.visited /\ row.frontier = m.frontier /\ row.errors = m.errors
      /\ row.imported = saved.imported /\ row.discovered = saved.discovered + Cardinality(new)
  <2>1. Persisted(m) \in Saved
    BY <1>8, PersistedType DEF CoverInv, RunInv, TypeInv
  <2>q. QED BY <2>1, RowFields DEF CoverInv, RunInv, Saved
<1>10. CommitOwned(e, row) /\ Remember(e, m) /\ Goto(e, "loop") /\ UNCHANGED <<chunk_seq, status>>
  BY <1>7 DEF CommitDiscovered
<1> HIDE DEF row
<1>11. row.discovered # 0
  BY <1>2, <1>4, <1>9 DEF CoverInv, RunInv, TypeInv, TypeOK, Saved
<1>12. Recorded(m) /\ Known(mem[e]) \cup new \subseteq Known(m)
  BY <1>5, <1>8 DEF Recorded, Known
<1>13. \A r \in Listed' : r \in Listed \/ Kids[r] \subseteq Known(m)
  <2>1. CASE Listed' \subseteq Listed
    BY <2>1
  <2>2. CASE MarkSubtree(p, "listed") /\ new = Fresh(e)
    <3>1. Kids[p] \subseteq Pages
      BY <1>2, ConstantsAssumption
    <3>2. Kids[p] \subseteq Known(m)
      BY <1>8, <1>12, <2>2, <3>1 DEF Fresh, Known, Visited
    <3>q. QED BY <1>2, <2>2, <3>2, SubtreeListed DEF CoverInv, RunInv
  <2>3. Listed' \subseteq Listed \/ (MarkSubtree(p, "listed") /\ new = Fresh(e))
    <3>1. TypeInv /\ p \in Pages
      BY <1>2 DEF CoverInv, RunInv
    <3>2. CASE m = noted /\ MarkSubtree(p, "noted")
      BY <3>1, <3>2, SubtreeListed
    <3>3. CASE new = Fresh(e) /\ MarkSubtree(p, "listed")
      BY <3>3
    <3>4. CASE MarkSubtree(p, "capped")
      BY <3>1, <3>4, SubtreeListed
    <3>q. QED BY <1>7, <3>2, <3>3, <3>4
  <2>q. QED BY <2>1, <2>2, <2>3
<1>14. Covers(m, {}, Listed')
  BY <1>4, <1>5, <1>12, <1>13 DEF Covers
<1>q. QED BY <1>1, <1>4, <1>8, <1>9, <1>10, <1>11, <1>14, CommitCovers

LEMMA SoftLimitCovers ==
  ASSUME CoverInv, NEW e \in Execs, NEW new \in SUBSET Fresh(e), SoftTimeLimit(e, new)
  PROVE  StoredInv' /\ RemembersInv'
<1> DEFINE p == InFlight(e)
           a == Appended(e, new)
           m == AfterSoftLimit(e, a)
           row == Persisted(m)
<1>1. /\ Inside(e) /\ Owns(e) /\ UNCHANGED <<chunk_seq, status>> /\ Goto(e, "more")
      /\ pc[e] \in InsideLoop /\ (pc[e] # "discover" => new = {})
      /\ CommitOwned(e, row) /\ Remember(e, m)
      /\ NoteOwedSubtree(p) \/ UNCHANGED subtree
  BY DEF SoftTimeLimit, CommitOwned, Inside
<1>2. /\ a \in Mem /\ m \in Mem /\ p \in Pages /\ mem[e].page.id = p
      /\ mem[e].visited \in [Pages -> Mark] /\ mem[e].errors \subseteq Pages
  BY AppendedType, MemType, SoftLimitMemType DEF CoverInv, RunInv, TypeInv, InFlight
<1>3. /\ a.visited = mem[e].visited /\ a.errors = mem[e].errors
      /\ mem[e].frontier \subseteq a.frontier /\ (new = {} => a.frontier = mem[e].frontier)
      /\ Ids(mem[e].frontier) \subseteq Ids(a.frontier)
  <2> DEFINE g == {[id |-> c, depth |-> mem[e].page.depth + 1] : c \in new}
  <2>1. /\ a.visited = mem[e].visited /\ a.errors = mem[e].errors
        /\ a.frontier = mem[e].frontier \cup g
        /\ Ids(a.frontier) = Ids(mem[e].frontier) \cup new
    BY AppendedFields DEF CoverInv, RunInv, TypeInv
  <2>2. new = {} => g = {}
    OBVIOUS
  <2> HIDE DEF g, a
  <2>q. QED BY <2>1, <2>2
<1> HIDE DEF a
<1>4. RemembersOf(e) /\ saved.discovered # 0 /\ saved.imported <= MaxPages
  BY <1>1, OwnerRemembers DEF InsideLoop
<1>5. Listed' = Listed
  BY <1>1, <1>2, SubtreeListed DEF CoverInv, RunInv, Listed
<1>6. Covers(m, {}, Listed)
  <2>1. CASE ~PageIsInFlight(e)
    <3>1. m = a /\ pc[e] = "loop"
      BY <1>1, <2>1 DEF AfterSoftLimit, PageIsInFlight
    <3>2. Covers(mem[e], {}, Listed)
      BY <1>1, <3>1, OwnerRemembers
    <3>3. Recorded(a) <=> Recorded(mem[e])
      BY <1>3 DEF Recorded
    <3>4. Known(a) = Known(mem[e]) /\ a.frontier = mem[e].frontier
      BY <1>1, <1>3, <3>1 DEF Known
    <3>q. QED BY <3>1, <3>2, <3>3, <3>4 DEF Covers
  <2>2. CASE PageIsInFlight(e) /\ Unprocessed(e)
    <3>1. Recorded(mem[e]) /\ Covers(mem[e], Taken(e), Listed) /\ pc[e] \in {"fetch", "page"}
      BY <1>4, <2>2 DEF RemembersOf, PageIsInFlight, InsideLoop
    <3>2. p \notin mem[e].errors
      BY <1>4, <3>1 DEF RemembersOf, Recorded
    <3> DEFINE g == a.frontier \cup {mem[e].page}
    <3>3. m = [a EXCEPT !.visited[p] = "no", !.frontier = g]
      BY <2>2 DEF AfterSoftLimit, Reinserted
    <3>4. p \in Ids(g) /\ Ids(a.frontier) \subseteq Ids(g)
      BY <1>2 DEF Ids
    <3> HIDE DEF g, m
    <3>5. /\ m.frontier = g /\ m.errors = a.errors
          /\ \A r \in Pages : r # p => m.visited[r] = a.visited[r]
      BY <1>2, <3>3 DEF Mem
    <3>6. Recorded(m)
      BY <1>2, <1>3, <3>1, <3>2, <3>5 DEF Recorded
    <3>7. Known(mem[e]) \cup Taken(e) \subseteq Known(m)
      BY <1>2, <1>3, <3>4, <3>5 DEF Known, Visited, Taken
    <3>q. QED BY <3>1, <3>6, <3>7 DEF Covers
  <2>3. CASE PageIsInFlight(e) /\ ~Unprocessed(e)
    <3>1. Recorded(mem[e]) /\ mem[e].visited[p] # "no" /\ pc[e] # "fetch"
      BY <1>4, <2>3 DEF RemembersOf, PageIsInFlight, InsideLoop, Unprocessed
    <3>2. Covers(mem[e], {}, Listed)
      BY <1>1, <3>1, OwnerRemembers
    <3>3. m = [a EXCEPT !.errors = @ \cup {p}]
      BY <2>3 DEF AfterSoftLimit
    <3> HIDE DEF m
    <3>4. m.frontier = a.frontier /\ m.visited = a.visited /\ m.errors = a.errors \cup {p}
      BY <1>2, <3>3 DEF Mem
    <3>5. Recorded(m) /\ Known(mem[e]) \subseteq Known(m)
      BY <1>3, <3>1, <3>4 DEF Recorded, Known
    <3>q. QED BY <3>1, <3>2, <3>5 DEF Covers
  <2>q. QED BY <2>1, <2>2, <2>3
<1> HIDE DEF m
<1>7. /\ row.visited = m.visited /\ row.frontier = m.frontier /\ row.errors = m.errors
      /\ row.imported = saved.imported /\ row.discovered = saved.discovered
  BY RowFields DEF CoverInv, RunInv
<1> HIDE DEF row
<1>q. QED BY <1>1, <1>2, <1>4, <1>5, <1>6, <1>7, CommitCovers

LEMMA AttachmentsCover ==
  ASSUME CoverInv, NEW e \in Execs, CommitUnchanged(e) \/ CommitAttachments(e)
  PROVE  StoredInv' /\ RemembersInv'
<1> DEFINE row == Persisted(mem[e])
<1>1. /\ Inside(e) /\ Owns(e) /\ UNCHANGED <<chunk_seq, jobs, status, mem>>
      /\ CommitOwned(e, row) /\ pc[e] \in {"page", "attached"}
      /\ pc[e] = "page" => mem[e].visited[InFlight(e)] = "prior"
  BY DEF CommitUnchanged, CommitAttachments, CommitOwned, Inside, InsideLoop, jobVars
<1>2. PICK q \in {"loop", "enqueue", "discover"} : Goto(e, q)
  BY DEF CommitUnchanged, CommitAttachments, AfterPage
<1>3. mem[e] \in Mem /\ Remember(e, mem[e]) /\ InFlight(e) \in Pages
  BY <1>1, MemType DEF Remember, CoverInv, RunInv, TypeInv, TypeOK
<1>4. /\ RemembersOf(e) /\ saved.discovered # 0 /\ saved.imported <= MaxPages
      /\ Covers(mem[e], {}, Listed)
  BY <1>1, OwnerRemembers
<1>5. Listed' \subseteq Listed
  <2>1. CASE CommitUnchanged(e)
    <3>1. PICK what \in {"owed", "capped"} : MarkSubtree(InFlight(e), what)
      BY <2>1 DEF CommitUnchanged
    <3>q. QED BY <1>3, <3>1, SubtreeListed DEF CoverInv, RunInv
  <2>2. CASE CommitAttachments(e)
    BY <2>2 DEF CommitAttachments, Listed
  <2>q. QED BY <2>1, <2>2
<1>6. Covers(mem[e], {}, Listed')
  BY <1>4, <1>5, FewerCovers
<1>7. Recorded(mem[e]) /\ ~Unprocessed(e)'
  <2>1. ~Unprocessed(e)
    BY <1>1, <1>4 DEF RemembersOf, Unprocessed, Phantom
  <2>q. QED BY <1>1, <1>4, <2>1 DEF RemembersOf, Unprocessed, Phantom, InFlight
<1>8. /\ row.visited = mem[e].visited /\ row.frontier = mem[e].frontier /\ row.errors = mem[e].errors
      /\ row.imported = saved.imported /\ row.discovered = saved.discovered
  BY RowFields DEF CoverInv, RunInv
<1> HIDE DEF row
<1>q. QED BY <1>1, <1>2, <1>3, <1>4, <1>6, <1>7, <1>8, CommitCovers

LEMMA PageCovers ==
  ASSUME CoverInv, NEW e \in Execs, CommitPage(e) \/ HeartbeatAttachment(e)
  PROVE  StoredInv' /\ RemembersInv'
<1> DEFINE row == [Persisted(mem[e]) EXCEPT !.imported = @ + 1]
           p   == InFlight(e)
<1>1. /\ Inside(e) /\ Owns(e) /\ pc[e] = "page" /\ mem[e].visited[p] = "job"
      /\ CommitOwned(e, row) /\ jobs' = [jobs EXCEPT ![p] = @ + 1]
      /\ UNCHANGED <<mem, chunk_seq, status>>
  BY DEF CommitPage, HeartbeatAttachment, CommitImported, CommitOwned, Inside, InsideLoop
<1>2. PICK q \in {"loop", "attached", "discover"} : Goto(e, q)
  BY DEF CommitPage, HeartbeatAttachment, AfterPage
<1>3. mem[e] \in Mem /\ Remember(e, mem[e]) /\ p \in Pages
  BY <1>1, MemType DEF Remember, CoverInv, RunInv, TypeInv, TypeOK
<1>4. RemembersOf(e) /\ saved.discovered # 0 /\ Covers(mem[e], {}, Listed)
  BY <1>1, OwnerRemembers
<1>5. PICK what \in {"owed", "capped"} : MarkSubtree(p, what)
  BY DEF CommitPage, HeartbeatAttachment, CommitImported
<1>6. Covers(mem[e], {}, Listed')
  BY <1>3, <1>4, <1>5, SubtreeListed, FewerCovers DEF CoverInv, RunInv
<1>7. Recorded(mem[e]) /\ ~Unprocessed(e)'
  <2>1. jobs'[p] # 0
    BY <1>1, <1>3 DEF CoverInv, RunInv, TypeInv, TypeOK
  <2>2. InFlight(e)' = p /\ mem'[e] = mem[e]
    BY <1>1 DEF InFlight
  <2> HIDE DEF p
  <2>q. QED BY <1>1, <1>4, <2>1, <2>2 DEF RemembersOf, Unprocessed, Phantom
<1>8. /\ row.visited = mem[e].visited /\ row.frontier = mem[e].frontier /\ row.errors = mem[e].errors
      /\ row.imported = saved.imported + 1 /\ row.discovered = saved.discovered
  <2>1. Persisted(mem[e]) \in Saved
    BY <1>3, PersistedType DEF CoverInv, RunInv, TypeInv
  <2>q. QED BY <2>1, RowFields DEF CoverInv, RunInv, Saved
<1>9. row.imported <= MaxPages
  <2>1. saved.imported < MaxPages /\ saved.imported \in Nat
    BY <1>1, <1>4 DEF RemembersOf, WithinPageCap, CoverInv, RunInv, TypeInv, TypeOK, Saved
  <2> HIDE DEF row
  <2>q. QED BY <1>8, <2>1, ConstantsAssumption
<1> HIDE DEF row, p
<1>q. QED BY <1>1, <1>2, <1>3, <1>4, <1>6, <1>7, <1>8, <1>9, CommitCovers

\* A claim reads the stored crawl, and takes the lease from everyone else.
LEMMA ClaimCovers ==
  ASSUME CoverInv, NEW e \in Execs, NEW s \in queue, ClaimChunk(e, s)
  PROVE  StoredInv' /\ RemembersInv'
<1>1. /\ UNCHANGED <<saved, jobs, subtree>> /\ chunk_seq' = chunk_seq + 1 /\ chunk_seq \in Nat
      /\ pc'[e] = "setup" /\ mem'[e] = Loaded /\ status' = "RUNNING"
      /\ \A f \in Execs \ {e} : pc'[f] = pc[f] /\ claimed'[f] = claimed[f] /\ claimed[f] \in Nat
  BY DEF ClaimChunk, NextSeq, Remember, CoverInv, RunInv, TypeInv, TypeOK, jobVars
<1>2. RemembersOf(e)'
  <2>1. Taken(e)' = {} /\ Listed' = Listed
    BY <1>1 DEF Taken, Listed
  <2>2. Loaded.visited = saved.visited /\ Loaded.frontier = saved.frontier /\ Loaded.errors = saved.errors
    BY DEF Loaded
  <2> HIDE DEF Loaded
  <2>3. Covers(mem[e], Taken(e), Listed)'
    BY <1>1, <2>1, <2>2 DEF CoverInv, StoredInv, Covers, Recorded, Known
  <2>q. QED BY <1>1, <2>2, <2>3 DEF RemembersOf, CoverInv, StoredInv, Unstarted
<1>3. ASSUME NEW f \in Execs, f # e, Inside(f)' PROVE ~Owns(f)'
  <2>1. pc[f] # "idle"
    BY <1>1, <1>3 DEF Inside, InsideLoop
  <2>2. claimed[f] <= chunk_seq
    BY <2>1 DEF CoverInv, RunInv, LeaseInv
  <2>q. QED BY <1>1, <1>3, <2>2 DEF Owns
<1>q. QED BY <1>1, <1>2, <1>3, NoCommitKeepsStored DEF RemembersInv, CoverInv

\* Steps of the surroundings: the executions stay where they are.
LEMMA OutsideCovers ==
  ASSUME CoverInv,
         \/ \E e \in Execs, s \in queue : IgnoreMessage(e, s)
         \/ \E e \in Execs : Redeliver(e)
         \/ HeartbeatLapses \/ RequeueAfterRestart
         \/ \E p \in Pages : TakeChild(p)
         \/ \E a \in Callers : Serve(a)
         \/ UNCHANGED vars
  PROVE  StoredInv' /\ RemembersInv'
<1>1. /\ UNCHANGED <<pc, claimed, mem, chunk_seq, saved, subtree>>
      /\ status' = "RUNNING" => status = "RUNNING"
      /\ status' = "FINISHED" => status = "FINISHED"
  BY DEF IgnoreMessage, Redeliver, HeartbeatLapses, RequeueAfterRestart, TakeChild, Serve,
         ApiRead, ForceCancel, RequestCancel, ReapStaleRun, DeleteRun, WriteToDeletedRun,
         vars, rowVars, execVars, Gone
<1>2. jobs' = jobs \/ status' = Gone
  BY DEF IgnoreMessage, Redeliver, HeartbeatLapses, RequeueAfterRestart, TakeChild, Serve,
         ApiRead, ForceCancel, RequestCancel, ReapStaleRun, DeleteRun, WriteToDeletedRun,
         vars, jobVars
<1>3. RemembersInv'
  BY <1>1, <1>2 DEF CoverInv, RemembersInv, RemembersOf, Inside, Owns, Taken, InFlight, Listed,
     WithinPageCap, Unprocessed, Phantom, Gone
<1>q. QED BY <1>1, <1>3, NoCommitKeepsStored DEF CoverInv

LEMMA StepCoverInv == CoverInv /\ [Next]_vars => CoverInv'
<1> SUFFICES ASSUME CoverInv, [Next]_vars PROVE CoverInv'  OBVIOUS
<1>1. StoredInv' /\ RemembersInv'
  <2>1. ASSUME NEW e \in Execs, Work(e) PROVE StoredInv' /\ RemembersInv'
    BY <2>1, EndCovers, LeaveCovers, PopCovers, FetchCovers, EnqueueCovers, SeedCovers,
       DiscoverCovers, AttachmentsCover, PageCovers DEF Work
  <2>2. ASSUME NEW e \in Execs, Disturb(e) PROVE StoredInv' /\ RemembersInv'
    BY <2>2, EndCovers, LeaveCovers, ByteCapCovers, FailPageCovers, DiscoverCovers,
       SoftLimitCovers, OutsideCovers DEF Disturb
  <2>q. QED BY <2>1, <2>2, ClaimCovers, OutsideCovers DEF Next, Deliver
<1>q. QED BY <1>1, StepRunInv DEF CoverInv

LEMMA CoverInvariant == Spec => []CoverInv
BY InitCoverInv, StepCoverInv, PTL DEF Spec

-----------------------------------------------------------------------------
(* The hand-over of the children                                           *)

\* The execution that ended the run is about to queue what is pending, or it
\* is queued.
HandoverInv ==
  status = "FINISHED" => \/ \E e \in Execs : pc[e] = "backstop"
                         \/ {p \in Pages : child[p] = "PENDING"} \subseteq childQueue

\* Between its FINISHED commit and the re-send no execution dies or raises.
HandsOver == "backstop" \notin FaultPoints

\* After the end of the run its children only lose their PENDING, by being taken.
LEMMA ChildrenAfterEnd ==
  ASSUME TypeOK, [Next]_vars, status = "FINISHED", status' = "FINISHED",
         {p \in Pages : child[p] = "PENDING"} \subseteq childQueue
  PROVE  {p \in Pages : child'[p] = "PENDING"} \subseteq childQueue'
<1>1. \A e \in Execs : ~Owns(e)
  BY DEF Owns
<1>2. ASSUME NEW e \in Execs, Work(e) \/ Disturb(e) PROVE child' = child /\ childQueue \subseteq childQueue'
  <2>1. CASE ~(\/ Resume(e) \/ (\E x \in mem[e].frontier : PopPage(e, x)) \/ FetchPage(e)
               \/ SendContinuation(e) \/ ResendPendingChildren(e) \/ EnqueueChild(e)
               \/ LeaseLost(e) \/ Uncaught(e) \/ ReadAfterException(e) \/ FailAfterException(e)
               \/ Crash(e) \/ Redeliver(e))
    BY <1>1, <1>2, <2>1 DEF Work, Disturb, CancelBeforeStart, CancelRun, SeedFrontier, ObserveCancel,
       EndChunk, EndRun, FinalizeRun, CommitPage, HeartbeatAttachment, CommitImported, CommitUnchanged,
       CommitAttachments, DiscoverChildren, CommitDiscovered, FailSetup, FailRun, HitByteCap, FailPage,
       ListingFails, SoftTimeLimit, CommitOwned
  <2>2. CASE \/ Resume(e) \/ (\E x \in mem[e].frontier : PopPage(e, x)) \/ FetchPage(e)
             \/ SendContinuation(e) \/ ResendPendingChildren(e) \/ EnqueueChild(e)
             \/ LeaseLost(e) \/ Uncaught(e) \/ ReadAfterException(e) \/ FailAfterException(e)
             \/ Crash(e) \/ Redeliver(e)
    BY <2>2 DEF Resume, PopPage, FetchPage, SendContinuation, ResendPendingChildren, EnqueueChild,
       LeaseLost, Uncaught, ReadAfterException, FailAfterException, Crash, Redeliver, jobVars, mqVars
  <2>q. QED BY <2>1, <2>2
<1>3. ASSUME NEW e \in Execs, Deliver(e) PROVE UNCHANGED <<child, childQueue>>
  BY <1>3 DEF Deliver, ClaimChunk, IgnoreMessage, jobVars
<1>4. ASSUME NEW a \in Callers, Serve(a) PROVE UNCHANGED <<child, childQueue>>
  BY <1>4 DEF Serve, ApiRead, ForceCancel, RequestCancel, ReapStaleRun, DeleteRun, WriteToDeletedRun,
     jobVars, mqVars, Gone
<1>5. CASE HeartbeatLapses \/ RequeueAfterRestart \/ UNCHANGED vars
  BY <1>5 DEF HeartbeatLapses, RequeueAfterRestart, vars, jobVars, mqVars
<1>6. ASSUME NEW p \in Pages, TakeChild(p)
      PROVE  {r \in Pages : child'[r] = "PENDING"} \subseteq childQueue'
  BY <1>6 DEF TakeChild, TypeOK
<1>q. QED BY <1>2, <1>3, <1>4, <1>5, <1>6 DEF Next

\* An execution that has ended the run stays at the hand-over, or does it.
LEMMA StaysToHandOver ==
  ASSUME TypeOK, HandsOver, [Next]_vars, status = "FINISHED",
         NEW e \in Execs, pc[e] = "backstop", pc'[e] # "backstop"
  PROVE  {p \in Pages : child'[p] = "PENDING"} \subseteq childQueue'
<1>2. ASSUME NEW f \in Execs, Work(f) \/ Disturb(f) PROVE ResendPendingChildren(e)
  <2>1. \/ \E q \in PCs : Goto(f, q)
        \/ Ack(f) \/ pc' = pc
    BY <1>2, AfterPageType DEF Work, Disturb, CancelBeforeStart, CancelRun, SeedFrontier, Resume, ObserveCancel,
       PopPage, EndChunk, EndRun, FinalizeRun, FetchPage, SendContinuation, ResendPendingChildren,
       CommitPage, HeartbeatAttachment, CommitUnchanged, CommitAttachments, EnqueueChild,
       DiscoverChildren, CommitDiscovered, LeaseLost, ReadAfterException, FailAfterException,
       FailSetup, FailRun, HitByteCap, FailPage, ListingFails, SoftTimeLimit, Uncaught, Crash, Redeliver,
       execVars, PCs
  <2>2. f = e
    BY <2>1 DEF Goto, Ack, TypeOK
  <2>q. QED BY <1>2, <2>2 DEF HandsOver, Work, Disturb, CancelBeforeStart, SeedFrontier, Resume, ObserveCancel,
       PopPage, EndChunk, EndRun, FetchPage, SendContinuation,
       CommitPage, HeartbeatAttachment, CommitUnchanged, CommitAttachments, EnqueueChild,
       DiscoverChildren, LeaseLost, ReadAfterException, FailAfterException, InsideLoop,
       FailSetup, HitByteCap, FailPage, ListingFails, SoftTimeLimit, Uncaught, Crash, Redeliver, execVars
<1>3. CASE ResendPendingChildren(e)
  BY <1>3 DEF ResendPendingChildren, jobVars, Gone
<1>4. ASSUME NEW f \in Execs, Deliver(f) PROVE FALSE
  BY <1>4 DEF Deliver, ClaimChunk, IgnoreMessage, execVars, TypeOK
<1>5. CASE \/ HeartbeatLapses \/ RequeueAfterRestart \/ (\E p \in Pages : TakeChild(p))
           \/ (\E a \in Callers : Serve(a)) \/ UNCHANGED vars
  BY <1>5 DEF HeartbeatLapses, RequeueAfterRestart, TakeChild, Serve, ApiRead, ForceCancel, RequestCancel,
     ReapStaleRun, DeleteRun, WriteToDeletedRun, vars, execVars
<1>q. QED BY <1>2, <1>3, <1>4, <1>5 DEF Next

\* A run becomes FINISHED by the execution that ends it, and not otherwise.
LEMMA BecomesFinished ==
  ASSUME TypeOK, [Next]_vars, status # "FINISHED", status' = "FINISHED"
  PROVE  \E e \in Execs : pc'[e] = "backstop"
<1>1. ASSUME NEW e \in Execs, Work(e) \/ Disturb(e) PROVE EndRun(e)
  BY <1>1 DEF Work, Disturb, CancelBeforeStart, CancelRun, SeedFrontier, Resume, ObserveCancel,
     PopPage, EndChunk, FetchPage, SendContinuation, ResendPendingChildren,
     CommitPage, HeartbeatAttachment, CommitImported, CommitUnchanged, CommitAttachments, EnqueueChild,
     DiscoverChildren, CommitDiscovered, LeaseLost, ReadAfterException, FailAfterException,
     FailSetup, FailRun, HitByteCap, FailPage, ListingFails, SoftTimeLimit, Uncaught, Crash, Redeliver,
     rowVars, Gone
<1>2. ASSUME NEW e \in Execs, EndRun(e) PROVE pc'[e] = "backstop"
  BY <1>2 DEF EndRun, FinalizeRun, Goto, TypeOK
<1>3. ~(\E a \in Callers : Serve(a))
  BY DEF Serve, ApiRead, ForceCancel, RequestCancel, ReapStaleRun, DeleteRun, WriteToDeletedRun, rowVars, Gone
<1>q. QED BY <1>1, <1>2, <1>3, OtherEffects DEF Next

LEMMA HandoverInvariant == ASSUME HandsOver PROVE Spec => []HandoverInv
<1>1. Init => HandoverInv
  BY DEF Init, HandoverInv
<1>2. ASSUME TypeOK, HandoverInv, [Next]_vars PROVE HandoverInv'
  BY <1>2, ChildrenAfterEnd, StaysToHandOver, BecomesFinished DEF HandoverInv
<1>q. QED BY <1>1, <1>2, TypeCorrect, PTL DEF Spec

-----------------------------------------------------------------------------
(* The results                                                             *)

\* However often the run is killed, cut short and taken over, every child that
\* was listed is visited or still queued in what is stored of the crawl
\* (_discover_children and the persisted frontier of _RunState).
THEOREM ListedIsKept == Spec => []NoneForgotten
<1>1. CoverInv => NoneForgotten
  <2> SUFFICES ASSUME CoverInv, ~ByteCapped PROVE \A p \in Listed : Kids[p] \subseteq Known(saved)
    BY DEF NoneForgotten, Listed, Known
  <2>1. Recorded(saved)
    <3> SUFFICES ASSUME ~Recorded(saved) PROVE FALSE  OBVIOUS
    <3>1. saved.frontier = {}
      BY DEF CoverInv, StoredInv, Covers
    <3>q. QED BY <3>1 DEF Recorded, ByteCapped, Ids
  <2>q. QED BY <2>1 DEF CoverInv, StoredInv, Covers
<1>q. QED BY <1>1, CoverInvariant, PTL

\* pages_imported stays within max_pages, though the count is compared before a
\* page is fetched and raised when it is committed, and chunks, reclaims and
\* soft limits come in between (import_confluence, _import_one_page).
THEOREM CapHolds == Spec => []WithinCap
<1>1. CoverInv => WithinCap
  BY DEF CoverInv, StoredInv, WithinCap
<1>q. QED BY <1>1, CoverInvariant, PTL

\* What a FINISHED run says of itself is true: every listed child was visited
\* unless a cap stopped the crawl, and every pending child job is queued
\* (_finalize_run), as long as nothing strikes between its two last steps.
THEOREM FinishedIsDone == ASSUME HandsOver PROVE Spec => []FinishedMeansDone
<1>1. CoverInv => FinishedComplete
  <2> SUFFICES ASSUME CoverInv, status = "FINISHED", WithinPageCap, ~ByteCapped, NEW p \in Listed
               PROVE  Kids[p] \subseteq Visited(saved.visited)
    BY DEF FinishedComplete, Listed
  <2>1. saved.frontier = {}
    BY DEF CoverInv, StoredInv
  <2>2. Recorded(saved)
    BY <2>1 DEF Recorded, ByteCapped, Ids
  <2>3. Known(saved) = Visited(saved.visited)
    BY <2>1 DEF Known, Ids
  <2>q. QED BY <2>2, <2>3 DEF CoverInv, StoredInv, Covers
<1>2. HandoverInv => ChildrenHandedOver
  BY DEF HandoverInv, ChildrenHandedOver
<1>q. QED BY <1>1, <1>2, CoverInvariant, HandoverInvariant, PTL DEF FinishedMeansDone
=============================================================================
