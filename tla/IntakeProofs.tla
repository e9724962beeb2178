---------------------------- MODULE IntakeProofs -----------------------------
(***************************************************************************)
(* What Intake promises for any number of users, messages, requests and    *)
(* jobs.  Two facts carry most of it: a request keeps the id it will       *)
(* insert, so nobody else takes it; and what a request read before its     *)
(* insert can only have lost rows since, unless another one overlapped.    *)
(***************************************************************************)
EXTENDS Intake, FiniteSetTheorems, WellFoundedInduction, TLAPS

-----------------------------------------------------------------------------
(* The least of a set                                                      *)

Less == {pair \in Nat \X Nat : pair[1] < pair[2]}

LEMMA LeastExists ==
  ASSUME NEW S \in SUBSET Nat, S # {}
  PROVE  \E x \in S : \A y \in S : x <= y
<1>1. IsWellFoundedOn(OpToRel(<, Nat), Nat)
  BY NatLessThanWellFounded
<1>2. OpToRel(<, Nat) = Less
  BY Zenon DEF OpToRel, Less
<1>3. IsWellFoundedOn(Less, Nat)
  BY <1>1, <1>2, Zenon
<1>4. PICK x \in S : \A y \in S : ~(<<y, x>> \in Less)
  BY <1>3, WFMin
<1>5. ASSUME NEW y \in S PROVE x <= y
  <2>1. x <= y \/ y < x
    OBVIOUS
  <2>2. ASSUME y < x PROVE FALSE
    <3>1. <<y, x>> \in Nat \X Nat  OBVIOUS
    <3>2. <<y, x>>[1] < <<y, x>>[2]  BY <2>2
    <3>3. <<y, x>> \in Less  BY <3>1, <3>2, Zenon DEF Less
    <3>q. QED BY <1>4, <3>3, Zenon
  <2>q. QED BY <2>1, <2>2
<1>q. QED BY <1>5

LEMMA LowestIn ==
  ASSUME NEW S \in SUBSET Nat, S # {}
  PROVE  Lowest(S) \in S
BY LeastExists DEF Lowest

-----------------------------------------------------------------------------
(* Types and what the requests hold                                        *)

\* A request that saved a file holds an id without a row, which nobody else holds.
RequestsInv ==
  /\ \A p \in Procs : pc[p] = "saved" => ctx[p].id \in JobIds /\ job[ctx[p].id].state = "none"
  /\ \A p, q \in Procs : pc[p] = "saved" /\ pc[q] = "saved" /\ p # q => ctx[p].id # ctx[q].id
  /\ \A p \in Procs : pc[p] = "send" => ctx[p].send # {}
  /\ \A p \in Procs : pc[p] = "saved" => (ctx[p].previous = 0 \/ job[ctx[p].previous].state # "none")

Base == TypeOK /\ RequestsInv

LEMMA Picks ==
  /\ Pick(Owners) \in Owners /\ Pick(Messages) \in Messages /\ Pick(Contents) \in Contents
BY ConstantsAssumption DEF Pick

LEMMA Constants ==
  /\ JobIds \subseteq Nat /\ GroupIds \subseteq Nat /\ 0 \notin JobIds /\ 0 \notin GroupIds
  /\ MaxRequests \in Nat /\ MaxDeaths \in Nat
BY ConstantsAssumption

\* Contexts and rows as they are built.
LEMMA BlankTyped ==
  /\ Blank \in Context /\ Blank.id = 0 /\ Blank.send = {} /\ Blank.previous = 0
  /\ \A jobs \in SUBSET JobIds : LET c == [Blank EXCEPT !.send = jobs] IN c \in Context /\ c.send = jobs /\ c.id = 0
  /\ \A o \in Owners, m \in Messages :
       LET c == [Blank EXCEPT !.owner = o, !.message = m]
       IN c \in Context /\ c.owner = o /\ c.message = m /\ c.id = 0
BY Picks, Constants DEF Blank, Context

LEMMA NoRowTyped ==
  /\ NoRow \in Row /\ NoGroup \in Group /\ NoRow.state = "none" /\ NoGroup.state = "none"
  /\ NoRow.group = 0 /\ NoRow.previous = 0
BY Picks, Constants DEF NoRow, Row, NoGroup, Group, Kinds, Terminal

LEMMA InitBase == Init => Base
<1> SUFFICES ASSUME Init PROVE Base  OBVIOUS
<1>1. job \in [JobIds -> Row] /\ group \in [GroupIds -> Group] /\ ctx \in [Procs -> Context]
  BY BlankTyped, NoRowTyped DEF Init
<1>4. pc \in [Procs -> {"idle", "saved", "parsed", "send"}] /\ file \subseteq JobIds
      /\ queued \in [JobIds -> Nat] /\ converted \in [JobIds -> Nat]
  BY DEF Init
<1>5. started \in 0..MaxRequests /\ deaths \in 0..MaxDeaths
  BY Constants DEF Init
<1>6. raced \subseteq Messages /\ contested \in BOOLEAN /\ torn \subseteq JobIds
  BY DEF Init
<1>3. TypeOK  BY <1>1, <1>4, <1>5, <1>6 DEF TypeOK
<1>2. RequestsInv  BY DEF Init, RequestsInv
<1>q. QED BY <1>2, <1>3 DEF Base

\* Ids that are free are nobody's.
LEMMA FreeIds ==
  ASSUME Base
  PROVE  /\ FreeJobs \subseteq JobIds
         /\ \A j \in FreeJobs : job[j].state = "none" /\ j \notin file /\ \A p \in Procs : ctx[p].id # j
         /\ FreeJobs # {} => Lowest(FreeJobs) \in FreeJobs
         /\ FreeGroups \subseteq GroupIds /\ (FreeGroups # {} => Lowest(FreeGroups) \in FreeGroups)
         /\ \A m \in FreeGroups : group[m].state = "none" /\ m # 0
         /\ \A n \in Nat : Fresh(n) \subseteq FreeJobs
<1>1. FreeJobs \subseteq JobIds /\ FreeGroups \subseteq GroupIds /\ FreeJobs \in SUBSET Nat /\ FreeGroups \in SUBSET Nat
  BY Constants DEF FreeJobs, FreeGroups
<1>2. FreeJobs # {} => Lowest(FreeJobs) \in FreeJobs
  BY <1>1, LowestIn
<1>3. FreeGroups # {} => Lowest(FreeGroups) \in FreeGroups
  BY <1>1, LowestIn
<1>4. \A j \in FreeJobs : job[j].state = "none" /\ j \notin file /\ \A p \in Procs : ctx[p].id # j
  BY DEF FreeJobs, Held
<1>5. \A m \in FreeGroups : group[m].state = "none" /\ m # 0
  BY Constants DEF FreeGroups
<1>q. QED BY <1>1, <1>2, <1>3, <1>4, <1>5 DEF Fresh

\* Where a request goes when it sends what it has to.
LEMMA Sending ==
  ASSUME Base, NEW p \in Procs, NEW jobs \in SUBSET JobIds, ThenSend(p, jobs) \/ Done(p)
  PROVE  /\ pc' \in [Procs -> {"idle", "saved", "parsed", "send"}] /\ ctx' \in [Procs -> Context]
         /\ pc'[p] \in {"idle", "send"} /\ (pc'[p] = "send" => ctx'[p].send # {}) /\ ctx'[p].id = 0
         /\ \A q \in Procs : q # p => pc'[q] = pc[q] /\ ctx'[q] = ctx[q]
<1>0. pc \in [Procs -> {"idle", "saved", "parsed", "send"}] /\ ctx \in [Procs -> Context]
  BY DEF Base, TypeOK
<1>1. CASE Done(p)
  BY <1>0, <1>1, BlankTyped DEF Done, Goto
<1>2. CASE ~Done(p)
  <2> DEFINE c == [Blank EXCEPT !.send = jobs]
  <2>1. jobs # {} /\ pc' = [pc EXCEPT ![p] = "send"] /\ ctx' = [ctx EXCEPT ![p] = c]
    BY <1>2 DEF ThenSend, Goto
  <2>2. c \in Context /\ c.send = jobs /\ c.id = 0
    BY BlankTyped
  <2> HIDE DEF c
  <2>q. QED BY <1>0, <2>1, <2>2
<1>q. QED BY <1>1, <1>2

\* A request that moves on leaves the others what they hold.
LEMMA RequestsKept ==
  ASSUME Base, NEW p \in Procs,
         pc'[p] # "saved", pc'[p] = "send" => ctx'[p].send # {},
         \A q \in Procs : q # p => pc'[q] = pc[q] /\ ctx'[q] = ctx[q],
         \A j \in JobIds : job[j].state = "none" /\ (\E q \in Procs : q # p /\ pc[q] = "saved" /\ ctx[q].id = j)
                           => job'[j].state = "none",
         \A j \in JobIds : job[j].state # "none" => job'[j].state # "none"
  PROVE  RequestsInv'
<1>1. \A q \in Procs : ctx[q].previous \in JobIds \cup {0}
  BY DEF Base, TypeOK, Context
<1>q. QED BY <1>1 DEF Base, RequestsInv

-----------------------------------------------------------------------------
\* What an upload holds: the predecessor it found, if there was one.
Holds(c, j) ==
  /\ c.id = j
  /\ \/ Predecessors = {} /\ c.previous = 0 /\ c.version = 1
     \/ /\ c.previous \in Predecessors /\ c.version = job[c.previous].version + 1
        /\ c.content # job[c.previous].content

LEMMA SavedTyped ==
  ASSUME NEW j \in JobIds, NEW c \in Contents, NEW before \in JobIds, NEW v \in Nat
  PROVE  LET first == [Blank EXCEPT !.id = j, !.content = c, !.version = 1]
             next  == [Blank EXCEPT !.id = j, !.content = c, !.previous = before, !.version = v]
         IN /\ first \in Context /\ first.id = j /\ first.previous = 0 /\ first.version = 1
            /\ next \in Context /\ next.id = j /\ next.previous = before /\ next.version = v
            /\ next.content = c
BY Picks, Constants DEF Blank, Context

LEMMA SaveEffect ==
  ASSUME Base, NEW p \in Procs, SaveUpload(p)
  PROVE  LET j == Lowest(FreeJobs) IN
         /\ pc[p] = "idle" /\ UNCHANGED <<job, group, queued, deaths, converted, raced, torn>>
         /\ started < MaxRequests /\ started' = started + 1 /\ contested' = (contested \/ Uploading # {})
         /\ j \in JobIds /\ job[j].state = "none" /\ j \notin file /\ \A q \in Procs : ctx[q].id # j
         /\ \/ UNCHANGED <<pc, ctx>> /\ file' = AfterDuplicate(j)
            \/ /\ pc' = [pc EXCEPT ![p] = "saved"] /\ file' = file \cup {j}
               /\ \E new \in Context : ctx' = [ctx EXCEPT ![p] = new] /\ Holds(new, j)
<1> DEFINE j == Lowest(FreeJobs)
<1>1. /\ pc[p] = "idle" /\ UNCHANGED <<job, group, queued, deaths, converted, raced, torn>>
      /\ started < MaxRequests /\ started' = started + 1 /\ contested' = (contested \/ Uploading # {})
      /\ FreeJobs # {}
  BY DEF SaveUpload, Begin
<1>2. j \in JobIds /\ job[j].state = "none" /\ j \notin file /\ \A q \in Procs : ctx[q].id # j
  BY <1>1, FreeIds
<1>3. PICK c \in Contents :
        \/ /\ Predecessors = {} /\ Goto(p, "saved") /\ file' = file \cup {j}
           /\ ctx' = [ctx EXCEPT ![p] = [Blank EXCEPT !.id = j, !.content = c, !.version = 1]]
        \/ \E before \in Predecessors :
             IF job[before].content = c
             THEN file' = AfterDuplicate(j) /\ UNCHANGED <<pc, ctx>>
             ELSE /\ Goto(p, "saved") /\ file' = file \cup {j}
                  /\ ctx' = [ctx EXCEPT ![p] = [Blank EXCEPT !.id = j, !.content = c, !.previous = before,
                                                             !.version = NextVersion(before)]]
  BY DEF SaveUpload
<1> HIDE DEF j
<1>4. CASE /\ Predecessors = {} /\ Goto(p, "saved") /\ file' = file \cup {j}
           /\ ctx' = [ctx EXCEPT ![p] = [Blank EXCEPT !.id = j, !.content = c, !.version = 1]]
  <2> DEFINE new == [Blank EXCEPT !.id = j, !.content = c, !.version = 1]
  <2>1. new \in Context /\ Holds(new, j)
    BY <1>2, <1>4, SavedTyped DEF Holds
  <2>2. ctx' = [ctx EXCEPT ![p] = new] /\ pc' = [pc EXCEPT ![p] = "saved"]
    BY <1>4 DEF Goto
  <2> HIDE DEF new
  <2>q. QED BY <1>1, <1>2, <1>4, <2>1, <2>2 DEF j
<1>5. ASSUME NEW before \in Predecessors,
             IF job[before].content = c
             THEN file' = AfterDuplicate(j) /\ UNCHANGED <<pc, ctx>>
             ELSE /\ Goto(p, "saved") /\ file' = file \cup {j}
                  /\ ctx' = [ctx EXCEPT ![p] = [Blank EXCEPT !.id = j, !.content = c, !.previous = before,
                                                             !.version = NextVersion(before)]]
      PROVE  \/ UNCHANGED <<pc, ctx>> /\ file' = AfterDuplicate(j)
             \/ /\ pc' = [pc EXCEPT ![p] = "saved"] /\ file' = file \cup {j}
                /\ \E new \in Context : ctx' = [ctx EXCEPT ![p] = new] /\ Holds(new, j)
  <2> DEFINE new == [Blank EXCEPT !.id = j, !.content = c, !.previous = before, !.version = NextVersion(before)]
  <2>1. CASE job[before].content = c  BY <1>5, <2>1
  <2>2. CASE job[before].content # c
    <3>1. before \in JobIds /\ NextVersion(before) = job[before].version + 1 /\ NextVersion(before) \in Nat
      BY DEF Base, TypeOK, Row, Predecessors, Versioned, NextVersion
    <3>2. /\ new \in Context /\ new.id = j /\ new.previous = before /\ new.version = NextVersion(before)
          /\ new.content = c
      BY <1>2, <3>1, Picks, Constants DEF Blank, Context
    <3>3. ctx' = [ctx EXCEPT ![p] = new] /\ pc' = [pc EXCEPT ![p] = "saved"] /\ file' = file \cup {j}
      BY <1>5, <2>2 DEF Goto
    <3> HIDE DEF new
    <3>4. Holds(new, j)
      BY <2>2, <3>1, <3>2 DEF Holds
    <3>q. QED BY <3>2, <3>3, <3>4
  <2>q. QED BY <2>1, <2>2
<1>q. QED BY <1>1, <1>2, <1>3, <1>4, <1>5 DEF j

LEMMA SaveBase ==
  ASSUME Base, NEW p \in Procs, SaveUpload(p)
  PROVE  Base'
<1> USE DEF Base
<1>1. PICK j \in JobIds :
         /\ pc[p] = "idle" /\ UNCHANGED <<job, group, queued, deaths, converted, raced, torn>>
         /\ started < MaxRequests /\ started' = started + 1 /\ contested' = (contested \/ Uploading # {})
         /\ job[j].state = "none" /\ j \notin file /\ \A q \in Procs : ctx[q].id # j
         /\ \/ UNCHANGED <<pc, ctx>> /\ file' = AfterDuplicate(j)
            \/ /\ pc' = [pc EXCEPT ![p] = "saved"] /\ file' = file \cup {j}
               /\ \E new \in Context : ctx' = [ctx EXCEPT ![p] = new] /\ Holds(new, j)
  BY SaveEffect
<1>2. contested' \in BOOLEAN /\ started' \in 0..MaxRequests
  BY <1>1, Constants DEF TypeOK
<1>3. CASE UNCHANGED <<pc, ctx>> /\ file' = AfterDuplicate(j)
  <2>1. TypeOK'  BY <1>1, <1>2, <1>3 DEF TypeOK, AfterDuplicate
  <2>2. RequestsInv'  BY <1>1, <1>3 DEF RequestsInv
  <2>q. QED BY <2>1, <2>2
<1>4. ASSUME NEW new \in Context, ctx' = [ctx EXCEPT ![p] = new], Holds(new, j),
             pc' = [pc EXCEPT ![p] = "saved"], file' = file \cup {j}
      PROVE  Base'
  <2>1. Predecessors \subseteq JobIds /\ \A b \in Predecessors : job[b].state # "none"
    BY DEF Predecessors, Versioned, Exists
  <2>2. TypeOK'  BY <1>1, <1>2, <1>4 DEF TypeOK
  <2>3. /\ pc'[p] = "saved" /\ ctx'[p] = new
        /\ \A q \in Procs : q # p => pc'[q] = pc[q] /\ ctx'[q] = ctx[q]
    BY <1>4 DEF TypeOK
  <2>4. RequestsInv'  BY <1>1, <1>4, <2>1, <2>3 DEF RequestsInv, Holds
  <2>q. QED BY <2>2, <2>4
<1>q. QED BY <1>1, <1>3, <1>4

LEMMA CommitUploadBase ==
  ASSUME Base, NEW p \in Procs, CommitUpload(p)
  PROVE  Base'
<1> DEFINE c == ctx[p]
<1> DEFINE row == [NoRow EXCEPT !.state = "pending", !.content = c.content,
                                !.version = c.version, !.previous = c.previous]
<1> USE DEF Base, history, bounds
<1>1. pc[p] = "saved" /\ UNCHANGED <<group, file, queued, bounds, converted, raced, contested>>
  BY DEF CommitUpload
<1>2. c \in Context /\ c.id \in JobIds /\ job[c.id].state = "none"
  BY <1>1 DEF TypeOK, RequestsInv
<1>3. row \in Row /\ row.state = "pending"
  BY <1>2, Picks, Constants DEF NoRow, Row, Context, Kinds, Terminal
<1>4. \/ job' = [job EXCEPT ![c.id] = row] /\ UNCHANGED torn
      \/ job' = job /\ torn' = torn \cup {c.id}
  BY DEF CommitUpload
<1>5. ThenSend(p, {c.id}) \/ Done(p)
  BY DEF CommitUpload
<1> HIDE DEF c, row
<1>6. TypeOK'
  <2>1. pc' \in [Procs -> {"idle", "saved", "parsed", "send"}] /\ ctx' \in [Procs -> Context]
    BY <1>2, <1>5, Sending
  <2>2. job' \in [JobIds -> Row] /\ torn' \subseteq JobIds
    BY <1>2, <1>3, <1>4 DEF TypeOK
  <2>q. QED BY <1>1, <2>1, <2>2 DEF TypeOK
<1>7. \A j \in JobIds : job[j].state # "none" => job'[j].state # "none"
  BY <1>3, <1>4 DEF TypeOK
<1>8. \A j \in JobIds : j # c.id => job'[j] = job[j]
  BY <1>4 DEF TypeOK
<1>9. \A q \in Procs : q # p /\ pc[q] = "saved" => ctx[q].id # c.id
  BY <1>1 DEF RequestsInv, c
<1>10. /\ pc'[p] # "saved" /\ (pc'[p] = "send" => ctx'[p].send # {})
       /\ \A q \in Procs : q # p => pc'[q] = pc[q] /\ ctx'[q] = ctx[q]
  BY <1>2, <1>5, Sending
<1>11. RequestsInv'
  BY <1>7, <1>8, <1>9, <1>10, RequestsKept
<1>q. QED BY <1>6, <1>11

\* The rows of a message or a benchmark, and the rows without those deleted.
LEMMA InsertedRows ==
  ASSUME Base, NEW jobs \in SUBSET JobIds, NEW kind \in Kinds, NEW m \in GroupIds
  PROVE  /\ Inserted(jobs, kind, m) \in [JobIds -> Row]
         /\ \A j \in JobIds \ jobs : Inserted(jobs, kind, m)[j] = job[j]
         /\ \A j \in jobs :
              /\ Inserted(jobs, kind, m)[j].state = "pending" /\ Inserted(jobs, kind, m)[j].kind = kind
              /\ Inserted(jobs, kind, m)[j].group = m /\ Inserted(jobs, kind, m)[j].previous = 0
<1> DEFINE row == [NoRow EXCEPT !.state = "pending", !.kind = kind, !.version = 1, !.group = m]
<1>1. /\ row \in Row /\ row.state = "pending" /\ row.kind = kind /\ row.group = m /\ row.previous = 0
  BY Picks, Constants DEF NoRow, Row, Kinds, Terminal
<1>2. Inserted(jobs, kind, m) = [j \in JobIds |-> IF j \in jobs THEN row ELSE job[j]]
  BY DEF Inserted
<1> HIDE DEF row
<1>3. job \in [JobIds -> Row]  BY DEF Base, TypeOK
<1>q. QED BY <1>1, <1>2, <1>3

LEMMA WithoutRows ==
  ASSUME Base, NEW jobs \in SUBSET JobIds
  PROVE  LET rows == Without(jobs)
         IN /\ rows \in [JobIds -> Row]
            /\ \A j \in JobIds :
                 /\ rows[j].state = IF j \in jobs THEN "gone" ELSE job[j].state
                 /\ rows[j].previous = IF j \in jobs \/ job[j].previous \in jobs THEN 0 ELSE job[j].previous
                 /\ rows[j].kind = job[j].kind /\ rows[j].content = job[j].content
                 /\ rows[j].version = job[j].version /\ rows[j].group = job[j].group
<1>1. job \in [JobIds -> Row]  BY DEF Base, TypeOK
<1>q. QED BY <1>1 DEF Without, Row

\* A request between two transactions.
LEMMA SendNextBase ==
  ASSUME Base, NEW p \in Procs, SendNext(p)
  PROVE  Base'
<1> USE DEF Base, history, bounds
<1> DEFINE j == Lowest(ctx[p].send)
<1>1. ctx[p].send \in SUBSET JobIds /\ ctx[p].send # {}
  BY DEF SendNext, TypeOK, Context, RequestsInv
<1>2. j \in ctx[p].send
  BY <1>1, Constants, LowestIn
<1>3. /\ queued' = [queued EXCEPT ![j] = @ + 1] /\ ThenSend(p, ctx[p].send \ {j})
      /\ UNCHANGED <<job, group, file, bounds, history>>
  BY DEF SendNext
<1> HIDE DEF j
<1>4. /\ pc' \in [Procs -> {"idle", "saved", "parsed", "send"}] /\ ctx' \in [Procs -> Context]
      /\ pc'[p] \in {"idle", "send"} /\ (pc'[p] = "send" => ctx'[p].send # {})
      /\ \A q \in Procs : q # p => pc'[q] = pc[q] /\ ctx'[q] = ctx[q]
  BY <1>1, <1>3, Sending
<1>5. TypeOK'  BY <1>1, <1>2, <1>3, <1>4 DEF TypeOK
<1>6. RequestsInv'  BY <1>3, <1>4, RequestsKept
<1>q. QED BY <1>5, <1>6

LEMMA PostMailBase ==
  ASSUME Base, NEW p \in Procs, PostMail(p)
  PROVE  Base'
<1> USE DEF Base, history, bounds
<1>1. /\ UNCHANGED <<job, group, file, queued, deaths, converted, contested, torn>>
      /\ started < MaxRequests /\ started' = started + 1
  BY DEF PostMail, Begin
<1>2. PICK o \in Owners, c \in Messages :
        \/ (\E m \in SameMail(c) : Visible(o, m) /\ ThenSend(p, Pending(m))) /\ UNCHANGED raced
        \/ /\ Goto(p, "parsed")
           /\ ctx' = [ctx EXCEPT ![p] = [Blank EXCEPT !.owner = o, !.message = c]]
           /\ raced' = IF \E q \in Procs : pc[q] = "parsed" /\ ctx[q].message = c THEN raced \cup {c} ELSE raced
  BY DEF PostMail
<1>3. /\ pc' \in [Procs -> {"idle", "saved", "parsed", "send"}] /\ ctx' \in [Procs -> Context]
      /\ pc'[p] # "saved" /\ (pc'[p] = "send" => ctx'[p].send # {})
      /\ \A q \in Procs : q # p => pc'[q] = pc[q] /\ ctx'[q] = ctx[q]
      /\ raced' \subseteq Messages
  <2>1. CASE (\E m \in SameMail(c) : Visible(o, m) /\ ThenSend(p, Pending(m))) /\ UNCHANGED raced
    <3>1. \A m \in GroupIds : Pending(m) \in SUBSET JobIds  BY DEF Pending, ChildrenOf
    <3>2. PICK m \in GroupIds : ThenSend(p, Pending(m))  BY <2>1 DEF SameMail
    <3>q. QED BY <2>1, <3>1, <3>2, Sending DEF TypeOK
  <2>2. CASE ~((\E m \in SameMail(c) : Visible(o, m) /\ ThenSend(p, Pending(m))) /\ UNCHANGED raced)
    <3> DEFINE new == [Blank EXCEPT !.owner = o, !.message = c]
    <3>1. new \in Context  BY BlankTyped
    <3>2. /\ pc' = [pc EXCEPT ![p] = "parsed"] /\ ctx' = [ctx EXCEPT ![p] = new]
          /\ raced' \subseteq raced \cup {c}
      BY <1>2, <2>2 DEF Goto
    <3> HIDE DEF new
    <3>q. QED BY <3>1, <3>2 DEF TypeOK
  <2>q. QED BY <2>1, <2>2
<1>4. TypeOK'  BY <1>1, <1>3, Constants DEF TypeOK
<1>5. RequestsInv'  BY <1>1, <1>3, RequestsKept
<1>q. QED BY <1>4, <1>5

\* What the insertion of a message or a benchmark changes.
InsertsGroup(p, kind, m, jobs) ==
  /\ m \in GroupIds /\ group[m].state = "none" /\ m # 0
  /\ jobs \subseteq FreeJobs /\ Cardinality(jobs) = Children
  /\ \E row \in Group : /\ group' = [group EXCEPT ![m] = row]
                        /\ row.state = "there" /\ row.kind = kind
                        /\ kind = "mail" => row.owner = ctx[p].owner /\ row.content = ctx[p].message
  /\ job' = Inserted(jobs, kind, m)
  /\ ThenSend(p, jobs)

LEMMA CommitMailEffect ==
  ASSUME Base, NEW p \in Procs, CommitMail(p)
  PROVE  /\ pc[p] = "parsed" /\ UNCHANGED <<file, queued, bounds, history>>
         /\ \/ /\ \E m \in GroupIds, jobs \in SUBSET JobIds : InsertsGroup(p, "mail", m, jobs)
               /\ Unique(ctx[p].owner, ctx[p].message)
            \/ /\ UNCHANGED <<job, group>>
               /\ \E same \in GroupIds : ThenSend(p, Pending(same))
<1> DEFINE m == Lowest(FreeGroups)
           jobs == Fresh(Children)
           row == [state |-> "there", kind |-> "mail", owner |-> ctx[p].owner, content |-> ctx[p].message]
<1>1. pc[p] = "parsed" /\ FreeGroups # {} /\ Cardinality(jobs) = Children
      /\ UNCHANGED <<file, queued, bounds, history>>
  BY DEF CommitMail
<1>2. m \in GroupIds /\ group[m].state = "none" /\ m # 0 /\ jobs \subseteq FreeJobs /\ jobs \in SUBSET JobIds
  BY <1>1, FreeIds, ConstantsAssumption
<1>3. CASE Unique(ctx[p].owner, ctx[p].message)
  <2>1. /\ group' = [group EXCEPT ![m] = row] /\ job' = Inserted(jobs, "mail", m) /\ ThenSend(p, jobs)
    BY <1>3 DEF CommitMail
  <2>2. row \in Group /\ row.state = "there" /\ row.kind = "mail"
        /\ row.owner = ctx[p].owner /\ row.content = ctx[p].message
    BY DEF Base, TypeOK, Context, Group, Kinds
  <2> HIDE DEF m, jobs, row
  <2>q. QED BY <1>1, <1>2, <1>3, <2>1, <2>2 DEF InsertsGroup
<1>4. CASE ~Unique(ctx[p].owner, ctx[p].message)
  BY <1>1, <1>4 DEF CommitMail, RolledBack, SameMail
<1>q. QED BY <1>3, <1>4

LEMMA CreateBenchmarkEffect ==
  ASSUME Base, NEW p \in Procs, CreateBenchmark(p)
  PROVE  /\ pc[p] = "idle" /\ UNCHANGED <<queued, deaths, history>>
         /\ started < MaxRequests /\ started' = started + 1
         /\ \E m \in GroupIds, jobs \in SUBSET JobIds :
              InsertsGroup(p, "benchmark", m, jobs) /\ file' = file \cup jobs
<1> DEFINE m == Lowest(FreeGroups)
           jobs == Fresh(Children)
           row == [NoGroup EXCEPT !.state = "there", !.kind = "benchmark"]
<1>1. /\ pc[p] = "idle" /\ FreeGroups # {} /\ Cardinality(jobs) = Children
      /\ UNCHANGED <<queued, deaths, history>> /\ started < MaxRequests /\ started' = started + 1
      /\ group' = [group EXCEPT ![m] = row] /\ job' = Inserted(jobs, "benchmark", m)
      /\ file' = file \cup jobs /\ ThenSend(p, jobs)
  BY DEF CreateBenchmark, Begin
<1>2. m \in GroupIds /\ group[m].state = "none" /\ m # 0 /\ jobs \subseteq FreeJobs /\ jobs \in SUBSET JobIds
  BY <1>1, FreeIds, ConstantsAssumption
<1>3. row \in Group /\ row.state = "there" /\ row.kind = "benchmark"
  BY Picks DEF NoGroup, Group, Kinds
<1> HIDE DEF m, jobs, row
<1>q. QED BY <1>1, <1>2, <1>3 DEF InsertsGroup

LEMMA InsertBase ==
  ASSUME Base, NEW p \in Procs, NEW kind \in {"mail", "benchmark"}, NEW m \in GroupIds,
         NEW jobs \in SUBSET JobIds, InsertsGroup(p, kind, m, jobs),
         pc[p] # "saved",
         UNCHANGED <<queued, deaths, history>>, file' \subseteq JobIds, started' \in 0..MaxRequests
  PROVE  Base'
<1> USE DEF Base, history
<1>1. PICK row \in Group : group' = [group EXCEPT ![m] = row]
  BY DEF InsertsGroup
<1>2. ThenSend(p, jobs) /\ job' = Inserted(jobs, kind, m) /\ jobs \subseteq FreeJobs
  BY DEF InsertsGroup
<1>3. kind \in Kinds  BY DEF Kinds
<1>4. /\ pc' \in [Procs -> {"idle", "saved", "parsed", "send"}] /\ ctx' \in [Procs -> Context]
      /\ pc'[p] \in {"idle", "send"} /\ (pc'[p] = "send" => ctx'[p].send # {})
      /\ \A q \in Procs : q # p => pc'[q] = pc[q] /\ ctx'[q] = ctx[q]
  BY <1>2, Sending
<1>5. /\ job' \in [JobIds -> Row] /\ \A j \in JobIds \ jobs : job'[j] = job[j]
      /\ \A j \in jobs : job'[j].state = "pending"
  <2>1. Base  OBVIOUS
  <2> HIDE DEF Base
  <2>2. /\ Inserted(jobs, kind, m) \in [JobIds -> Row]
        /\ \A j \in JobIds \ jobs : Inserted(jobs, kind, m)[j] = job[j]
        /\ \A j \in jobs : Inserted(jobs, kind, m)[j].state = "pending"
    BY <1>3, <2>1, InsertedRows
  <2>q. QED BY <1>2, <2>2
<1>6. \A j \in jobs : \A q \in Procs : ctx[q].id # j
  BY <1>2, FreeIds
<1>7. TypeOK'
  BY <1>1, <1>4, <1>5 DEF TypeOK
<1>8. RequestsInv'
  <2>1. \A j \in JobIds : job[j].state = "none" /\ (\E q \in Procs : q # p /\ pc[q] = "saved" /\ ctx[q].id = j)
                           => job'[j].state = "none"
    BY <1>5, <1>6
  <2>2. \A j \in JobIds : job[j].state # "none" => job'[j].state # "none"
    BY <1>5
  <2>q. QED BY <1>4, <2>1, <2>2, RequestsKept
<1>q. QED BY <1>7, <1>8

\* Deletions and conversions, which leave the requests alone.
LEMMA RowsBase ==
  ASSUME Base, job' \in [JobIds -> Row], group' \in [GroupIds -> Group], file' \subseteq JobIds,
         queued' \in [JobIds -> Nat], converted' \in [JobIds -> Nat], torn' \subseteq JobIds,
         started' \in 0..MaxRequests, UNCHANGED <<pc, ctx, deaths, raced, contested>>,
         \A j \in JobIds : job'[j].state = "none" <=> job[j].state = "none"
  PROVE  Base'
<1> USE DEF Base
<1>1. TypeOK'  BY DEF TypeOK
<1>2. \A q \in Procs : ctx[q].previous \in JobIds \cup {0}
  BY DEF TypeOK, Context
<1>3. RequestsInv'  BY <1>2 DEF RequestsInv
<1>q. QED BY <1>1, <1>3

LEMMA DeletionBase ==
  ASSUME Base, NEW jobs \in SUBSET JobIds, \A j \in jobs : Exists(j),
         job' = Without(jobs), group' \in [GroupIds -> Group], file' \subseteq file, torn' \subseteq JobIds,
         started < MaxRequests, started' = started + 1,
         UNCHANGED <<queued, pc, ctx, deaths, converted, raced, contested>>
  PROVE  Base'
<1>1. job' \in [JobIds -> Row] /\ \A j \in JobIds : job'[j].state = "none" <=> job[j].state = "none"
  BY WithoutRows DEF Exists
<1>2. started' \in 0..MaxRequests  BY Constants DEF Base, TypeOK
<1>3. file' \subseteq JobIds /\ queued' \in [JobIds -> Nat] /\ converted' \in [JobIds -> Nat]
  BY DEF Base, TypeOK
<1>q. QED BY <1>1, <1>2, <1>3, RowsBase

\* The jobs each deletion takes.
LEMMA Deletions ==
  ASSUME Base
  PROVE  /\ \A j \in JobIds : DeleteJob(j) => {j} \in SUBSET JobIds /\ Deletable(j) /\ job' = Without({j})
         /\ \A m \in GroupIds : ChildrenOf(m) \in SUBSET JobIds /\ \A j \in ChildrenOf(m) : Exists(j)
         /\ \A j \in JobIds : Deletable(j) => Exists(j)
BY DEF DeleteJob, ChildrenOf, Deletable

LEMMA DeletedGroup ==
  ASSUME Base, NEW m \in GroupIds
  PROVE  [group EXCEPT ![m].state = "gone"] \in [GroupIds -> Group]
BY DEF Base, TypeOK, Group

\* The attachments a deleted message leaves.
LEMMA OrphanedRows ==
  ASSUME Base, NEW m \in GroupIds,
         job' = [j \in JobIds |-> IF j \in ChildrenOf(m) THEN [job[j] EXCEPT !.group = 0] ELSE job[j]]
  PROVE  /\ job' \in [JobIds -> Row]
         /\ \A j \in JobIds : /\ job'[j].state = job[j].state /\ job'[j].previous = job[j].previous
                              /\ job'[j].kind = job[j].kind /\ job'[j].content = job[j].content
                              /\ job'[j].version = job[j].version
                              /\ job'[j].group = IF j \in ChildrenOf(m) THEN 0 ELSE job[j].group
<1>1. job \in [JobIds -> Row]  BY DEF Base, TypeOK
<1>q. QED BY <1>1 DEF Row

LEMMA ConvertedRows ==
  ASSUME Base, NEW j \in JobIds, Convert(j)
  PROVE  /\ job' \in [JobIds -> Row]
         /\ \A i \in JobIds : /\ job'[i].previous = job[i].previous
                              /\ job'[i].kind = job[i].kind /\ job'[i].content = job[i].content
                              /\ job'[i].version = job[i].version /\ job'[i].group = job[i].group
                              /\ IF i = j /\ job[j].state = "pending" THEN job'[i].state \in Terminal
                                 ELSE job'[i].state = job[i].state
         /\ converted' = IF job[j].state = "pending" THEN [converted EXCEPT ![j] = @ + 1] ELSE converted
         /\ file' = IF job[j].state = "pending" THEN file \cup {j} ELSE file
<1>1. job \in [JobIds -> Row]  BY DEF Base, TypeOK
<1>2. CASE job[j].state = "pending"
  <2>1. PICK result \in Terminal : job' = [job EXCEPT ![j].state = result]
    BY <1>2 DEF Convert, Claimable, Terminal
  <2>q. QED BY <1>1, <1>2, <2>1 DEF Row, Convert, Claimable
<1>3. CASE job[j].state # "pending"
  BY <1>1, <1>3 DEF Convert, Claimable
<1>q. QED BY <1>2, <1>3

LEMMA RestBase ==
  ASSUME Base,
         \/ \E m \in GroupIds : ReadMail(m) \/ DeleteMail(m) \/ DeleteBenchmark(m)
         \/ \E j \in JobIds : DeleteJob(j) \/ Convert(j)
         \/ \E p \in Procs : RequestDies(p)
         \/ DeleteFolder \/ UNCHANGED vars
  PROVE  Base'
<1> USE DEF history, bounds
<1>0. TypeOK  BY DEF Base
<1>1. ASSUME NEW m \in GroupIds, ReadMail(m) PROVE Base'
  <2>1. queued' \in [JobIds -> Nat]  BY <1>0, <1>1 DEF ReadMail, TypeOK
  <2>q. QED BY <1>0, <1>1, <2>1, RowsBase DEF ReadMail, TypeOK
<1>2. ASSUME NEW j \in JobIds, DeleteJob(j) PROVE Base'
  BY <1>0, <1>2, Deletions, DeletionBase DEF DeleteJob, Begin, TypeOK
<1>3. CASE DeleteFolder
  <2> DEFINE jobs == {i \in JobIds : Deletable(i)}
  <2>1. jobs \in SUBSET JobIds /\ (\A i \in jobs : Exists(i))  BY Deletions
  <2>2. job' = Without(jobs) /\ file' \subseteq file /\ started < MaxRequests /\ started' = started + 1
        /\ UNCHANGED <<group, queued, pc, ctx, deaths, converted, raced, contested, torn>>
    BY <1>3 DEF DeleteFolder, Begin
  <2> HIDE DEF jobs
  <2>q. QED BY <1>0, <2>1, <2>2, DeletionBase DEF TypeOK
<1>4. ASSUME NEW m \in GroupIds, DeleteMail(m) PROVE Base'
  <2>1. group' \in [GroupIds -> Group] /\ started < MaxRequests /\ started' = started + 1
        /\ UNCHANGED <<file, queued, pc, ctx, deaths, converted, raced, contested>>
    BY <1>4, DeletedGroup DEF DeleteMail, Begin
  <2>2. CASE job' = Without(ChildrenOf(m)) /\ torn' = torn \cup (ChildrenOf(m) \cap file)
    <3>1. torn' \subseteq JobIds  BY <1>0, <2>2 DEF TypeOK
    <3>q. QED BY <2>1, <2>2, <3>1, Deletions, DeletionBase
  <2>3. CASE /\ job' = [i \in JobIds |-> IF i \in ChildrenOf(m) THEN [job[i] EXCEPT !.group = 0] ELSE job[i]]
             /\ UNCHANGED torn
    <3>1. started' \in 0..MaxRequests  BY <1>0, <2>1, Constants DEF TypeOK
    <3>q. QED BY <1>0, <2>1, <2>3, <3>1, OrphanedRows, RowsBase DEF TypeOK
  <2>q. QED BY <1>4, <2>2, <2>3 DEF DeleteMail
<1>5. ASSUME NEW m \in GroupIds, DeleteBenchmark(m) PROVE Base'
  <2>1. /\ group' \in [GroupIds -> Group] /\ started < MaxRequests /\ started' = started + 1
        /\ job' = Without(ChildrenOf(m)) /\ file' \subseteq file
        /\ UNCHANGED <<queued, pc, ctx, deaths, converted, raced, contested, torn>>
    BY <1>5, DeletedGroup DEF DeleteBenchmark, Begin
  <2>q. QED BY <1>0, <2>1, Deletions, DeletionBase DEF TypeOK
<1>6. ASSUME NEW j \in JobIds, Convert(j) PROVE Base'
  <2>1. /\ queued[j] > 0 /\ queued' = [queued EXCEPT ![j] = @ - 1]
        /\ UNCHANGED <<group, pc, ctx, bounds, raced, contested, torn>>
    BY <1>6 DEF Convert, Delivered
  <2>2. queued' \in [JobIds -> Nat]  BY <1>0, <2>1 DEF TypeOK
  <2>3. converted' \in [JobIds -> Nat] /\ file' \subseteq JobIds
    BY <1>0, <1>6, ConvertedRows DEF TypeOK
  <2>4. \A i \in JobIds : job'[i].state = "none" <=> job[i].state = "none"
    BY <1>6, ConvertedRows DEF Terminal
  <2>q. QED BY <1>0, <1>6, <2>1, <2>2, <2>3, <2>4, ConvertedRows, RowsBase DEF TypeOK
<1>7. ASSUME NEW p \in Procs, RequestDies(p) PROVE Base'
  <2>1. /\ Done(p) /\ UNCHANGED <<job, group, file, queued, started, converted, raced, contested>>
        /\ deaths < MaxDeaths /\ deaths' = deaths + 1
        /\ torn' = IF pc[p] = "saved" THEN torn \cup {ctx[p].id} ELSE torn
    BY <1>7 DEF RequestDies
  <2>2. {} \in SUBSET JobIds  OBVIOUS
  <2>3. /\ pc' \in [Procs -> {"idle", "saved", "parsed", "send"}] /\ ctx' \in [Procs -> Context]
        /\ pc'[p] \in {"idle", "send"} /\ (pc'[p] = "send" => ctx'[p].send # {})
        /\ \A q \in Procs : q # p => pc'[q] = pc[q] /\ ctx'[q] = ctx[q]
    BY <2>1, <2>2, Sending
  <2>4. torn' \subseteq JobIds  BY <1>0, <2>1 DEF Base, TypeOK, RequestsInv
  <2>5. TypeOK'  BY <1>0, <2>1, <2>3, <2>4, Constants DEF TypeOK
  <2>6. RequestsInv'  BY <2>1, <2>3, RequestsKept
  <2>q. QED BY <2>5, <2>6 DEF Base
<1>8. CASE UNCHANGED vars
  BY <1>8 DEF vars, Base, TypeOK, RequestsInv
<1>q. QED BY <1>1, <1>2, <1>3, <1>4, <1>5, <1>6, <1>7, <1>8

LEMMA NextBase == Base /\ [Next]_vars => Base'
<1> SUFFICES ASSUME Base, [Next]_vars PROVE Base'  OBVIOUS
<1>1. ASSUME NEW p \in Procs, CommitMail(p) PROVE Base'
  <2>1. CASE \E m \in GroupIds, jobs \in SUBSET JobIds : InsertsGroup(p, "mail", m, jobs)
    <3>1. /\ pc[p] # "saved" /\ file' \subseteq JobIds /\ started' \in 0..MaxRequests
          /\ UNCHANGED <<queued, deaths, history>>
      BY <1>1, CommitMailEffect DEF bounds, Base, TypeOK
    <3>q. QED BY <2>1, <3>1, InsertBase
  <2>2. CASE /\ UNCHANGED <<job, group>>
             /\ \E same \in GroupIds : ThenSend(p, Pending(same))
    <3>1. PICK same \in GroupIds : ThenSend(p, Pending(same))  BY <2>2
    <3>2. Pending(same) \in SUBSET JobIds  BY DEF Pending, ChildrenOf
    <3>3. /\ pc' \in [Procs -> {"idle", "saved", "parsed", "send"}] /\ ctx' \in [Procs -> Context]
          /\ pc'[p] \in {"idle", "send"} /\ (pc'[p] = "send" => ctx'[p].send # {})
          /\ \A q \in Procs : q # p => pc'[q] = pc[q] /\ ctx'[q] = ctx[q]
      BY <3>1, <3>2, Sending
    <3>4. UNCHANGED <<file, queued, bounds, history>>  BY <1>1, CommitMailEffect
    <3>5. TypeOK'  BY <2>2, <3>3, <3>4 DEF bounds, history, Base, TypeOK
    <3>6. RequestsInv'  BY <2>2, <3>3, RequestsKept
    <3>q. QED BY <3>5, <3>6 DEF Base
  <2>q. QED BY <1>1, <2>1, <2>2, CommitMailEffect
<1>2. ASSUME NEW p \in Procs, CreateBenchmark(p) PROVE Base'
  <2>1. PICK m \in GroupIds, jobs \in SUBSET JobIds :
          InsertsGroup(p, "benchmark", m, jobs) /\ file' = file \cup jobs
    BY <1>2, CreateBenchmarkEffect
  <2>2. /\ pc[p] # "saved" /\ file' \subseteq JobIds /\ started' \in 0..MaxRequests
        /\ UNCHANGED <<queued, deaths, history>>
    BY <1>2, <2>1, CreateBenchmarkEffect, Constants DEF Base, TypeOK
  <2>q. QED BY <2>1, <2>2, InsertBase
<1>3. ASSUME NEW p \in Procs, Request(p) PROVE Base'
  BY <1>1, <1>2, <1>3, SaveBase, CommitUploadBase, PostMailBase, SendNextBase DEF Request
<1>q. QED BY <1>3, RestBase DEF Next

-----------------------------------------------------------------------------
(* The steps, by what they do to the rows                                  *)

Keeps == \A q \in Procs : (pc'[q] = "saved" <=> pc[q] = "saved") /\ (pc[q] = "saved" => ctx'[q] = ctx[q])

Quiet == UNCHANGED <<job, group, file, converted, torn, contested>> /\ Keeps

Inserts(kind, m, jobs) ==
  /\ \E p \in Procs : InsertsGroup(p, kind, m, jobs) /\ (kind = "mail" => Unique(ctx[p].owner, ctx[p].message))
  /\ file' = (IF kind = "mail" THEN file ELSE file \cup jobs)
  /\ UNCHANGED <<converted, torn, contested>> /\ Keeps

Removes(jobs) ==
  /\ \A j \in jobs : Exists(j)
  /\ job' = Without(jobs) /\ UNCHANGED <<pc, ctx, converted, contested>>
  /\ \/ file' = file \ jobs /\ torn' = torn
     \/ file' = file /\ torn' = torn \cup (jobs \cap file)
  /\ \/ group' = group /\ \A j \in jobs : Deletable(j)
     \/ \E m \in GroupIds : Stored(m) /\ jobs = ChildrenOf(m) /\ group' = [group EXCEPT ![m].state = "gone"]

Orphans(m) ==
  /\ Stored(m) /\ group' = [group EXCEPT ![m].state = "gone"]
  /\ job' = [j \in JobIds |-> IF j \in ChildrenOf(m) THEN [job[j] EXCEPT !.group = 0] ELSE job[j]]
  /\ UNCHANGED <<pc, ctx, file, converted, torn, contested>>

Commits(p) ==
  /\ pc[p] = "saved" /\ pc'[p] # "saved" /\ (\A q \in Procs : q # p => pc'[q] = pc[q] /\ ctx'[q] = ctx[q])
  /\ UNCHANGED <<group, file, converted, contested>>
  /\ \/ /\ Accepted(ctx[p].previous) /\ UNCHANGED torn
        /\ \E row \in Row :
             /\ job' = [job EXCEPT ![ctx[p].id] = row]
             /\ row.state = "pending" /\ row.kind = "upload" /\ row.group = 0 /\ row.content = ctx[p].content
             /\ row.version = ctx[p].version /\ row.previous = ctx[p].previous
     \/ job' = job /\ torn' = torn \cup {ctx[p].id}

Dies(p) ==
  /\ pc'[p] # "saved" /\ (\A q \in Procs : q # p => pc'[q] = pc[q] /\ ctx'[q] = ctx[q])
  /\ UNCHANGED <<job, group, file, converted, contested>>
  /\ torn' = IF pc[p] = "saved" THEN torn \cup {ctx[p].id} ELSE torn

LEMMA CommitEffect ==
  ASSUME Base, NEW p \in Procs, CommitUpload(p)
  PROVE  Commits(p)
<1> DEFINE c == ctx[p]
<1> DEFINE row == [NoRow EXCEPT !.state = "pending", !.content = c.content,
                                !.version = c.version, !.previous = c.previous]
<1>1. pc[p] = "saved" /\ UNCHANGED <<group, file, converted, contested>>
  BY DEF CommitUpload
<1>2. c \in Context /\ c.id \in JobIds
  BY <1>1 DEF Base, TypeOK, RequestsInv
<1>3. /\ row \in Row /\ row.state = "pending" /\ row.kind = "upload" /\ row.group = 0
      /\ row.content = c.content /\ row.version = c.version /\ row.previous = c.previous
  BY <1>2, Picks, Constants DEF NoRow, Row, Context, Kinds, Terminal
<1>4. \/ Accepted(c.previous) /\ job' = [job EXCEPT ![c.id] = row] /\ UNCHANGED torn
      \/ job' = job /\ torn' = torn \cup {c.id}
  BY DEF CommitUpload
<1>5. ThenSend(p, {c.id}) \/ Done(p)
  BY DEF CommitUpload
<1>6. pc'[p] # "saved" /\ \A q \in Procs : q # p => pc'[q] = pc[q] /\ ctx'[q] = ctx[q]
  <2> HIDE DEF c
  <2>q. QED BY <1>2, <1>5, Sending
<1> HIDE DEF row
<1>q. QED BY <1>1, <1>3, <1>4, <1>6 DEF Commits

LEMMA DiesEffect ==
  ASSUME Base, NEW p \in Procs, RequestDies(p)
  PROVE  Dies(p)
<1>1. {} \in SUBSET JobIds  OBVIOUS
<1>2. Done(p)  BY DEF RequestDies
<1>3. pc'[p] # "saved" /\ \A q \in Procs : q # p => pc'[q] = pc[q] /\ ctx'[q] = ctx[q]
  BY <1>1, <1>2, Sending
<1>q. QED BY <1>3 DEF RequestDies, Dies

\* A request that was not saving a file and is not saves none.
LEMMA KeepsSaved ==
  ASSUME NEW p \in Procs, pc[p] # "saved", pc'[p] # "saved",
         \A q \in Procs : q # p => pc'[q] = pc[q] /\ ctx'[q] = ctx[q]
  PROVE  Keeps
BY DEF Keeps

LEMMA StepCases ==
  ASSUME Base, [Next]_vars
  PROVE  \/ \E p \in Procs : SaveUpload(p) \/ Commits(p) \/ Dies(p)
         \/ \E kind \in {"mail", "benchmark"}, m \in GroupIds, jobs \in SUBSET JobIds : Inserts(kind, m, jobs)
         \/ \E jobs \in SUBSET JobIds : Removes(jobs)
         \/ \E m \in GroupIds : Orphans(m)
         \/ \E j \in JobIds : Convert(j)
         \/ Quiet
<1> USE DEF history, bounds
<1>1. ASSUME NEW p \in Procs, CommitMail(p)
      PROVE  Quiet \/ \E m \in GroupIds, jobs \in SUBSET JobIds : Inserts("mail", m, jobs)
  <2>1. ASSUME NEW jobs \in SUBSET JobIds, ThenSend(p, jobs) PROVE Keeps
    <3>1. pc'[p] # "saved" /\ \A q \in Procs : q # p => pc'[q] = pc[q] /\ ctx'[q] = ctx[q]
      BY <2>1, Sending
    <3>2. pc[p] # "saved"  BY <1>1, CommitMailEffect
    <3>q. QED BY <3>1, <3>2, KeepsSaved
  <2>2. ASSUME NEW m \in GroupIds, NEW jobs \in SUBSET JobIds, InsertsGroup(p, "mail", m, jobs),
               Unique(ctx[p].owner, ctx[p].message)
        PROVE  Inserts("mail", m, jobs)
    BY <1>1, <2>1, <2>2, CommitMailEffect DEF Inserts, InsertsGroup
  <2>3. ASSUME NEW same \in GroupIds, ThenSend(p, Pending(same)), UNCHANGED <<job, group>>
        PROVE  Quiet
    <3>1. Pending(same) \in SUBSET JobIds  BY DEF Pending, ChildrenOf
    <3>q. QED BY <1>1, <2>1, <2>3, <3>1, CommitMailEffect DEF Quiet
  <2>q. QED BY <1>1, <2>2, <2>3, CommitMailEffect
<1>2. ASSUME NEW p \in Procs, CreateBenchmark(p)
      PROVE  \E m \in GroupIds, jobs \in SUBSET JobIds : Inserts("benchmark", m, jobs)
  <2>1. PICK m \in GroupIds, jobs \in SUBSET JobIds :
          InsertsGroup(p, "benchmark", m, jobs) /\ file' = file \cup jobs
    BY <1>2, CreateBenchmarkEffect
  <2>2. pc[p] = "idle" /\ UNCHANGED history  BY <1>2, CreateBenchmarkEffect
  <2>3. pc'[p] # "saved" /\ \A q \in Procs : q # p => pc'[q] = pc[q] /\ ctx'[q] = ctx[q]
    BY <2>1, Sending DEF InsertsGroup
  <2>4. Keeps  BY <2>2, <2>3, KeepsSaved
  <2>q. QED BY <2>1, <2>2, <2>4 DEF Inserts
<1>3. ASSUME NEW p \in Procs, PostMail(p) PROVE Quiet
  <2>1. pc[p] = "idle" /\ UNCHANGED <<job, group, file, converted, contested, torn>>
    BY <1>3 DEF PostMail
  <2>2. pc'[p] # "saved" /\ \A q \in Procs : q # p => pc'[q] = pc[q] /\ ctx'[q] = ctx[q]
    <3>1. \A m \in GroupIds : Pending(m) \in SUBSET JobIds  BY DEF Pending, ChildrenOf
    <3>2. \/ \E m \in GroupIds : ThenSend(p, Pending(m))
          \/ /\ Goto(p, "parsed")
             /\ \E new : ctx' = [ctx EXCEPT ![p] = new]
      BY <1>3 DEF PostMail, SameMail
    <3>3. CASE \E m \in GroupIds : ThenSend(p, Pending(m))  BY <3>1, <3>3, Sending
    <3>4. CASE Goto(p, "parsed") /\ \E new : ctx' = [ctx EXCEPT ![p] = new]
      BY <3>4 DEF Goto, Base, TypeOK
    <3>q. QED BY <3>2, <3>3, <3>4
  <2>q. QED BY <2>1, <2>2, KeepsSaved DEF Quiet
<1>4. ASSUME NEW p \in Procs, SendNext(p) PROVE Quiet
  <2>1. /\ pc[p] = "send" /\ UNCHANGED <<job, group, file, converted, contested, torn>>
        /\ ThenSend(p, ctx[p].send \ {Lowest(ctx[p].send)})
    BY <1>4 DEF SendNext
  <2>2. ctx[p].send \ {Lowest(ctx[p].send)} \in SUBSET JobIds
    BY DEF Base, TypeOK, Context
  <2>3. pc'[p] # "saved" /\ \A q \in Procs : q # p => pc'[q] = pc[q] /\ ctx'[q] = ctx[q]
    BY <2>1, <2>2, Sending
  <2>q. QED BY <2>1, <2>3, KeepsSaved DEF Quiet
<1>5. ASSUME NEW m \in GroupIds, ReadMail(m) \/ UNCHANGED vars PROVE Quiet
  BY <1>5 DEF ReadMail, vars, Quiet, Keeps
<1>6. ASSUME UNCHANGED vars PROVE Quiet
  BY <1>6 DEF vars, Quiet, Keeps
<1>7. ASSUME NEW j \in JobIds, DeleteJob(j) PROVE Removes({j})
  BY <1>7, Deletions DEF DeleteJob, Removes
<1>8. ASSUME DeleteFolder PROVE Removes({j \in JobIds : Deletable(j)})
  BY <1>8, Deletions DEF DeleteFolder, Removes
<1>9. ASSUME NEW m \in GroupIds, DeleteMail(m) PROVE Removes(ChildrenOf(m)) \/ Orphans(m)
  BY <1>9, Deletions DEF DeleteMail, Removes, Orphans
<1>10. ASSUME NEW m \in GroupIds, DeleteBenchmark(m) PROVE Removes(ChildrenOf(m))
  BY <1>10, Deletions DEF DeleteBenchmark, Removes
<1>11. \A m \in GroupIds : ChildrenOf(m) \in SUBSET JobIds  BY Deletions
<1>12. ASSUME NEW p \in Procs, Request(p) \/ RequestDies(p)
       PROVE  \/ SaveUpload(p) \/ Commits(p) \/ Dies(p) \/ Quiet
              \/ \E kind \in {"mail", "benchmark"}, m \in GroupIds, jobs \in SUBSET JobIds : Inserts(kind, m, jobs)
  BY <1>1, <1>2, <1>3, <1>4, <1>12, CommitEffect, DiesEffect DEF Request
<1>13. ASSUME NEW m \in GroupIds, ReadMail(m) \/ DeleteMail(m) \/ DeleteBenchmark(m)
       PROVE  Quiet \/ (\E jobs \in SUBSET JobIds : Removes(jobs)) \/ \E n \in GroupIds : Orphans(n)
  BY <1>5, <1>9, <1>10, <1>11, <1>13
<1>14. ASSUME NEW j \in JobIds, DeleteJob(j) \/ Convert(j)
       PROVE  (\E jobs \in SUBSET JobIds : Removes(jobs)) \/ \E i \in JobIds : Convert(i)
  <2>1. {j} \in SUBSET JobIds  OBVIOUS
  <2>q. QED BY <1>7, <1>14, <2>1
<1>15. DeleteFolder => \E jobs \in SUBSET JobIds : Removes(jobs)
  <2>1. {j \in JobIds : Deletable(j)} \in SUBSET JobIds  OBVIOUS
  <2>q. QED BY <1>8, <2>1
<1>q. QED BY <1>6, <1>12, <1>13, <1>14, <1>15 DEF Next

\* The rows after each of them.
LEMMA InsertsRows ==
  ASSUME Base, NEW kind \in {"mail", "benchmark"}, NEW m \in GroupIds, NEW jobs \in SUBSET JobIds,
         Inserts(kind, m, jobs)
  PROVE  /\ \A j \in JobIds \ jobs : job'[j] = job[j]
         /\ \A j \in jobs : /\ job[j].state = "none" /\ job'[j].state = "pending" /\ job'[j].kind = kind
                            /\ job'[j].group = m /\ job'[j].previous = 0
         /\ group[m].state = "none" /\ m # 0 /\ group'[m].state = "there" /\ group'[m].kind = kind
         /\ \A n \in GroupIds \ {m} : group'[n] = group[n]
         /\ Cardinality(jobs) = Children
<1>1. kind \in Kinds  BY DEF Kinds
<1>2. /\ group[m].state = "none" /\ m # 0 /\ job' = Inserted(jobs, kind, m) /\ jobs \subseteq FreeJobs
      /\ Cardinality(jobs) = Children
      /\ \E row \in Group : group' = [group EXCEPT ![m] = row] /\ row.state = "there" /\ row.kind = kind
  BY DEF Inserts, InsertsGroup
<1>3. \A j \in jobs : job[j].state = "none"
  BY <1>2, FreeIds
<1>4. group \in [GroupIds -> Group]  BY DEF Base, TypeOK
<1>5. group'[m].state = "there" /\ group'[m].kind = kind /\ \A n \in GroupIds \ {m} : group'[n] = group[n]
  BY <1>2, <1>4
<1>q. QED BY <1>1, <1>2, <1>3, <1>5, InsertedRows

LEMMA CommitsRows ==
  ASSUME Base, NEW p \in Procs, Commits(p)
  PROVE  LET i == ctx[p].id IN
         /\ i \in JobIds /\ job[i].state = "none"
         /\ \A j \in JobIds \ {i} : job'[j] = job[j]
         /\ \/ job' = job /\ torn' = torn \cup {i}
            \/ /\ Accepted(ctx[p].previous) /\ UNCHANGED torn
               /\ job'[i].state = "pending" /\ job'[i].kind = "upload" /\ job'[i].group = 0
               /\ job'[i].content = ctx[p].content /\ job'[i].version = ctx[p].version
               /\ job'[i].previous = ctx[p].previous
BY DEF Commits, Base, TypeOK, RequestsInv

-----------------------------------------------------------------------------
(* Converted once                                                          *)

ConvertedInv ==
  \A j \in JobIds : converted[j] <= 1 /\ (job[j].state \in {"none", "pending"} => converted[j] = 0)

LEMMA NextConverted == Base /\ ConvertedInv /\ [Next]_vars => ConvertedInv'
<1> SUFFICES ASSUME Base, ConvertedInv, [Next]_vars PROVE ConvertedInv'  OBVIOUS
<1> USE DEF ConvertedInv
<1>1. ASSUME NEW p \in Procs, SaveUpload(p) PROVE ConvertedInv'
  BY <1>1, SaveEffect
<1>2. ASSUME NEW p \in Procs, Commits(p) PROVE ConvertedInv'
  BY <1>2, CommitsRows DEF Commits
<1>3. ASSUME NEW p \in Procs, Dies(p) PROVE ConvertedInv'
  BY <1>3 DEF Dies
<1>4. ASSUME NEW kind \in {"mail", "benchmark"}, NEW m \in GroupIds, NEW jobs \in SUBSET JobIds,
             Inserts(kind, m, jobs) PROVE ConvertedInv'
  <2>1. /\ \A j \in JobIds \ jobs : job'[j] = job[j]
        /\ \A j \in jobs : job[j].state = "none"
    BY <1>4, InsertsRows
  <2>2. converted' = converted  BY <1>4 DEF Inserts
  <2>q. QED BY <2>1, <2>2
<1>5. ASSUME NEW jobs \in SUBSET JobIds, Removes(jobs) PROVE ConvertedInv'
  BY <1>5, WithoutRows DEF Removes
<1>6. ASSUME NEW m \in GroupIds, Orphans(m) PROVE ConvertedInv'
  BY <1>6, OrphanedRows DEF Orphans
<1>7. ASSUME NEW j \in JobIds, Convert(j) PROVE ConvertedInv'
  BY <1>7, ConvertedRows DEF Terminal, Base, TypeOK
<1>8. ASSUME Quiet PROVE ConvertedInv'
  BY <1>8 DEF Quiet
<1>q. QED BY <1>1, <1>2, <1>3, <1>4, <1>5, <1>6, <1>7, <1>8, StepCases

\* A job is converted once, however many messages replays and reads send for it
\* (tasks.py:254-287, mail_routes.py:142-182).
THEOREM ConvertsOnce == Spec => []ConvertedOnce
<1>1. Init => ConvertedInv  BY DEF Init, ConvertedInv
<1>2. ConvertedInv => ConvertedOnce  BY DEF ConvertedInv, ConvertedOnce
<1>3. Spec => [](Base /\ ConvertedInv)
  BY <1>1, InitBase, NextBase, NextConverted, PTL DEF Spec
<1>q. QED BY <1>2, <1>3, PTL

-----------------------------------------------------------------------------
(* Messages and benchmarks                                                 *)

\* No job belongs to a row that is not there yet, and a job is of its group's kind.
GroupsInv ==
  /\ WholeGroups
  /\ \A j \in JobIds : job[j].group # 0 => group[job[j].group].state # "none"
  /\ \A j \in JobIds : Exists(j) /\ job[j].group # 0 => job[j].kind = group[job[j].group].kind
  /\ \A j \in JobIds : job[j].state = "none" => job[j].group = 0

LEMMA GroupTyped == TypeOK => \A j \in JobIds : job[j].group \in GroupIds \cup {0}
BY DEF TypeOK, Row

\* A step that keeps the group of every row keeps the groups whole.
LEMMA GroupsKept ==
  ASSUME Base, GroupsInv, UNCHANGED group,
         \A j \in JobIds : /\ job'[j].group = job[j].group /\ job'[j].kind = job[j].kind
                           /\ job'[j].state = "none" <=> job[j].state = "none"
                           /\ Exists(j)' => Exists(j)
  PROVE  GroupsInv'
<1>1. \A m \in GroupIds : {j \in JobIds : job'[j].group = m} = {j \in JobIds : job[j].group = m}
  OBVIOUS
<1>2. WholeGroups'
  BY <1>1 DEF GroupsInv, WholeGroups, Stored
<1>q. QED BY <1>2 DEF GroupsInv

LEMMA NextGroups == Base /\ GroupsInv /\ [Next]_vars => GroupsInv'
<1> SUFFICES ASSUME Base, GroupsInv, [Next]_vars PROVE GroupsInv'  OBVIOUS
<1>0. TypeOK /\ TypeOK'  BY NextBase DEF Base
<1>a. \A j \in JobIds : job[j].group \in GroupIds \cup {0} /\ job'[j].group \in GroupIds \cup {0}
  BY <1>0, GroupTyped DEF TypeOK, Row
<1>1. ASSUME NEW p \in Procs, SaveUpload(p) PROVE GroupsInv'
  <2>1. UNCHANGED <<job, group>>  BY <1>1, SaveEffect
  <2>q. QED BY <2>1, GroupsKept DEF Exists
<1>2. ASSUME NEW p \in Procs, Commits(p) PROVE GroupsInv'
  <2> DEFINE i == ctx[p].id
  <2>1. /\ i \in JobIds /\ job[i].state = "none" /\ job[i].group = 0 /\ UNCHANGED group
        /\ \A j \in JobIds \ {i} : job'[j] = job[j]
        /\ job'[i] = job[i] \/ (job'[i].state = "pending" /\ job'[i].group = 0)
    BY <1>2, CommitsRows DEF Commits, GroupsInv
  <2> HIDE DEF i
  <2>2. \A m \in GroupIds : {j \in JobIds : job'[j].group = m} = {j \in JobIds : job[j].group = m}
    BY <2>1
  <2>3. WholeGroups'
    BY <2>1, <2>2 DEF GroupsInv, WholeGroups, Stored, Exists
  <2>q. QED BY <2>1, <2>3 DEF GroupsInv, Exists
<1>3. ASSUME NEW p \in Procs, Dies(p) PROVE GroupsInv'
  BY <1>3, GroupsKept DEF Dies, Exists
<1>4. ASSUME NEW kind \in {"mail", "benchmark"}, NEW m \in GroupIds, NEW jobs \in SUBSET JobIds,
             Inserts(kind, m, jobs) PROVE GroupsInv'
  <2>1. /\ \A j \in JobIds \ jobs : job'[j] = job[j]
        /\ \A j \in jobs : /\ job[j].state = "none" /\ job'[j].state = "pending" /\ job'[j].kind = kind
                           /\ job'[j].group = m
        /\ group[m].state = "none" /\ m # 0 /\ group'[m].state = "there" /\ group'[m].kind = kind
        /\ \A n \in GroupIds \ {m} : group'[n] = group[n]
        /\ Cardinality(jobs) = Children
    BY <1>4, InsertsRows
  <2>2. {j \in JobIds : job'[j].group = m} = jobs
    BY <2>1 DEF GroupsInv
  <2>3. \A n \in GroupIds \ {m} : {j \in JobIds : job'[j].group = n} = {j \in JobIds : job[j].group = n}
    <3>1. \A j \in jobs : job[j].group = 0  BY <2>1 DEF GroupsInv
    <3>2. \A n \in GroupIds \ {m}, j \in JobIds : job'[j].group = n <=> job[j].group = n
      <4>1. ASSUME NEW n \in GroupIds \ {m}, NEW j \in JobIds PROVE job'[j].group = n <=> job[j].group = n
        <5>1. n # 0 /\ n # m  BY Constants
        <5>2. CASE j \in jobs  BY <2>1, <3>1, <5>1, <5>2
        <5>3. CASE j \notin jobs  BY <2>1, <5>3
        <5>q. QED BY <5>2, <5>3
      <4>q. QED BY <4>1
    <3>q. QED BY <3>2
  <2>4. \A n \in GroupIds : Stored(n)' => Cardinality({j \in JobIds : job'[j].group = n}) = Children
    <3>1. ASSUME NEW n \in GroupIds, Stored(n)' PROVE Cardinality({j \in JobIds : job'[j].group = n}) = Children
      <4>1. CASE n = m  BY <2>1, <2>2, <4>1
      <4>2. CASE n # m
        <5>1. Stored(n)  BY <2>1, <3>1, <4>2 DEF Stored
        <5>2. {j \in JobIds : job'[j].group = n} = {j \in JobIds : job[j].group = n}
          BY <2>3, <4>2
        <5>q. QED BY <5>1, <5>2 DEF GroupsInv, WholeGroups
      <4>q. QED BY <4>1, <4>2
    <3>q. QED BY <3>1
  <2>5. \A j \in JobIds \ jobs : job[j].group # m
    BY <2>1 DEF GroupsInv
  <2>6. \A j \in JobIds : Exists(j)' /\ job'[j].group # 0 => Stored(job[j].group)'
    BY <1>a, <2>1, <2>5 DEF GroupsInv, WholeGroups, Stored, Exists
  <2>q. QED BY <1>a, <2>1, <2>4, <2>5, <2>6 DEF GroupsInv, WholeGroups, Exists
<1>5. ASSUME NEW jobs \in SUBSET JobIds, Removes(jobs) PROVE GroupsInv'
  <2>1. /\ \A j \in jobs : Exists(j)
        /\ \A j \in JobIds :
             /\ job'[j].state = IF j \in jobs THEN "gone" ELSE job[j].state
             /\ job'[j].kind = job[j].kind /\ job'[j].group = job[j].group
    BY <1>5, WithoutRows DEF Removes
  <2>2. \A j \in JobIds : (Exists(j)' => Exists(j) /\ j \notin jobs) /\ (job'[j].state = "none" <=> job[j].state = "none")
    BY <2>1 DEF Exists
  <2>3. CASE group' = group
    BY <2>1, <2>2, <2>3, GroupsKept
  <2>4. ASSUME NEW m \in GroupIds, Stored(m), jobs = ChildrenOf(m), group' = [group EXCEPT ![m].state = "gone"]
        PROVE  GroupsInv'
    <3>1. /\ m # 0 /\ group'[m].state = "gone" /\ group'[m].kind = group[m].kind
          /\ \A n \in GroupIds \ {m} : group'[n] = group[n]
      BY <1>0, <2>4, Constants DEF TypeOK, Group
    <3>2. \A n \in GroupIds : {j \in JobIds : job'[j].group = n} = {j \in JobIds : job[j].group = n}
      BY <2>1
    <3>3. \A n \in GroupIds : Stored(n)' => Cardinality({j \in JobIds : job'[j].group = n}) = Children
      BY <3>1, <3>2 DEF GroupsInv, WholeGroups, Stored
    <3>4. \A j \in JobIds : Exists(j)' => job'[j].group # m
      BY <2>1, <2>2, <2>4 DEF ChildrenOf
    <3>5. \A j \in JobIds : Exists(j)' /\ job'[j].group # 0 => Stored(job[j].group)'
      BY <1>a, <2>1, <2>2, <3>1, <3>4 DEF GroupsInv, WholeGroups, Stored
    <3>q. QED BY <1>a, <2>1, <2>2, <3>1, <3>3, <3>5 DEF GroupsInv, WholeGroups
  <2>q. QED BY <1>5, <2>3, <2>4 DEF Removes
<1>6. ASSUME NEW m \in GroupIds, Orphans(m) PROVE GroupsInv'
  <2>1. \A j \in JobIds : /\ job'[j].state = job[j].state /\ job'[j].kind = job[j].kind
                          /\ job'[j].group = IF j \in ChildrenOf(m) THEN 0 ELSE job[j].group
    BY <1>6, OrphanedRows DEF Orphans
  <2>2. /\ m # 0 /\ group'[m].state = "gone" /\ group'[m].kind = group[m].kind
        /\ \A n \in GroupIds \ {m} : group'[n] = group[n]
    BY <1>0, <1>6, Constants DEF Orphans, TypeOK, Group
  <2>3. \A j \in ChildrenOf(m) : job[j].group = m  BY DEF ChildrenOf
  <2>4. \A n \in GroupIds \ {m} : {j \in JobIds : job'[j].group = n} = {j \in JobIds : job[j].group = n}
    BY <2>1, <2>3, Constants
  <2>5. \A n \in GroupIds : Stored(n)' => Cardinality({j \in JobIds : job'[j].group = n}) = Children
    BY <2>2, <2>4 DEF GroupsInv, WholeGroups, Stored
  <2>6. \A j \in JobIds : Exists(j)' => Exists(j) /\ job'[j].group # m
    BY <2>1, <2>2 DEF ChildrenOf, Exists
  <2>7. \A j \in JobIds : Exists(j)' /\ job'[j].group # 0 => Stored(job[j].group)'
    BY <1>a, <2>1, <2>2, <2>6 DEF GroupsInv, WholeGroups, Stored
  <2>q. QED BY <1>a, <2>1, <2>2, <2>5, <2>6, <2>7 DEF GroupsInv, WholeGroups
<1>7. ASSUME NEW j \in JobIds, Convert(j) PROVE GroupsInv'
  <2>1. UNCHANGED group  BY <1>7 DEF Convert
  <2>q. QED BY <1>7, <2>1, ConvertedRows, GroupsKept DEF Terminal, Exists
<1>8. ASSUME Quiet PROVE GroupsInv'
  BY <1>8, GroupsKept DEF Quiet, Exists
<1>q. QED BY <1>1, <1>2, <1>3, <1>4, <1>5, <1>6, <1>7, <1>8, StepCases

\* A message or a benchmark is stored with all of its jobs or not at all, and no job
\* belongs to one that is not stored (mail_routes.py:385-516, benchmarks.py:234-349).
THEOREM GroupsAreWhole == Spec => []WholeGroups
<1>1. Init => GroupsInv
  BY NoRowTyped DEF Init, GroupsInv, WholeGroups, Stored, Exists
<1>2. Spec => [](Base /\ GroupsInv)
  BY <1>1, InitBase, NextBase, NextGroups, PTL DEF Spec
<1>q. QED BY <1>2, PTL DEF GroupsInv

\* A benchmark that has ended has ended.
LEMMA EndedStatus ==
  ASSUME NEW m \in GroupIds, Status(m) \in {"completed", "failed"}
  PROVE  \A j \in ChildrenOf(m) : job[j].state \in Terminal
<1>1. {job[j].state : j \in ChildrenOf(m)} \subseteq Terminal
  BY DEF Status, StatusOf
<1>q. QED BY <1>1

LEMMA FinalKept ==
  ASSUME NEW m \in GroupIds,
         \A j \in JobIds : (job[j].group = m \/ job'[j].group = m) /\ (Exists(j) \/ Exists(j)') =>
           job'[j].state = job[j].state /\ job'[j].group = job[j].group
  PROVE  Status(m)' = Status(m) /\ ChildrenOf(m)' = ChildrenOf(m)
<1>1. ChildrenOf(m)' = ChildrenOf(m)
  BY DEF ChildrenOf, Exists
<1>2. \A j \in ChildrenOf(m) : job'[j].state = job[j].state
  BY DEF ChildrenOf
<1>3. {job'[j].state : j \in ChildrenOf(m)'} = {job[j].state : j \in ChildrenOf(m)}
  BY <1>1, <1>2
<1>q. QED BY <1>1, <1>3 DEF Status

LEMMA NextFinal ==
  ASSUME Base, GroupsInv, [Next]_vars, NEW m \in GroupIds, Stored(m), group[m].kind = "benchmark",
         Status(m) \in {"completed", "failed"}
  PROVE  ~Stored(m)' \/ (Status(m)' = Status(m) /\ ChildrenOf(m)' = ChildrenOf(m))
<1> DEFINE Final == ~Stored(m)' \/ (Status(m)' = Status(m) /\ ChildrenOf(m)' = ChildrenOf(m))
<1> HIDE DEF Final
<1>0. m # 0 /\ TypeOK  BY Constants DEF Base
<1>a. \A j \in JobIds : job[j].group = m /\ Exists(j) => job[j].state \in Terminal /\ job[j].kind = "benchmark"
  BY <1>0, EndedStatus DEF ChildrenOf, GroupsInv
<1>1. ASSUME NEW p \in Procs, SaveUpload(p) PROVE Final
  <2>1. UNCHANGED job  BY <1>1, SaveEffect
  <2>q. QED BY <2>1, FinalKept DEF Final, Exists
<1>2. ASSUME NEW p \in Procs, Commits(p) PROVE Final
  <2> DEFINE i == ctx[p].id
  <2>1. /\ i \in JobIds /\ job[i].state = "none" /\ job[i].group = 0
        /\ \A j \in JobIds \ {i} : job'[j] = job[j]
        /\ job'[i] = job[i] \/ job'[i].group = 0
    BY <1>2, CommitsRows DEF GroupsInv
  <2> HIDE DEF i
  <2>q. QED BY <1>0, <2>1, FinalKept DEF Final, Exists
<1>3. ASSUME NEW p \in Procs, Dies(p) PROVE Final
  BY <1>3, FinalKept DEF Final, Dies, Exists
<1>4. ASSUME NEW kind \in {"mail", "benchmark"}, NEW n \in GroupIds, NEW jobs \in SUBSET JobIds,
             Inserts(kind, n, jobs) PROVE Final
  <2>1. /\ \A j \in JobIds \ jobs : job'[j] = job[j]
        /\ \A j \in jobs : job[j].state = "none" /\ job'[j].group = n
        /\ group[n].state = "none"
    BY <1>4, InsertsRows
  <2>2. n # m  BY <2>1 DEF Stored
  <2>3. \A j \in jobs : job[j].group = 0  BY <2>1 DEF GroupsInv
  <2>q. QED BY <1>0, <2>1, <2>2, <2>3, FinalKept DEF Final, Exists
<1>5. ASSUME NEW jobs \in SUBSET JobIds, Removes(jobs) PROVE Final
  <2>1. /\ \A j \in jobs : Exists(j)
        /\ \A j \in JobIds :
             /\ job'[j].state = IF j \in jobs THEN "gone" ELSE job[j].state
             /\ job'[j].group = job[j].group
    BY <1>5, WithoutRows DEF Removes
  <2>2. CASE \A j \in jobs : job[j].group # m
    BY <2>1, <2>2, FinalKept DEF Final, Exists
  <2>3. CASE \E j \in jobs : job[j].group = m
    <3>1. PICK j \in jobs : job[j].group = m  BY <2>3
    <3>2. job[j].kind = "benchmark" /\ Exists(j)  BY <1>a, <2>1, <3>1
    <3>3. PICK n \in GroupIds : jobs = ChildrenOf(n) /\ group' = [group EXCEPT ![n].state = "gone"]
      BY <1>5, <3>1, <3>2 DEF Removes, Deletable
    <3>4. n = m  BY <3>1, <3>3 DEF ChildrenOf
    <3>5. group'[m].state = "gone"  BY <1>0, <3>3, <3>4 DEF TypeOK, Group
    <3>q. QED BY <3>5 DEF Final, Stored
  <2>q. QED BY <2>2, <2>3
<1>6. ASSUME NEW n \in GroupIds, Orphans(n) PROVE Final
  <2>1. \A j \in JobIds : /\ job'[j].state = job[j].state
                          /\ job'[j].group = IF j \in ChildrenOf(n) THEN 0 ELSE job[j].group
    BY <1>6, OrphanedRows DEF Orphans
  <2>2. CASE n = m
    <3>1. group'[m].state = "gone"  BY <1>0, <1>6, <2>2 DEF Orphans, TypeOK, Group
    <3>q. QED BY <3>1 DEF Final, Stored
  <2>3. CASE n # m
    <3>1. \A j \in JobIds : j \in ChildrenOf(n) => job[j].group = n  BY DEF ChildrenOf
    <3>q. QED BY <1>0, <2>1, <2>3, <3>1, FinalKept DEF Final
  <2>q. QED BY <2>2, <2>3
<1>7. ASSUME NEW j \in JobIds, Convert(j) PROVE Final
  <2>1. \A i \in JobIds : /\ job'[i].group = job[i].group
                          /\ i # j \/ job[j].state # "pending" => job'[i].state = job[i].state
                          /\ i = j /\ job[j].state = "pending" => job'[i].state \in Terminal
    BY <1>7, ConvertedRows
  <2>2. \A i \in JobIds : job[i].group = m /\ (Exists(i) \/ Exists(i)') => job'[i].state = job[i].state
    BY <1>a, <2>1 DEF Exists, Terminal
  <2>q. QED BY <2>1, <2>2, FinalKept DEF Final
<1>8. ASSUME Quiet PROVE Final
  BY <1>8, FinalKept DEF Final, Quiet, Exists
<1>9. Final
  BY <1>1, <1>2, <1>3, <1>4, <1>5, <1>6, <1>7, <1>8, StepCases
<1>q. QED BY <1>9 DEF Final

\* A benchmark that has ended keeps its status and its jobs until it is deleted,
\* whatever is deleted, converted or created besides (benchmarks.py:94-107, routes.py:342-359).
THEOREM BenchmarksStayEnded == Spec => BenchmarkFinal
<1>1. Init => GroupsInv
  BY NoRowTyped DEF Init, GroupsInv, WholeGroups, Stored, Exists
<1>2. Base /\ GroupsInv /\ [Next]_vars =>
        [\A m \in GroupIds : Stored(m) /\ group[m].kind = "benchmark" /\ Status(m) \in {"completed", "failed"} =>
           ~Stored(m)' \/ (Status(m)' = Status(m) /\ ChildrenOf(m)' = ChildrenOf(m))]_vars
  BY NextFinal
<1>q. QED
  BY <1>1, <1>2, InitBase, NextBase, NextGroups, PTL DEF Spec, BenchmarkFinal

-----------------------------------------------------------------------------
(* Types, rows of messages, files                                          *)

\* Rows, requests and messages for jobs keep their types (models.py:44-140, 634-733).
THEOREM IntakeTypes == Spec => []TypeOK
BY InitBase, NextBase, PTL DEF Spec, Base

LEMMA NextOwner == Base /\ OneRowPerOwner /\ [Next]_vars => OneRowPerOwner'
<1> SUFFICES ASSUME Base, OneRowPerOwner, [Next]_vars PROVE OneRowPerOwner'  OBVIOUS
<1>0. group \in [GroupIds -> Group]  BY DEF Base, TypeOK
<1>1. ASSUME UNCHANGED group PROVE OneRowPerOwner'
  BY <1>1 DEF OneRowPerOwner, Stored
<1>2. ASSUME NEW m \in GroupIds, group' = [group EXCEPT ![m].state = "gone"] PROVE OneRowPerOwner'
  <2>1. \A n \in GroupIds : /\ group'[n].owner = group[n].owner /\ group'[n].content = group[n].content
                            /\ group'[n].kind = group[n].kind /\ (Stored(n)' => Stored(n))
    BY <1>0, <1>2 DEF Group, Stored
  <2>q. QED BY <2>1 DEF OneRowPerOwner
<1>3. ASSUME NEW kind \in {"mail", "benchmark"}, NEW m \in GroupIds, NEW jobs \in SUBSET JobIds,
             Inserts(kind, m, jobs) PROVE OneRowPerOwner'
  <2>1. PICK p \in Procs : InsertsGroup(p, kind, m, jobs) /\ (kind = "mail" => Unique(ctx[p].owner, ctx[p].message))
    BY <1>3 DEF Inserts
  <2>2. PICK row \in Group : /\ group' = [group EXCEPT ![m] = row] /\ row.kind = kind
                             /\ kind = "mail" => row.owner = ctx[p].owner /\ row.content = ctx[p].message
    BY <2>1 DEF InsertsGroup
  <2>3. group'[m] = row /\ \A n \in GroupIds \ {m} : group'[n] = group[n] /\ (Stored(n)' <=> Stored(n))
    BY <1>0, <2>2 DEF Stored
  <2>4. ASSUME kind = "mail", NEW n \in GroupIds \ {m}, Stored(n), group[n].kind = "mail"
        PROVE  group[n].owner # row.owner \/ group[n].content # row.content
    BY <2>1, <2>2, <2>4 DEF Unique, SameMail
  <2>q. QED BY <2>2, <2>3, <2>4 DEF OneRowPerOwner
<1>4. ASSUME NEW p \in Procs, SaveUpload(p) \/ Commits(p) \/ Dies(p) PROVE UNCHANGED group
  BY <1>4, SaveEffect DEF Commits, Dies
<1>5. ASSUME NEW jobs \in SUBSET JobIds, Removes(jobs) PROVE OneRowPerOwner'
  BY <1>1, <1>2, <1>5 DEF Removes
<1>6. ASSUME NEW m \in GroupIds, Orphans(m) PROVE OneRowPerOwner'
  BY <1>2, <1>6 DEF Orphans
<1>7. ASSUME Quiet \/ \E j \in JobIds : Convert(j) PROVE UNCHANGED group
  BY <1>7 DEF Quiet, Convert
<1>q. QED BY <1>1, <1>3, <1>4, <1>5, <1>6, <1>7, StepCases

\* Unless a message was posted by two at once, it has one row, or one request that
\* found none and is about to insert it.
TeamInv ==
  \A c \in Messages \ raced :
    /\ \A m, n \in SameMail(c) : m = n
    /\ \A p, q \in Procs : pc[p] = "parsed" /\ pc[q] = "parsed" /\ ctx[p].message = c /\ ctx[q].message = c => p = q
    /\ \A p \in Procs : pc[p] = "parsed" /\ ctx[p].message = c => SameMail(c) = {}

\* Steps that add neither a message nor a request about to insert one.
AddsNone ==
  /\ \A c \in Messages : SameMail(c)' \subseteq SameMail(c)
  /\ \A q \in Procs : pc'[q] = "parsed" => pc[q] = "parsed" /\ ctx'[q] = ctx[q]
  /\ raced' = raced

LEMMA TeamKept == TeamInv /\ AddsNone => TeamInv'
<1> SUFFICES ASSUME TeamInv, AddsNone PROVE TeamInv'  OBVIOUS
<1> SUFFICES ASSUME NEW c \in Messages \ raced' 
             PROVE  /\ \A m, n \in SameMail(c)' : m = n
                    /\ \A p, q \in Procs : pc'[p] = "parsed" /\ pc'[q] = "parsed" /\ ctx'[p].message = c /\ ctx'[q].message = c => p = q
                    /\ \A p \in Procs : pc'[p] = "parsed" /\ ctx'[p].message = c => SameMail(c)' = {}
  BY DEF TeamInv
<1>1. c \in Messages \ raced /\ SameMail(c)' \subseteq SameMail(c)
  BY DEF AddsNone
<1>2. /\ \A m, n \in SameMail(c) : m = n
      /\ \A p, q \in Procs : pc[p] = "parsed" /\ pc[q] = "parsed" /\ ctx[p].message = c /\ ctx[q].message = c => p = q
      /\ \A p \in Procs : pc[p] = "parsed" /\ ctx[p].message = c => SameMail(c) = {}
  BY <1>1 DEF TeamInv
<1>3. \A q \in Procs : pc'[q] = "parsed" => pc[q] = "parsed" /\ ctx'[q] = ctx[q]
  BY DEF AddsNone
<1>q. QED BY <1>1, <1>2, <1>3, Zenon

\* A request other than PostMail ends up in no "parsed" state.
LEMMA OthersKept ==
  ASSUME NEW p \in Procs, pc'[p] # "parsed", \A q \in Procs : q # p => pc'[q] = pc[q] /\ ctx'[q] = ctx[q],
         raced' = raced, \A c \in Messages : SameMail(c)' \subseteq SameMail(c)
  PROVE  AddsNone
BY DEF AddsNone

LEMMA GroupsOnly ==
  ASSUME UNCHANGED group
  PROVE  \A c \in Messages : SameMail(c)' = SameMail(c)
BY DEF SameMail, Stored

LEMMA NextTeam == Base /\ TeamInv /\ [Next]_vars => TeamInv'
<1> SUFFICES ASSUME Base, TeamInv, [Next]_vars PROVE TeamInv'  OBVIOUS
<1> USE DEF history, bounds
<1>0. /\ group \in [GroupIds -> Group] /\ pc \in [Procs -> {"idle", "saved", "parsed", "send"}]
      /\ ctx \in [Procs -> Context]
  BY DEF Base, TypeOK
<1>1. ASSUME NEW p \in Procs, SaveUpload(p) PROVE AddsNone
  <2>1. UNCHANGED <<group, raced>>  BY <1>1 DEF SaveUpload
  <2>2. UNCHANGED <<pc, ctx>> \/ (Goto(p, "saved") /\ \E new : ctx' = [ctx EXCEPT ![p] = new])
    BY <1>1 DEF SaveUpload
  <2>3. pc'[p] # "parsed" /\ \A q \in Procs : q # p => pc'[q] = pc[q] /\ ctx'[q] = ctx[q]
    BY <1>0, <1>1, <2>2 DEF Goto, SaveUpload
  <2>q. QED BY <2>1, <2>3, OthersKept, GroupsOnly
<1>2. ASSUME NEW p \in Procs, CommitUpload(p) PROVE AddsNone
  <2>1. ThenSend(p, {ctx[p].id}) \/ Done(p)  BY <1>2 DEF CommitUpload
  <2>2. ctx[p].id \in JobIds  BY <1>2 DEF CommitUpload, Base, RequestsInv
  <2>3. pc'[p] # "parsed" /\ \A q \in Procs : q # p => pc'[q] = pc[q] /\ ctx'[q] = ctx[q]
    BY <2>1, <2>2, Sending
  <2>4. UNCHANGED <<group, raced>>  BY <1>2 DEF CommitUpload
  <2>q. QED BY <2>3, <2>4, OthersKept, GroupsOnly
<1>3. ASSUME NEW p \in Procs, SendNext(p) PROVE AddsNone
  <2>1. ThenSend(p, ctx[p].send \ {Lowest(ctx[p].send)}) /\ UNCHANGED <<group, raced>>
    BY <1>3 DEF SendNext
  <2>2. ctx[p].send \ {Lowest(ctx[p].send)} \in SUBSET JobIds
    BY DEF Base, TypeOK, Context
  <2>3. pc'[p] # "parsed" /\ \A q \in Procs : q # p => pc'[q] = pc[q] /\ ctx'[q] = ctx[q]
    BY <2>1, <2>2, Sending
  <2>q. QED BY <2>1, <2>3, OthersKept, GroupsOnly
<1>4. ASSUME NEW p \in Procs, RequestDies(p) PROVE AddsNone
  <2>1. Done(p) /\ UNCHANGED <<group, raced>>  BY <1>4 DEF RequestDies
  <2>2. {} \in SUBSET JobIds  OBVIOUS
  <2>3. pc'[p] # "parsed" /\ \A q \in Procs : q # p => pc'[q] = pc[q] /\ ctx'[q] = ctx[q]
    BY <2>1, <2>2, Sending
  <2>q. QED BY <2>1, <2>3, OthersKept, GroupsOnly
<1>5. ASSUME NEW p \in Procs, CreateBenchmark(p) PROVE AddsNone
  <2>1. PICK m \in GroupIds, jobs \in SUBSET JobIds : InsertsGroup(p, "benchmark", m, jobs)
    BY <1>5, CreateBenchmarkEffect
  <2>2. pc'[p] # "parsed" /\ \A q \in Procs : q # p => pc'[q] = pc[q] /\ ctx'[q] = ctx[q]
    BY <2>1, Sending DEF InsertsGroup
  <2>3. group'[m].kind = "benchmark" /\ \A n \in GroupIds \ {m} : group'[n] = group[n]
    BY <1>0, <2>1 DEF InsertsGroup
  <2>4. \A c \in Messages : SameMail(c)' \subseteq SameMail(c)
    BY <2>3 DEF SameMail, Stored
  <2>5. raced' = raced  BY <1>5 DEF CreateBenchmark
  <2>q. QED BY <2>2, <2>4, <2>5, OthersKept
<1>6. ASSUME NEW m \in GroupIds, group' = group \/ group' = [group EXCEPT ![m].state = "gone"],
             UNCHANGED <<pc, ctx, raced>> PROVE AddsNone
  <2>1. \A n \in GroupIds : /\ group'[n].content = group[n].content /\ group'[n].kind = group[n].kind
                            /\ (Stored(n)' => Stored(n))
    BY <1>0, <1>6 DEF Group, Stored
  <2>2. \A c \in Messages : SameMail(c)' \subseteq SameMail(c)
    BY <2>1 DEF SameMail
  <2>q. QED BY <1>6, <2>2 DEF AddsNone
<1>7. ASSUME NEW p \in Procs, PostMail(p) PROVE TeamInv'
  <2>1. UNCHANGED group /\ pc[p] = "idle"  BY <1>7 DEF PostMail
  <2>2. PICK o \in Owners, c \in Messages :
          IF \E m \in SameMail(c) : Visible(o, m)
          THEN (\E m \in SameMail(c) : Visible(o, m) /\ ThenSend(p, Pending(m))) /\ UNCHANGED raced
          ELSE /\ Goto(p, "parsed")
               /\ ctx' = [ctx EXCEPT ![p] = [Blank EXCEPT !.owner = o, !.message = c]]
               /\ raced' = IF \E q \in Procs : pc[q] = "parsed" /\ ctx[q].message = c THEN raced \cup {c} ELSE raced
    BY <1>7 DEF PostMail
  <2>3. CASE \E m \in SameMail(c) : Visible(o, m)
    <3>1. PICK m \in GroupIds : ThenSend(p, Pending(m))  BY <2>2, <2>3 DEF SameMail
    <3>2. Pending(m) \in SUBSET JobIds  BY DEF Pending, ChildrenOf
    <3>3. pc'[p] # "parsed" /\ \A q \in Procs : q # p => pc'[q] = pc[q] /\ ctx'[q] = ctx[q]
      BY <3>1, <3>2, Sending
    <3>4. raced' = raced  BY <2>2, <2>3
    <3>q. QED BY <2>1, <3>3, <3>4, OthersKept, GroupsOnly, TeamKept
  <2>4. CASE ~\E m \in SameMail(c) : Visible(o, m)
    <3> DEFINE new == [Blank EXCEPT !.owner = o, !.message = c]
    <3>1. SameMail(c) = {}  BY <2>4 DEF Visible
    <3>2. new.message = c  BY BlankTyped
    <3>3. /\ pc' = [pc EXCEPT ![p] = "parsed"] /\ ctx' = [ctx EXCEPT ![p] = new]
          /\ raced \subseteq raced'
          /\ (c \notin raced' => \A q \in Procs : ~(pc[q] = "parsed" /\ ctx[q].message = c))
      BY <2>2, <2>4 DEF Goto
    <3> HIDE DEF new
    <3>4. /\ ctx'[p].message = c
          /\ \A q \in Procs : q # p => pc'[q] = pc[q] /\ ctx'[q] = ctx[q]
      BY <1>0, <3>2, <3>3
    <3>5. ASSUME NEW d \in Messages \ raced'
          PROVE  /\ \A m, n \in SameMail(d)' : m = n
                 /\ \A q, r \in Procs : pc'[q] = "parsed" /\ pc'[r] = "parsed" /\ ctx'[q].message = d /\ ctx'[r].message = d => q = r
                 /\ \A q \in Procs : pc'[q] = "parsed" /\ ctx'[q].message = d => SameMail(d)' = {}
      <4>1. d \in Messages \ raced /\ SameMail(d)' = SameMail(d)
        BY <2>1, <3>3, GroupsOnly
      <4>2. /\ \A m, n \in SameMail(d) : m = n
            /\ \A q, r \in Procs : pc[q] = "parsed" /\ pc[r] = "parsed" /\ ctx[q].message = d /\ ctx[r].message = d => q = r
            /\ \A q \in Procs : pc[q] = "parsed" /\ ctx[q].message = d => SameMail(d) = {}
        BY <4>1 DEF TeamInv
      <4>3. CASE d = c  BY <3>1, <3>3, <3>4, <4>1, <4>2, <4>3
      <4>4. CASE d # c  BY <3>4, <4>1, <4>2, <4>4
      <4>q. QED BY <4>3, <4>4
    <3>q. QED BY <3>5 DEF TeamInv
  <2>q. QED BY <2>3, <2>4
<1>8. ASSUME NEW p \in Procs, CommitMail(p) PROVE TeamInv'
  <2>1. pc[p] = "parsed" /\ raced' = raced  BY <1>8, CommitMailEffect
  <2>2. CASE \E m \in GroupIds, jobs \in SUBSET JobIds : InsertsGroup(p, "mail", m, jobs)
    <3>1. PICK m \in GroupIds, jobs \in SUBSET JobIds : InsertsGroup(p, "mail", m, jobs)  BY <2>2
    <3>2. pc'[p] # "parsed" /\ \A q \in Procs : q # p => pc'[q] = pc[q] /\ ctx'[q] = ctx[q]
      BY <3>1, Sending DEF InsertsGroup
    <3>3. /\ group'[m].content = ctx[p].message /\ \A n \in GroupIds \ {m} : group'[n] = group[n]
      BY <1>0, <3>1 DEF InsertsGroup
    <3>4. ASSUME NEW d \in Messages \ raced'
          PROVE  /\ \A k, n \in SameMail(d)' : k = n
                 /\ \A q, r \in Procs : pc'[q] = "parsed" /\ pc'[r] = "parsed" /\ ctx'[q].message = d /\ ctx'[r].message = d => q = r
                 /\ \A q \in Procs : pc'[q] = "parsed" /\ ctx'[q].message = d => SameMail(d)' = {}
      <4>1. d \in Messages \ raced  BY <2>1
      <4>2. /\ \A k, n \in SameMail(d) : k = n
            /\ \A q, r \in Procs : pc[q] = "parsed" /\ pc[r] = "parsed" /\ ctx[q].message = d /\ ctx[r].message = d => q = r
            /\ \A q \in Procs : pc[q] = "parsed" /\ ctx[q].message = d => SameMail(d) = {}
        BY <4>1 DEF TeamInv
      <4>3. CASE ctx[p].message = d
        <5>1. SameMail(d) = {}  BY <2>1, <4>2, <4>3
        <5>2. SameMail(d)' \subseteq {m}  BY <3>3, <5>1 DEF SameMail, Stored
        <5>3. \A q \in Procs : ~(pc'[q] = "parsed" /\ ctx'[q].message = d)
          BY <2>1, <3>2, <4>2, <4>3
        <5>q. QED BY <5>2, <5>3
      <4>4. CASE ctx[p].message # d
        <5>1. SameMail(d)' \subseteq SameMail(d)
          BY <3>3, <4>4 DEF SameMail, Stored
        <5>q. QED BY <3>2, <4>2, <5>1, Zenon
      <4>q. QED BY <4>3, <4>4
    <3>q. QED BY <3>4 DEF TeamInv
  <2>3. CASE UNCHANGED <<job, group>> /\ \E same \in GroupIds : ThenSend(p, Pending(same))
    <3>1. \A same \in GroupIds : Pending(same) \in SUBSET JobIds  BY DEF Pending, ChildrenOf
    <3>2. pc'[p] # "parsed" /\ \A q \in Procs : q # p => pc'[q] = pc[q] /\ ctx'[q] = ctx[q]
      BY <2>3, <3>1, Sending
    <3>q. QED BY <2>1, <2>3, <3>2, OthersKept, GroupsOnly, TeamKept
  <2>q. QED BY <1>8, <2>2, <2>3, CommitMailEffect
<1>9. ASSUME NEW m \in GroupIds, ReadMail(m) \/ DeleteMail(m) \/ DeleteBenchmark(m) PROVE AddsNone
  BY <1>6, <1>9 DEF ReadMail, DeleteMail, DeleteBenchmark
<1>10. ASSUME UNCHANGED <<group, pc, ctx, raced>> PROVE AddsNone
  BY <1>10, GroupsOnly DEF AddsNone
<1>11. ASSUME NEW j \in JobIds, DeleteJob(j) \/ Convert(j) PROVE AddsNone
  BY <1>10, <1>11 DEF DeleteJob, Convert
<1>12. ASSUME DeleteFolder \/ UNCHANGED vars PROVE AddsNone
  BY <1>10, <1>12 DEF DeleteFolder, vars
<1>13. ASSUME NEW p \in Procs, Request(p) \/ RequestDies(p) PROVE TeamInv'
  BY <1>1, <1>2, <1>3, <1>4, <1>5, <1>7, <1>8, <1>13, TeamKept DEF Request
<1>q. QED BY <1>9, <1>11, <1>12, <1>13, TeamKept DEF Next

\* A message is stored once, for its owner also when two requests post it at once
\* and both miss the lookup, for the team unless they did
\* (models.py:665, mail_routes.py:357-516).
THEOREM MessagesAreStoredOnce == Spec => []MessagesStoredOnce
<1>1. Init => OneRowPerOwner /\ TeamInv
  BY NoRowTyped DEF Init, OneRowPerOwner, TeamInv, SameMail, Stored
<1>2. TeamInv => OneRowPerTeam
  <2> SUFFICES ASSUME TeamInv, NEW c \in Messages \ raced PROVE Cardinality(SameMail(c)) <= 1
    BY DEF OneRowPerTeam
  <2>1. \A m, n \in SameMail(c) : m = n  BY DEF TeamInv
  <2>2. CASE SameMail(c) = {}  BY <2>2, FS_EmptySet
  <2>3. CASE SameMail(c) # {}
    <3>1. PICK m : SameMail(c) = {m}  BY <2>1, <2>3
    <3>q. QED BY <3>1, FS_Singleton
  <2>q. QED BY <2>2, <2>3
<1>q. QED BY <1>1, <1>2, InitBase, NextBase, NextOwner, NextTeam, PTL DEF Spec, MessagesStoredOnce

LEMMA NextFiles == Base /\ FilesExplained /\ [Next]_vars => FilesExplained'
<1> SUFFICES ASSUME Base, FilesExplained, [Next]_vars PROVE FilesExplained'  OBVIOUS
<1> USE DEF FilesExplained
<1>1. ASSUME NEW p \in Procs, SaveUpload(p) PROVE FilesExplained'
  <2>1. PICK j \in JobIds :
          /\ pc[p] = "idle" /\ UNCHANGED <<job, torn>>
          /\ \/ UNCHANGED <<pc, ctx>> /\ file' = AfterDuplicate(j)
             \/ /\ pc' = [pc EXCEPT ![p] = "saved"] /\ file' = file \cup {j}
                /\ \E new \in Context : ctx' = [ctx EXCEPT ![p] = new] /\ Holds(new, j)
    BY <1>1, SaveEffect
  <2>2. CASE UNCHANGED <<pc, ctx>> /\ file' = AfterDuplicate(j)
    BY <2>1, <2>2 DEF AfterDuplicate, Exists
  <2>3. ASSUME NEW new \in Context, ctx' = [ctx EXCEPT ![p] = new], Holds(new, j),
               pc' = [pc EXCEPT ![p] = "saved"], file' = file \cup {j}
        PROVE  FilesExplained'
    <3>1. /\ pc'[p] = "saved" /\ ctx'[p].id = j
          /\ \A q \in Procs : q # p => pc'[q] = pc[q] /\ ctx'[q] = ctx[q]
      BY <2>3 DEF Base, TypeOK, Holds
    <3>q. QED BY <2>1, <2>3, <3>1 DEF Exists
  <2>q. QED BY <2>1, <2>2, <2>3
<1>2. ASSUME NEW p \in Procs, Commits(p) PROVE FilesExplained'
  <2> DEFINE i == ctx[p].id
  <2>1. /\ i \in JobIds /\ \A j \in JobIds \ {i} : job'[j] = job[j]
        /\ \/ job' = job /\ torn' = torn \cup {i}
           \/ UNCHANGED torn /\ job'[i].state = "pending"
    BY <1>2, CommitsRows
  <2>2. UNCHANGED file /\ file \subseteq JobIds /\ \A q \in Procs : q # p => pc'[q] = pc[q] /\ ctx'[q] = ctx[q]
    BY <1>2 DEF Commits, Base, TypeOK
  <2>3. \A j \in file \ torn : j # i => Exists(j) \/ \E q \in Procs : q # p /\ pc[q] = "saved" /\ ctx[q].id = j
    OBVIOUS
  <2> HIDE DEF i
  <2>4. \A j \in file \ torn' : j # i => Exists(j)' \/ \E q \in Procs : pc'[q] = "saved" /\ ctx'[q].id = j
    BY <2>1, <2>2, <2>3 DEF Exists
  <2>q. QED BY <2>1, <2>2, <2>4 DEF Exists
<1>3. ASSUME NEW p \in Procs, Dies(p) PROVE FilesExplained'
  BY <1>3 DEF Dies, Exists
<1>4. ASSUME NEW kind \in {"mail", "benchmark"}, NEW m \in GroupIds, NEW jobs \in SUBSET JobIds,
             Inserts(kind, m, jobs) PROVE FilesExplained'
  <2>1. /\ \A j \in JobIds \ jobs : job'[j] = job[j]
        /\ \A j \in jobs : job'[j].state = "pending"
    BY <1>4, InsertsRows
  <2>2. file \subseteq JobIds /\ file' \subseteq file \cup jobs /\ UNCHANGED torn /\ Keeps
    BY <1>4 DEF Inserts, Base, TypeOK
  <2>q. QED BY <2>1, <2>2 DEF Keeps, Exists
<1>5. ASSUME NEW jobs \in SUBSET JobIds, Removes(jobs) PROVE FilesExplained'
  <2>1. \A j \in JobIds \ jobs : Exists(j)' <=> Exists(j)
    BY <1>5, WithoutRows DEF Removes, Exists
  <2>2. file \subseteq JobIds /\ UNCHANGED <<pc, ctx>>
    BY <1>5 DEF Removes, Base, TypeOK
  <2>3. file' \ torn' \subseteq (file \ torn) \ jobs
    BY <1>5 DEF Removes
  <2>q. QED BY <2>1, <2>2, <2>3
<1>6. ASSUME NEW m \in GroupIds, Orphans(m) PROVE FilesExplained'
  <2>1. \A j \in JobIds : Exists(j)' <=> Exists(j)
    BY <1>6, OrphanedRows DEF Orphans, Exists
  <2>q. QED BY <1>6, <2>1 DEF Orphans, Base, TypeOK
<1>7. ASSUME NEW j \in JobIds, Convert(j) PROVE FilesExplained'
  <2>1. \A i \in JobIds : Exists(i)' <=> Exists(i)
    BY <1>7, ConvertedRows DEF Exists, Terminal
  <2>2. file' = IF job[j].state = "pending" THEN file \cup {j} ELSE file
    BY <1>7, ConvertedRows
  <2>3. UNCHANGED <<pc, ctx, torn>> /\ file \subseteq JobIds
    BY <1>7 DEF Convert, Base, TypeOK
  <2>q. QED BY <2>1, <2>2, <2>3 DEF Exists
<1>8. ASSUME Quiet PROVE FilesExplained'
  BY <1>8 DEF Quiet, Keeps, Exists
<1>q. QED BY <1>1, <1>2, <1>3, <1>4, <1>5, <1>6, <1>7, <1>8, StepCases

\* A file on disk has its row, a request at work, or one of the three reasons the
\* code leaves it for (routes.py:651-735, mail_routes.py:741-775).
THEOREM FilesAreExplained == Spec => []FilesExplained
<1>1. Init => FilesExplained
  BY DEF Init, FilesExplained
<1>q. QED BY <1>1, InitBase, NextBase, NextFiles, PTL DEF Spec

\* A document that came in is on disk as long as its job, and converted once
\* (storage.py:81-118, routes.py:489-512, mail_routes.py:142-182).
THEOREM DocumentsStay == Spec => []DocumentsAreKept
BY FilesAreExplained, ConvertsOnce, PTL DEF DocumentsAreKept

-----------------------------------------------------------------------------
(* The version chain                                                       *)

\* b is an upload, and this version of this content follows it.
Follows(v, c, b) ==
  Exists(b) /\ job[b].kind = "upload" /\ v = job[b].version + 1 /\ c # job[b].content

SoundRow(j) ==
  Exists(j) /\ job[j].previous # 0 => Follows(job[j].version, job[j].content, job[j].previous)

\* What a request read of its predecessor stays true of it until it commits.
SoundRequest(p) ==
  pc[p] = "saved" /\ ctx[p].previous # 0 /\ Exists(ctx[p].previous) =>
    Follows(ctx[p].version, ctx[p].content, ctx[p].previous)

ChainInv == (\A j \in JobIds : SoundRow(j)) /\ (\A p \in Procs : SoundRequest(p))

LEMMA Predecessor ==
  ASSUME Base
  PROVE  /\ \A j \in JobIds : job[j].previous \in JobIds \cup {0}
         /\ \A p \in Procs : ctx[p].previous \in JobIds \cup {0}
BY DEF Base, TypeOK, Row, Context

LEMMA FollowsKept ==
  ASSUME NEW b \in JobIds, NEW v, NEW c, Follows(v, c, b), Exists(b)',
         job'[b].kind = job[b].kind, job'[b].content = job[b].content, job'[b].version = job[b].version
  PROVE  Follows(v, c, b)'
BY DEF Follows

\* Rows and requests after a step, by the predecessor they have then.
LEMMA RowSound ==
  ASSUME NEW j \in JobIds, NEW b \in JobIds, NEW v, NEW c, Follows(v, c, b)',
         job'[j].previous = b, job'[j].version = v, job'[j].content = c
  PROVE  SoundRow(j)'
BY DEF SoundRow, Follows

LEMMA RequestSound ==
  ASSUME NEW p \in Procs, NEW b \in JobIds, NEW v, NEW c, Exists(b)' => Follows(v, c, b)',
         ctx'[p].previous = b, ctx'[p].version = v, ctx'[p].content = c
  PROVE  SoundRequest(p)'
BY DEF SoundRequest, Follows

\* Rows that stay, whose predecessor stays or is forgotten.
LEMMA ChainsKept ==
  ASSUME Base, ChainInv,
         \A j \in JobIds : Exists(j) =>
           job'[j].kind = job[j].kind /\ job'[j].content = job[j].content /\ job'[j].version = job[j].version
  PROVE  /\ \A j \in JobIds : Exists(j) /\ job'[j].previous = job[j].previous
                              /\ (job[j].previous # 0 => Exists(job[j].previous)') => SoundRow(j)'
         /\ \A p \in Procs : pc[p] = "saved" /\ ctx'[p] = ctx[p]
                             /\ (ctx[p].previous # 0 /\ Exists(ctx[p].previous)' => Exists(ctx[p].previous))
                             => SoundRequest(p)'
<1>1. ASSUME NEW j \in JobIds, Exists(j), job'[j].previous = job[j].previous,
             job[j].previous # 0 => Exists(job[j].previous)'
      PROVE  SoundRow(j)'
  <2>1. CASE job[j].previous = 0
    BY <1>1, <2>1 DEF SoundRow
  <2>2. CASE job[j].previous # 0
    <3>1. PICK b \in JobIds : b = job[j].previous
      BY <2>2, Predecessor
    <3>2. PICK v, c : v = job[j].version /\ c = job[j].content
      OBVIOUS
    <3>3. Follows(v, c, b)
      BY <1>1, <2>2, <3>1, <3>2 DEF ChainInv, SoundRow
    <3>4. Exists(b)
      BY <3>3 DEF Follows
    <3>5. job'[b].state \notin {"none", "gone"}
      BY <1>1, <2>2, <3>1 DEF Exists
    <3>6. Follows(v, c, b)'
      BY <3>3, <3>4, <3>5, FollowsKept DEF Exists
    <3>q. QED BY <1>1, <3>1, <3>2, <3>6, RowSound
  <2>q. QED BY <2>1, <2>2
<1>2. ASSUME NEW p \in Procs, pc[p] = "saved", ctx'[p] = ctx[p],
             ctx[p].previous # 0 /\ Exists(ctx[p].previous)' => Exists(ctx[p].previous)
      PROVE  SoundRequest(p)'
  <2>1. CASE ctx[p].previous = 0
    BY <1>2, <2>1 DEF SoundRequest
  <2>2. CASE ctx[p].previous # 0
    <3>1. PICK b \in JobIds : b = ctx[p].previous
      BY <2>2, Predecessor
    <3>2. PICK v, c : v = ctx[p].version /\ c = ctx[p].content
      OBVIOUS
    <3>3. ASSUME job'[b].state \notin {"none", "gone"} PROVE Follows(v, c, b)'
      <4>1. Exists(b)
        BY <1>2, <2>2, <3>1, <3>3 DEF Exists
      <4>2. Follows(v, c, b)
        BY <1>2, <2>2, <3>1, <3>2, <4>1 DEF ChainInv, SoundRequest
      <4>q. QED BY <3>3, <4>1, <4>2, FollowsKept DEF Exists
    <3>q. QED BY <1>2, <3>1, <3>2, <3>3, RequestSound DEF Exists
  <2>q. QED BY <2>1, <2>2
<1>q. QED BY <1>1, <1>2

\* Steps that insert no version.
LEMMA ChainStays ==
  ASSUME Base, ChainInv,
         \A j \in JobIds : Exists(j) =>
           job'[j].kind = job[j].kind /\ job'[j].content = job[j].content /\ job'[j].version = job[j].version,
         \A j \in JobIds : Exists(j)' /\ job'[j].previous # 0 =>
           Exists(j) /\ job'[j].previous = job[j].previous /\ Exists(job[j].previous)',
         \A j \in JobIds : job[j].state # "none" /\ Exists(j)' => Exists(j),
         \A p \in Procs : pc'[p] = "saved" => pc[p] = "saved" /\ ctx'[p] = ctx[p]
  PROVE  ChainInv'
<1>1. ASSUME NEW j \in JobIds PROVE SoundRow(j)'
  <2>1. CASE Exists(j)' /\ job'[j].previous # 0
    BY <2>1, ChainsKept
  <2>2. CASE ~(Exists(j)' /\ job'[j].previous # 0)
    BY <2>2 DEF SoundRow
  <2>q. QED BY <2>1, <2>2
<1>2. ASSUME NEW p \in Procs PROVE SoundRequest(p)'
  <2>1. CASE pc'[p] = "saved"
    <3>1. pc[p] = "saved" /\ ctx'[p] = ctx[p]  BY <2>1
    <3>2. ctx[p].previous # 0 => ctx[p].previous \in JobIds /\ job[ctx[p].previous].state # "none"
      BY <3>1, Predecessor DEF Base, RequestsInv
    <3>3. ctx[p].previous # 0 /\ Exists(ctx[p].previous)' => Exists(ctx[p].previous)
      <4>1. ASSUME NEW b \in JobIds, b = ctx[p].previous, job'[b].state \notin {"none", "gone"}
            PROVE  Exists(b)
        BY <3>2, <4>1, Constants DEF Exists
      <4>q. QED BY <3>1, <3>2, <4>1 DEF Exists
    <3>q. QED BY <3>1, <3>3, ChainsKept
  <2>2. CASE pc'[p] # "saved"
    BY <2>2 DEF SoundRequest
  <2>q. QED BY <2>1, <2>2
<1>q. QED BY <1>1, <1>2 DEF ChainInv

LEMMA NextChain == Base /\ ChainInv /\ [Next]_vars => ChainInv'
<1> SUFFICES ASSUME Base, ChainInv, [Next]_vars PROVE ChainInv'  OBVIOUS
<1>0. /\ \A j \in JobIds : job[j].previous \in JobIds \cup {0}
      /\ \A p \in Procs : ctx[p].previous \in JobIds \cup {0}
  BY Predecessor
<1>a. \A j \in JobIds : Exists(j) /\ job[j].previous # 0 => Exists(job[j].previous)
  BY DEF ChainInv, SoundRow, Follows
<1>1. ASSUME NEW p \in Procs, SaveUpload(p) PROVE ChainInv'
  <2>1. PICK j \in JobIds :
          /\ UNCHANGED job /\ job[j].state = "none"
          /\ \/ UNCHANGED <<pc, ctx>>
             \/ /\ pc' = [pc EXCEPT ![p] = "saved"]
                /\ \E new \in Context : ctx' = [ctx EXCEPT ![p] = new] /\ Holds(new, j)
    BY <1>1, SaveEffect
  <2>2. CASE UNCHANGED <<pc, ctx>>
    BY <2>1, <2>2 DEF ChainInv, SoundRow, SoundRequest, Follows, Exists
  <2>3. ASSUME NEW new \in Context, ctx' = [ctx EXCEPT ![p] = new], Holds(new, j), pc' = [pc EXCEPT ![p] = "saved"]
        PROVE  ChainInv'
    <3>1. ctx'[p] = new /\ \A q \in Procs : q # p => pc'[q] = pc[q] /\ ctx'[q] = ctx[q]
      BY <2>3 DEF Base, TypeOK
    <3>2. new.previous # 0 => Follows(new.version, new.content, new.previous)
      BY <2>3, Constants DEF Holds, Predecessors, Versioned, Follows
    <3>3. SoundRequest(p)'
      BY <2>1, <3>1, <3>2 DEF SoundRequest, Follows, Exists
    <3>4. ASSUME NEW q \in Procs, q # p PROVE SoundRequest(q)'
      BY <2>1, <3>1, <3>4 DEF ChainInv, SoundRequest, Follows, Exists
    <3>5. ASSUME NEW i \in JobIds PROVE SoundRow(i)'
      BY <2>1 DEF ChainInv, SoundRow, Follows, Exists
    <3>q. QED BY <3>3, <3>4, <3>5 DEF ChainInv
  <2>q. QED BY <2>1, <2>2, <2>3
<1>2. ASSUME NEW p \in Procs, Commits(p) PROVE ChainInv'
  <2>1. PICK i \in JobIds :
        /\ job[i].state = "none" /\ \A j \in JobIds \ {i} : job'[j] = job[j]
        /\ \/ job' = job
           \/ /\ Accepted(ctx[p].previous)
              /\ job'[i].state = "pending" /\ job'[i].content = ctx[p].content
              /\ job'[i].version = ctx[p].version /\ job'[i].previous = ctx[p].previous
    BY <1>2, CommitsRows
  <2>2. /\ pc[p] = "saved"
        /\ \A q \in Procs : pc'[q] = "saved" => q # p /\ pc[q] = "saved" /\ ctx'[q] = ctx[q]
    BY <1>2 DEF Commits
  <2>3. CASE job' = job
    BY <1>a, <2>2, <2>3, ChainStays DEF Exists
  <2>4. CASE /\ Accepted(ctx[p].previous)
             /\ job'[i].state = "pending" /\ job'[i].content = ctx[p].content
             /\ job'[i].version = ctx[p].version /\ job'[i].previous = ctx[p].previous
    <3>1. \A j \in JobIds : Exists(j) => j # i /\ job'[j] = job[j] /\ Exists(j)'
      BY <2>1 DEF Exists
    <3>2. SoundRow(i)'
      <4>1. CASE ctx[p].previous = 0
        BY <2>4, <4>1 DEF SoundRow
      <4>2. CASE ctx[p].previous # 0
        <5>1. PICK b \in JobIds : b = ctx[p].previous
          BY <1>0, <4>2
        <5>2. PICK v, c : v = ctx[p].version /\ c = ctx[p].content
          OBVIOUS
        <5>3. Exists(b) /\ Follows(v, c, b)
          BY <2>2, <2>4, <4>2, <5>1, <5>2 DEF Accepted, ChainInv, SoundRequest
        <5>4. Follows(v, c, b)'
          BY <3>1, <5>3, FollowsKept
        <5>q. QED BY <2>1, <2>4, <5>1, <5>2, <5>4, RowSound
      <4>q. QED BY <4>1, <4>2
    <3>3. ASSUME NEW j \in JobIds, j # i PROVE SoundRow(j)'
      <4>1. job'[j] = job[j]  BY <2>1, <3>3
      <4>2. CASE Exists(j)
        <5>1. job[j].previous # 0 => Exists(job[j].previous)'
          <6>1. ASSUME NEW b \in JobIds, b = job[j].previous, b # 0 PROVE Exists(b)'
            BY <1>a, <3>1, <4>2, <6>1
          <6>q. QED BY <1>0, <4>1, <6>1 DEF Exists
        <5>q. QED BY <3>1, <4>1, <4>2, <5>1, ChainsKept
      <4>3. CASE ~Exists(j)
        BY <4>1, <4>3 DEF SoundRow, Exists
      <4>q. QED BY <4>2, <4>3
    <3>4. ASSUME NEW q \in Procs PROVE SoundRequest(q)'
      <4>1. CASE pc'[q] # "saved"  BY <4>1 DEF SoundRequest
      <4>2. CASE pc'[q] = "saved"
        <5>1. pc[q] = "saved" /\ ctx'[q] = ctx[q]  BY <2>2, <4>2
        <5>2. ctx[q].previous # 0 /\ Exists(ctx[q].previous)' => Exists(ctx[q].previous)
          <6>1. ASSUME NEW b \in JobIds, b = ctx[q].previous, job'[b].state \notin {"none", "gone"}
                PROVE  Exists(b)
            BY <2>1, <5>1, <6>1, Constants DEF Base, RequestsInv, Exists
          <6>q. QED BY <1>0, <5>1, <6>1 DEF Exists
        <5>q. QED BY <3>1, <5>1, <5>2, ChainsKept
      <4>q. QED BY <4>1, <4>2
    <3>q. QED BY <3>2, <3>3, <3>4 DEF ChainInv
  <2>q. QED BY <2>1, <2>3, <2>4
<1>3. ASSUME NEW p \in Procs, Dies(p) PROVE ChainInv'
  BY <1>3, <1>a, ChainStays DEF Dies, Exists
<1>4. ASSUME NEW kind \in {"mail", "benchmark"}, NEW m \in GroupIds, NEW jobs \in SUBSET JobIds,
             Inserts(kind, m, jobs) PROVE ChainInv'
  <2>1. /\ \A j \in JobIds \ jobs : job'[j] = job[j]
        /\ \A j \in jobs : job[j].state = "none" /\ job'[j].previous = 0
    BY <1>4, InsertsRows
  <2>2. Keeps  BY <1>4 DEF Inserts
  <2>3. \A j \in JobIds : Exists(j) => job'[j] = job[j]
    BY <2>1 DEF Exists
  <2>4. \A j \in JobIds : job[j].state # "none" => job'[j] = job[j]
    BY <2>1
  <2>5. \A j \in JobIds : Exists(j)' /\ job'[j].previous # 0 =>
           Exists(j) /\ job'[j].previous = job[j].previous /\ Exists(job[j].previous)'
    BY <1>0, <1>a, <2>1, <2>3 DEF Exists
  <2>q. QED BY <2>2, <2>3, <2>4, <2>5, ChainStays DEF Keeps, Exists
<1>5. ASSUME NEW jobs \in SUBSET JobIds, Removes(jobs) PROVE ChainInv'
  <2>1. /\ job' = Without(jobs) /\ UNCHANGED <<pc, ctx>>
    BY <1>5 DEF Removes
  <2>2. \A j \in JobIds :
          /\ job'[j].state = IF j \in jobs THEN "gone" ELSE job[j].state
          /\ job'[j].previous = IF j \in jobs \/ job[j].previous \in jobs THEN 0 ELSE job[j].previous
          /\ job'[j].kind = job[j].kind /\ job'[j].content = job[j].content
          /\ job'[j].version = job[j].version
    BY <2>1, WithoutRows
  <2>3. \A j \in JobIds : Exists(j)' <=> Exists(j) /\ j \notin jobs
    BY <2>2 DEF Exists
  <2>4. \A j \in JobIds : Exists(j)' /\ job'[j].previous # 0 =>
           Exists(j) /\ job'[j].previous = job[j].previous /\ Exists(job[j].previous)'
    BY <1>0, <1>a, <2>2, <2>3
  <2>q. QED BY <2>1, <2>2, <2>3, <2>4, ChainStays
<1>6. ASSUME NEW m \in GroupIds, Orphans(m) PROVE ChainInv'
  <2>1. \A j \in JobIds : /\ job'[j].state = job[j].state /\ job'[j].previous = job[j].previous
                          /\ job'[j].kind = job[j].kind /\ job'[j].content = job[j].content
                          /\ job'[j].version = job[j].version
    BY <1>6, OrphanedRows DEF Orphans
  <2>2. \A j \in JobIds : Exists(j)' <=> Exists(j)  BY <2>1 DEF Exists
  <2>3. UNCHANGED <<pc, ctx>>  BY <1>6 DEF Orphans
  <2>4. \A j \in JobIds : Exists(j)' /\ job'[j].previous # 0 =>
           Exists(j) /\ job'[j].previous = job[j].previous /\ Exists(job[j].previous)'
    BY <1>0, <1>a, <2>1, <2>2
  <2>q. QED BY <2>1, <2>2, <2>3, <2>4, ChainStays
<1>7. ASSUME NEW j \in JobIds, Convert(j) PROVE ChainInv'
  <2>1. \A i \in JobIds : /\ job'[i].previous = job[i].previous
                          /\ job'[i].kind = job[i].kind /\ job'[i].content = job[i].content
                          /\ job'[i].version = job[i].version /\ (Exists(i)' <=> Exists(i))
    BY <1>7, ConvertedRows DEF Terminal, Exists
  <2>2. UNCHANGED <<pc, ctx>>  BY <1>7 DEF Convert
  <2>3. \A i \in JobIds : Exists(i)' /\ job'[i].previous # 0 =>
           Exists(i) /\ job'[i].previous = job[i].previous /\ Exists(job[i].previous)'
    BY <1>0, <1>a, <2>1
  <2>q. QED BY <2>1, <2>2, <2>3, ChainStays
<1>8. ASSUME Quiet PROVE ChainInv'
  BY <1>8, <1>a, ChainStays DEF Quiet, Keeps, Exists
<1>q. QED BY <1>1, <1>2, <1>3, <1>4, <1>5, <1>6, <1>7, <1>8, StepCases

\* A version follows an upload that exists, by one, with another content, though
\* rows go between the lookup and the insert (routes.py:595-735, models.py:104-110).
THEOREM ChainsAreSound == Spec => []ChainsSound
<1>1. Init => ChainInv
  BY DEF Init, ChainInv, SoundRow, SoundRequest, Exists, NoRow
<1>2. ChainInv => ChainsSound
  BY DEF ChainInv, ChainsSound, SoundRow, Follows
<1>q. QED BY <1>1, <1>2, InitBase, NextBase, NextChain, PTL DEF Spec

-----------------------------------------------------------------------------
(* Distinct versions                                                       *)

\* Where there are uploads, one of them has the highest version.
LEMMA HighestExists ==
  ASSUME Base, Versioned # {}
  PROVE  Predecessors # {}
<1> DEFINE Above(j) == {i \in Versioned : job[i].version > job[j].version}
           Counts == {Cardinality(Above(j)) : j \in Versioned}
<1>1. IsFiniteSet(Versioned) /\ Versioned \subseteq JobIds /\ \A j \in Versioned : job[j].version \in Nat
  <2>1. Versioned \subseteq JobIds  BY DEF Versioned
  <2>2. IsFiniteSet(Versioned)  BY <2>1, ConstantsAssumption, FS_Subset
  <2>q. QED BY <2>1, <2>2 DEF Base, TypeOK, Row
<1>2. \A j \in Versioned : IsFiniteSet(Above(j)) /\ Cardinality(Above(j)) \in Nat
  BY <1>1, FS_Subset, FS_CardinalityType
<1>3. Counts \in SUBSET Nat /\ Counts # {}
  BY <1>2
<1>4. Lowest(Counts) \in Counts /\ \A n \in Counts : Lowest(Counts) <= n
  <2>1. \E x \in Counts : \A y \in Counts : x <= y
    BY <1>3, LeastExists
  <2> HIDE DEF Counts
  <2>q. QED BY <2>1 DEF Lowest
<1>5. PICK j \in Versioned : Cardinality(Above(j)) = Lowest(Counts)
  BY <1>4
<1>6. ASSUME NEW i \in Versioned, job[i].version > job[j].version PROVE FALSE
  <2>1. Above(i) \subseteq Above(j) /\ i \in Above(j) /\ i \notin Above(i)
    BY <1>1, <1>6
  <2>2. Cardinality(Above(i)) < Cardinality(Above(j))
    <3> HIDE DEF Above
    <3>1. Cardinality(Above(i)) <= Cardinality(Above(j)) /\ Cardinality(Above(i)) # Cardinality(Above(j))
      BY <1>2, <2>1, FS_Subset
    <3>q. QED BY <1>2, <3>1
  <2>3. Cardinality(Above(i)) \in Counts
    OBVIOUS
  <2> HIDE DEF Counts, Above
  <2>q. QED BY <1>2, <1>4, <1>5, <2>2, <2>3
<1>7. \A i \in Versioned : job[i].version <= job[j].version
  BY <1>1, <1>6
<1>q. QED BY <1>7 DEF Predecessors

Uploaded(j) == Exists(j) /\ job[j].kind = "upload"

\* One request saves at a time, and what it will insert is above all there is.
VersionsInv ==
  contested \/
    /\ \A i, j \in JobIds : i # j /\ Uploaded(i) /\ Uploaded(j) => job[i].version # job[j].version
    /\ \A p, q \in Procs : pc[p] = "saved" /\ pc[q] = "saved" => p = q
    /\ \A p \in Procs, j \in JobIds : pc[p] = "saved" /\ Uploaded(j) => job[j].version < ctx[p].version

LEMMA VersionsKept ==
  ASSUME VersionsInv, UNCHANGED contested,
         \A j \in JobIds : Uploaded(j)' => Uploaded(j) /\ job'[j].version = job[j].version,
         \A p \in Procs : pc'[p] = "saved" => pc[p] = "saved" /\ ctx'[p] = ctx[p]
  PROVE  VersionsInv'
BY DEF VersionsInv

LEMMA NextVersions == Base /\ VersionsInv /\ [Next]_vars => VersionsInv'
<1> SUFFICES ASSUME Base, VersionsInv, [Next]_vars PROVE VersionsInv'  OBVIOUS
<1>0. \A j \in JobIds : job[j].version \in Nat
  BY DEF Base, TypeOK, Row
<1>1. ASSUME NEW p \in Procs, SaveUpload(p) PROVE VersionsInv'
  <2>1. PICK j \in JobIds :
          /\ UNCHANGED job /\ contested' = (contested \/ Uploading # {})
          /\ \/ UNCHANGED <<pc, ctx>>
             \/ /\ pc' = [pc EXCEPT ![p] = "saved"]
                /\ \E new \in Context : ctx' = [ctx EXCEPT ![p] = new] /\ Holds(new, j)
    BY <1>1, SaveEffect
  <2>2. CASE contested'
    BY <2>2 DEF VersionsInv
  <2>3. CASE ~contested' /\ UNCHANGED <<pc, ctx>>
    <3>1. ~contested  BY <2>1, <2>3
    <3>2. \A i \in JobIds : Uploaded(i)' <=> Uploaded(i)
      BY <2>1 DEF Uploaded, Exists
    <3>q. QED BY <2>1, <2>3, <3>1, <3>2 DEF VersionsInv
  <2>4. ASSUME ~contested', NEW new \in Context, ctx' = [ctx EXCEPT ![p] = new], Holds(new, j),
               pc' = [pc EXCEPT ![p] = "saved"]
        PROVE  VersionsInv'
    <3>1. ~contested /\ \A q \in Procs : pc[q] # "saved"
      BY <2>1, <2>4 DEF Uploading
    <3>2. ctx'[p] = new /\ \A q \in Procs : pc'[q] = "saved" => q = p
      BY <2>4, <3>1 DEF Base, TypeOK
    <3>3. \A i \in JobIds : Uploaded(i) => job[i].version < new.version
      <4>1. CASE Predecessors = {}
        BY <4>1, HighestExists DEF Uploaded, Versioned
      <4>2. CASE new.previous \in Predecessors /\ new.version = job[new.previous].version + 1
        <5>1. new.previous \in JobIds /\ \A i \in JobIds : Uploaded(i) => job[i].version <= job[new.previous].version
          BY <4>2 DEF Predecessors, Versioned, Uploaded
        <5>q. QED BY <1>0, <4>2, <5>1
      <4>q. QED BY <2>4, <4>1, <4>2 DEF Holds
    <3>4. \A i \in JobIds : Uploaded(i)' <=> Uploaded(i)
      BY <2>1 DEF Uploaded, Exists
    <3>q. QED BY <2>1, <3>1, <3>2, <3>3, <3>4 DEF VersionsInv
  <2>q. QED BY <2>1, <2>2, <2>3, <2>4
<1>2. ASSUME NEW p \in Procs, Commits(p) PROVE VersionsInv'
  <2>1. PICK i \in JobIds :
        /\ job[i].state = "none" /\ \A j \in JobIds \ {i} : job'[j] = job[j]
        /\ job' = job \/ job'[i].version = ctx[p].version
    BY <1>2, CommitsRows
  <2>2. /\ pc[p] = "saved" /\ UNCHANGED contested
        /\ \A q \in Procs : pc'[q] = "saved" => q # p /\ pc[q] = "saved" /\ ctx'[q] = ctx[q]
    BY <1>2 DEF Commits
  <2>3. CASE contested  BY <2>2, <2>3 DEF VersionsInv
  <2>4. CASE ~contested
    <3>1. \A q \in Procs : pc'[q] # "saved"
      BY <2>2, <2>4 DEF VersionsInv
    <3>2. \A j \in JobIds \ {i} : Uploaded(j)' => Uploaded(j) /\ job'[j] = job[j] /\ job[j].version < ctx[p].version
      BY <2>1, <2>2, <2>4 DEF VersionsInv, Uploaded, Exists
    <3>3. ~Uploaded(i)  BY <2>1 DEF Uploaded, Exists
    <3>4. CASE job' = job
      BY <2>2, <2>4, <3>1, <3>4, VersionsKept DEF Uploaded, Exists
    <3>5. CASE job'[i].version = ctx[p].version
      BY <1>0, <2>2, <2>4, <3>1, <3>2, <3>5 DEF VersionsInv
    <3>q. QED BY <2>1, <3>4, <3>5
  <2>q. QED BY <2>3, <2>4
<1>3. ASSUME NEW p \in Procs, Dies(p) PROVE VersionsInv'
  BY <1>3, VersionsKept DEF Dies, Uploaded, Exists
<1>4. ASSUME NEW kind \in {"mail", "benchmark"}, NEW m \in GroupIds, NEW jobs \in SUBSET JobIds,
             Inserts(kind, m, jobs) PROVE VersionsInv'
  <2>1. /\ \A j \in JobIds \ jobs : job'[j] = job[j]
        /\ \A j \in jobs : job'[j].kind # "upload"
    BY <1>4, InsertsRows
  <2>2. Keeps /\ UNCHANGED contested  BY <1>4 DEF Inserts
  <2>q. QED BY <2>1, <2>2, VersionsKept DEF Keeps, Uploaded, Exists
<1>5. ASSUME NEW jobs \in SUBSET JobIds, Removes(jobs) PROVE VersionsInv'
  <2>1. job' = Without(jobs) /\ UNCHANGED <<pc, ctx, contested>>
    BY <1>5 DEF Removes
  <2>2. \A j \in JobIds :
          /\ job'[j].state = IF j \in jobs THEN "gone" ELSE job[j].state
          /\ job'[j].kind = job[j].kind /\ job'[j].version = job[j].version
    BY <2>1, WithoutRows
  <2>q. QED BY <2>1, <2>2, VersionsKept DEF Uploaded, Exists
<1>6. ASSUME NEW m \in GroupIds, Orphans(m) PROVE VersionsInv'
  <2>1. \A j \in JobIds : /\ job'[j].state = job[j].state /\ job'[j].kind = job[j].kind
                          /\ job'[j].version = job[j].version
    BY <1>6, OrphanedRows DEF Orphans
  <2>2. UNCHANGED <<pc, ctx, contested>>  BY <1>6 DEF Orphans
  <2>q. QED BY <2>1, <2>2, VersionsKept DEF Uploaded, Exists
<1>7. ASSUME NEW j \in JobIds, Convert(j) PROVE VersionsInv'
  <2>1. \A i \in JobIds : job'[i].kind = job[i].kind /\ job'[i].version = job[i].version /\ (Exists(i)' <=> Exists(i))
    BY <1>7, ConvertedRows DEF Terminal, Exists
  <2>2. UNCHANGED <<pc, ctx, contested>>  BY <1>7 DEF Convert
  <2>q. QED BY <2>1, <2>2, VersionsKept DEF Uploaded
<1>8. ASSUME Quiet PROVE VersionsInv'
  BY <1>8, VersionsKept DEF Quiet, Keeps, Uploaded, Exists
<1>q. QED BY <1>1, <1>2, <1>3, <1>4, <1>5, <1>6, <1>7, <1>8, StepCases

\* Unless uploads overlapped, no two rows are one version of the document, whatever
\* has been deleted since (routes.py:595-735).
THEOREM VersionsAreDistinct == Spec => []VersionsDistinct
<1>1. Init => VersionsInv
  BY DEF Init, VersionsInv, Uploaded, Exists, NoRow
<1>2. VersionsInv => VersionsDistinct
  BY DEF VersionsInv, VersionsDistinct, Uploaded
<1>q. QED BY <1>1, <1>2, InitBase, NextBase, NextVersions, PTL DEF Spec

\* The versions of a document are one chain: each follows its predecessor, and
\* unless uploads overlapped there is one of each (routes.py:595-735).
THEOREM VersionsAreAChain == Spec => []VersionChain
BY ChainsAreSound, VersionsAreDistinct, PTL DEF VersionChain
=============================================================================
