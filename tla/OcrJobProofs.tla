---------------------------- MODULE OcrJobProofs ----------------------------
(***************************************************************************)
(* Theorems about OcrJob. For every instance: the types, and a deleted     *)
(* job stays deleted. The others name what they need of the faults and of  *)
(* the kinds of requests, and hold for any number of jobs, workers,        *)
(* messages and faults of the other kinds:                                 *)
(*   ClaimIsExclusive    one executor, if no request, recovery or stall    *)
(*                       makes a RUNNING job available again;              *)
(*   RestartIsExclusive  one executor, with restarts that do not overlap;  *)
(*   EndsAreAnnounced    the webhooks hear of every end;                   *)
(*   FinishedIsReadable  a FINISHED job has its markdown;                  *)
(*   EndsAreComplete     both: EndIsComplete;                              *)
(*   PendingHasMessage   a started PENDING job has a message or gets one.  *)
(***************************************************************************)
EXTENDS OcrJob, FiniteSetTheorems, TLAPS

-----------------------------------------------------------------------------
(* Types                                                                   *)

\* The steps of a request are numbered 1 to 4, and only some kinds write.
LEMMA ProgramShape ==
  ASSUME NEW op \in RequestKinds, NEW i \in DOMAIN Program[op]
  PROVE  /\ i \in 1..4
         /\ Len(Program[op]) \in 1..4
         /\ Program[op][i] = "write" => op \in {"restart", "folder", "pending", "collection"}
<1>1. op \in {"restart", "folder", "collection", "pending", "save", "delete"}
  BY DEF RequestKinds
<1>2. CASE op = "restart"    BY <1>2 DEF Program
<1>3. CASE op = "folder"     BY <1>3 DEF Program
<1>4. CASE op = "collection" BY <1>4 DEF Program
<1>5. CASE op = "pending"    BY <1>5 DEF Program
<1>6. CASE op = "save"       BY <1>6 DEF Program
<1>7. CASE op = "delete"     BY <1>7 DEF Program
<1>q. QED BY <1>1, <1>2, <1>3, <1>4, <1>5, <1>6, <1>7

LEMMA StepType ==
  ASSUME TypeOK, NEW c \in Callers, Step(c) # "none"
  PROVE  /\ api[c].op \in RequestKinds /\ api[c].step \in 1..4
         /\ Step(c) = "write" => api[c].op \in {"restart", "folder", "pending", "collection"}
         /\ Advanced(c) \in Request /\ Onward(c) \in Request /\ Answered \in Request
<1>1. api[c] \in Request  BY DEF TypeOK
<1>2. api[c].op \in RequestKinds  BY <1>1 DEF Request
<1>3. api[c].step \in DOMAIN Program[api[c].op] /\ Step(c) = Program[api[c].op][api[c].step]
  BY DEF Step
<1>4. api[c].step \in 1..4  BY <1>2, <1>3, ProgramShape
<1>5. Advanced(c) \in Request  BY <1>1, <1>4 DEF Advanced, Request
<1>6. NewRow \in Row  BY DEF NewRow, Row, Statuses
<1>7. NoRequest \in Request  BY <1>6 DEF NoRequest, Request, RequestKinds
<1>8. Answered \in Request  BY <1>7 DEF Answered, Request
<1>9. Onward(c) \in Request  BY <1>5, <1>8 DEF Onward
<1>q. QED BY <1>2, <1>3, <1>4, <1>5, <1>8, <1>9, ProgramShape

LEMMA InitTyped == Init => TypeOK
<1> SUFFICES ASSUME Init PROVE TypeOK  OBVIOUS
<1>1. NewRow \in Row  BY DEF NewRow, Row, Statuses
<1>2. (CHOOSE j \in Jobs : TRUE) \in Jobs  BY ConstantsAssumption
<1>3. Nothing \in Context  BY <1>1, <1>2 DEF Nothing, Context
<1>4. NoRequest \in Request  BY <1>1 DEF NoRequest, Request, RequestKinds
<1>5. FirstSends \in Nat  BY ConstantsAssumption
<1>6. up \in [Workers -> {"up", "down", "scan", "commit", "send"}]  BY DEF Init
<1>7. queue \in [Jobs -> [new : Nat, again : Nat]]  BY <1>5 DEF Init
<1>q. QED BY <1>1, <1>3, <1>4, <1>6, <1>7 DEF Init, TypeOK

\* The helpers that write a row keep its type.
LEMMA WritesTyped ==
  ASSUME TypeOK
  PROVE  /\ \A j \in Jobs, seen, new \in Row : Flushed(j, seen, new) \in Row
         /\ \A js : Touch(js) => old' \in [Jobs -> BOOLEAN] /\ later' \subseteq Jobs \X Jobs
         /\ \A j \in Jobs, r \in Row : SetRow(j, r) =>
              /\ row' \in [Jobs -> Row]
              /\ old' \in [Jobs -> BOOLEAN] /\ later' \subseteq Jobs \X Jobs
         /\ \A js : Send(js) => queue' \in [Jobs -> [new : Nat, again : Nat]]
         /\ \A w \in Workers : Ack(w) =>
              /\ pc' \in [Workers -> {"idle", "claimed", "loaded", "convert", "dispatch"}]
              /\ ctx' \in [Workers -> Context]
<1>1. ASSUME NEW j \in Jobs, NEW seen \in Row, NEW new \in Row
      PROVE  Flushed(j, seen, new) \in Row
  <2>1. row[j] \in Row  BY DEF TypeOK
  <2>q. QED BY <2>1 DEF Flushed, Row
<1>2. ASSUME NEW js, Touch(js)
      PROVE  old' \in [Jobs -> BOOLEAN] /\ later' \subseteq Jobs \X Jobs
  <2>1. old' \in [Jobs -> BOOLEAN]
    <3>1. \A j \in Jobs : (old[j] /\ j \notin js) \in BOOLEAN  OBVIOUS
    <3>2. old' = [j \in Jobs |-> old[j] /\ j \notin js]  BY <1>2 DEF Touch
    <3>q. QED BY <3>1, <3>2
  <2>q. QED BY <1>2, <2>1 DEF Touch
<1>3. ASSUME NEW j \in Jobs, NEW r \in Row, SetRow(j, r)
      PROVE  /\ row' \in [Jobs -> Row]
             /\ old' \in [Jobs -> BOOLEAN] /\ later' \subseteq Jobs \X Jobs
  <2>1. row' \in [Jobs -> Row]  BY <1>3 DEF SetRow, TypeOK
  <2>q. QED BY <1>2, <1>3, <2>1 DEF SetRow
<1>4. ASSUME NEW js, Send(js)
      PROVE  queue' \in [Jobs -> [new : Nat, again : Nat]]
  BY <1>4 DEF Send, TypeOK
<1>5. ASSUME NEW w \in Workers, Ack(w)
      PROVE  /\ pc' \in [Workers -> {"idle", "claimed", "loaded", "convert", "dispatch"}]
             /\ ctx' \in [Workers -> Context]
  <2>1. NewRow \in Row  BY DEF NewRow, Row, Statuses
  <2>2. (CHOOSE j \in Jobs : TRUE) \in Jobs  BY ConstantsAssumption
  <2>3. Nothing \in Context  BY <2>1, <2>2 DEF Nothing, Context
  <2>q. QED BY <1>5, <2>3 DEF Ack, Goto, TypeOK
<1>q. QED BY <1>1, <1>2, <1>3, <1>4, <1>5

\* What an execution writes has the type of a row.
LEMMA CommitTyped ==
  ASSUME TypeOK, NEW w \in Workers, NEW new \in Row, new.status \in Ended, CommitEnd(w, new),
         faults' \in Nat
  PROVE  TypeOK'
<1> DEFINE j == ctx[w].job
           r == [Flushed(j, ctx[w].row, new) EXCEPT !.result = IF new.status = "FINISHED" THEN new.result ELSE @]
<1>1. j \in Jobs /\ ctx[w].row \in Row /\ ctx[w] \in Context  BY DEF TypeOK, Context
<1>2. Flushed(j, ctx[w].row, new) \in Row  BY <1>1, WritesTyped
<1>3. r \in Row  BY <1>2 DEF Row
<1>4. SetRow(j, r) /\ Goto(w, "dispatch")  BY DEF CommitEnd
<1>5. /\ row' \in [Jobs -> Row]
      /\ old' \in [Jobs -> BOOLEAN] /\ later' \subseteq Jobs \X Jobs
  <2> HIDE DEF r, j
  <2>q. QED BY <1>1, <1>3, <1>4, WritesTyped
<1>6. ctx' \in [Workers -> Context]  BY <1>1 DEF CommitEnd, TypeOK, Context, Ended
<1>7. pc' \in [Workers -> {"idle", "claimed", "loaded", "convert", "dispatch"}]
  BY <1>4 DEF Goto, TypeOK
<1>q. QED BY <1>5, <1>6, <1>7 DEF CommitEnd, TypeOK, workerVars, mqVars

LEMMA TypeStep == TypeOK /\ [Next]_vars => TypeOK'
<1> SUFFICES ASSUME TypeOK, [Next]_vars PROVE TypeOK'  OBVIOUS
<1> USE DEF jobVars, execVars, workerVars, mqVars
<1>0. CASE UNCHANGED vars  BY <1>0 DEF vars, TypeOK
<1>fault. \A kind : Fault(kind) => faults' \in Nat  BY DEF Fault, TypeOK
<1>new. NewRow \in Row  BY DEF NewRow, Row, Statuses
<1>nothing. Nothing \in Context
  <2>1. (CHOOSE j \in Jobs : TRUE) \in Jobs  BY ConstantsAssumption
  <2>q. QED BY <2>1, <1>new DEF Nothing, Context
<1>request. NoRequest \in Request /\ Answered \in Request
  <2>1. NoRequest \in Request  BY <1>new DEF NoRequest, Request, RequestKinds
  <2>q. QED BY <2>1 DEF Answered, Request
<1>exec. \A w \in Workers : ctx[w] \in Context /\ ctx[w].job \in Jobs /\ ctx[w].row \in Row
  BY DEF TypeOK, Context
<1>1. ASSUME NEW j \in Jobs, NEW w \in Workers, NEW kind \in {"new", "again"}, TakeMessage(w, j, kind)
      PROVE  queue' \in [Jobs -> [new : Nat, again : Nat]]
  <2>1. queue[j] \in [new : Nat, again : Nat]  BY DEF TypeOK
  <2>2. CASE kind = "new"    BY <1>1, <2>1, <2>2 DEF TakeMessage, TypeOK
  <2>3. CASE kind = "again"  BY <1>1, <2>1, <2>3 DEF TakeMessage, TypeOK
  <2>q. QED BY <2>2, <2>3
<1>2. ASSUME NEW j \in Jobs, NEW w \in Workers, NEW kind \in {"new", "again"}, ClaimJob(w, j, kind)
      PROVE  TypeOK'
  <2>1. queue' \in [Jobs -> [new : Nat, again : Nat]]  BY <1>1, <1>2 DEF ClaimJob
  <2>2. [row[j] EXCEPT !.status = "RUNNING"] \in Row
    <3>1. row[j] \in Row  BY DEF TypeOK
    <3>q. QED BY <3>1 DEF Row, Statuses
  <2>3. row' \in [Jobs -> Row] /\ old' \in [Jobs -> BOOLEAN] /\ later' \subseteq Jobs \X Jobs
    BY <1>2, <2>2, WritesTyped DEF ClaimJob
  <2>4. notified' \in [Jobs -> SUBSET {"FINISHED", "FAILED"}]  BY <1>2 DEF ClaimJob, TypeOK
  <2>5. pc' \in [Workers -> {"idle", "claimed", "loaded", "convert", "dispatch"}]
    BY <1>2 DEF ClaimJob, Goto, TypeOK
  <2>6. [Nothing EXCEPT !.job = j, !.again = (kind = "again")] \in Context
    BY <1>nothing DEF Context
  <2>7. ctx' \in [Workers -> Context]  BY <1>2, <2>6 DEF ClaimJob, TypeOK
  <2>q. QED BY <1>2, <2>1, <2>3, <2>4, <2>5, <2>7 DEF ClaimJob, TypeOK
<1>3. ASSUME NEW j \in Jobs, NEW w \in Workers, NEW kind \in {"new", "again"}, IgnoreMessage(w, j, kind)
      PROVE  TypeOK'
  <2>1. queue' \in [Jobs -> [new : Nat, again : Nat]]  BY <1>1, <1>3 DEF IgnoreMessage
  <2>q. QED BY <1>3, <2>1 DEF IgnoreMessage, TypeOK
<1>4. ASSUME NEW j \in Jobs, RestoreUnacked(j) PROVE TypeOK'
  <2>1. queue[j] \in [new : Nat, again : Nat] /\ unacked[j] \in Nat  BY DEF TypeOK
  <2>2. queue' \in [Jobs -> [new : Nat, again : Nat]]  BY <1>4, <2>1 DEF RestoreUnacked, TypeOK
  <2>3. unacked' \in [Jobs -> Nat]  BY <1>4, <2>1 DEF RestoreUnacked, TypeOK
  <2>q. QED BY <1>4, <2>2, <2>3 DEF RestoreUnacked, TypeOK
<1>5. ASSUME NEW j \in Jobs, TwoMinutesPass(j) PROVE TypeOK'
  <2>1. \A k \in Jobs : (old[k] \/ k \in Aged(j)) \in BOOLEAN  OBVIOUS
  <2>2. old' = [k \in Jobs |-> old[k] \/ k \in Aged(j)]  BY <1>5 DEF TwoMinutesPass
  <2>3. old' \in [Jobs -> BOOLEAN]  BY <2>1, <2>2
  <2>q. QED BY <1>5, <2>3 DEF TwoMinutesPass, TypeOK
<1>6. ASSUME NEW w \in Workers, Execute(w) PROVE TypeOK'
  <2>1. CASE LoadJob(w)
    <3>1. row[ctx[w].job] \in Row  BY <1>exec DEF TypeOK
    <3>2. ctx' \in [Workers -> Context]  BY <1>exec, <2>1, <3>1 DEF LoadJob, TypeOK, Context
    <3>q. QED BY <2>1, <3>2 DEF LoadJob, Goto, TypeOK
  <2>2. CASE Abandon(w)  BY <2>2, WritesTyped DEF Abandon, TypeOK
  <2>3. CASE FailRedelivered(w)
    <3>1. [ctx[w].row EXCEPT !.status = "FAILED"] \in Row  BY <1>exec DEF Row, Statuses
    <3>2. [ctx[w].row EXCEPT !.status = "FAILED"].status \in Ended  BY <1>exec DEF Row, Ended
    <3>3. faults' \in Nat  BY <2>3 DEF FailRedelivered, TypeOK
    <3>q. QED BY <2>3, <3>1, <3>2, <3>3, CommitTyped DEF FailRedelivered
  <2>4. CASE StartConversion(w)
    <3>1. [row[ctx[w].job] EXCEPT !.chosen = ctx[w].row.chosen] \in Row
      <4>1. row[ctx[w].job] \in Row  BY <1>exec DEF TypeOK
      <4>q. QED BY <1>exec, <4>1 DEF Row
    <3>2. row' \in [Jobs -> Row] /\ old' \in [Jobs -> BOOLEAN] /\ later' \subseteq Jobs \X Jobs
      BY <1>exec, <2>4, <3>1, WritesTyped DEF StartConversion
    <3>q. QED BY <2>4, <3>2 DEF StartConversion, Goto, TypeOK
  <2>5. CASE FinishJob(w)
    <3>1. Converted(ctx[w].row) \in Row  BY <1>exec DEF Converted, Row, Statuses
    <3>2. Converted(ctx[w].row).status \in Ended  BY <1>exec DEF Converted, Row, Ended
    <3>3. faults' \in Nat  BY <2>5 DEF FinishJob, TypeOK
    <3>q. QED BY <2>5, <3>1, <3>2, <3>3, CommitTyped DEF FinishJob
  <2>6. CASE DispatchEvent(w)
    <3>1. ctx[w].event \in {"FINISHED", "FAILED"}  BY <1>exec DEF Context
    <3>2. notified' \in [Jobs -> SUBSET {"FINISHED", "FAILED"}]
      BY <2>6, <3>1 DEF DispatchEvent, Announced, TypeOK
    <3>q. QED BY <2>6, <3>2, WritesTyped DEF DispatchEvent, TypeOK
  <2>q. QED BY <1>6, <2>1, <2>2, <2>3, <2>4, <2>5, <2>6 DEF Execute
<1>7. ASSUME NEW w \in Workers, FailJob(w) PROVE TypeOK'
  <2>1. [ctx[w].row EXCEPT !.status = "FAILED"] \in Row  BY <1>exec DEF Row, Statuses
  <2>2. [ctx[w].row EXCEPT !.status = "FAILED"].status \in Ended  BY <1>exec DEF Row, Ended
  <2>q. QED BY <1>7, <1>fault, <2>1, <2>2, CommitTyped DEF FailJob
<1>8. ASSUME NEW w \in Workers, ChildDies(w) PROVE TypeOK'
  <2>1. PICK j \in Jobs : j = ctx[w].job  BY <1>exec
  <2>2. queue' \in [Jobs -> [new : Nat, again : Nat]]
    <3>1. queue' = [queue EXCEPT ![j] = [queue[j] EXCEPT !.again = @ + 1]]  BY <1>8, <2>1 DEF ChildDies
    <3>2. queue[j] \in [new : Nat, again : Nat]  BY DEF TypeOK
    <3>3. [queue[j] EXCEPT !.again = @ + 1] \in [new : Nat, again : Nat]  BY <3>2
    <3>q. QED BY <3>1, <3>3 DEF TypeOK
  <2>3. faults' \in Nat  BY <1>8, <1>fault DEF ChildDies
  <2>q. QED BY <1>8, <2>2, <2>3, WritesTyped DEF ChildDies, TypeOK
<1>9. ASSUME NEW w \in Workers, HardLimit(w) PROVE TypeOK'
  <2>1. faults' \in Nat  BY <1>9, <1>fault DEF HardLimit
  <2>q. QED BY <1>9, <2>1, WritesTyped DEF HardLimit, TypeOK
<1>10. ASSUME NEW w \in Workers, WorkerDies(w) PROVE TypeOK'
  <2>1. faults' \in Nat  BY <1>10, <1>fault DEF WorkerDies
  <2>2. unacked' \in [Jobs -> Nat]  BY <1>10, <1>exec DEF WorkerDies, TypeOK
  <2>3. hook' \in [Workers -> SUBSET Jobs]  BY <1>10 DEF WorkerDies, TypeOK
  <2>4. up' \in [Workers -> {"up", "down", "scan", "commit", "send"}]  BY <1>10 DEF WorkerDies, TypeOK
  <2>q. QED BY <1>10, <2>1, <2>2, <2>3, <2>4, WritesTyped DEF WorkerDies, TypeOK
<1>11. CASE LockExpires  BY <1>11 DEF LockExpires, TypeOK
<1>12. ASSUME NEW w \in Workers, Recover(w) PROVE TypeOK'
  <2>1. CASE Boot(w)         BY <2>1 DEF Boot, TypeOK
  <2>2. CASE ScanRunning(w)  BY <2>2 DEF ScanRunning, TypeOK
  <2>3. CASE Requeue(w)
    <3>1. \A j \in Jobs : [row[j] EXCEPT !.status = "PENDING"] \in Row  BY DEF TypeOK, Row, Statuses
    <3>2. row' \in [Jobs -> Row]  BY <2>3, <3>1 DEF Requeue, TypeOK
    <3>3. old' \in [Jobs -> BOOLEAN] /\ later' \subseteq Jobs \X Jobs
      <4>1. Touch(hook[w]) \/ UNCHANGED <<row, old, later>>  BY <2>3 DEF Requeue
      <4>q. QED BY <4>1, WritesTyped DEF TypeOK
    <3>4. hook' \in [Workers -> SUBSET Jobs]  BY <2>3 DEF Requeue, TypeOK
    <3>5. up' \in [Workers -> {"up", "down", "scan", "commit", "send"}]  BY <2>3 DEF Requeue, TypeOK
    <3>q. QED BY <2>3, <3>2, <3>3, <3>4, <3>5 DEF Requeue, TypeOK
  <2>4. CASE SendNext(w)
    <3>1. PICK j \in hook[w] : SendRecovered(w, j) /\ hook' = [hook EXCEPT ![w] = @ \ {j}]
      BY <2>4 DEF SendNext
    <3>a. Send({j})  BY <3>1 DEF SendRecovered
    <3>2. queue' \in [Jobs -> [new : Nat, again : Nat]]
      <4> HIDE DEF mqVars
      <4>q. QED BY <3>a, WritesTyped
    <3>3. hook' \in [Workers -> SUBSET Jobs]  BY <3>1 DEF TypeOK
    <3>q. QED BY <2>4, <3>2, <3>3 DEF SendNext, TypeOK
  <2>5. CASE BecomeReady(w)  BY <2>5 DEF BecomeReady, TypeOK
  <2>q. QED BY <1>12, <2>1, <2>2, <2>3, <2>4, <2>5 DEF Recover
<1>13. ASSUME NEW c \in Callers, ReceiveRequest(c) PROVE TypeOK'
  <2>1. PICK op \in Requests, js \in SUBSET Jobs :
          api' = [api EXCEPT ![c] = [NoRequest EXCEPT !.step = 1, !.op = op, !.targets = js]]
    <3>1. PICK op \in Requests : \E js \in IF op = "pending" THEN {{}} ELSE {{j} : j \in Jobs} :
            api' = [api EXCEPT ![c] = [NoRequest EXCEPT !.step = 1, !.op = op, !.targets = js]]
      BY <1>13 DEF ReceiveRequest
    <3>2. \A js \in IF op = "pending" THEN {{}} ELSE {{j} : j \in Jobs} : js \in SUBSET Jobs  OBVIOUS
    <3>q. QED BY <3>1, <3>2
  <2>o. op \in RequestKinds  BY ConstantsAssumption
  <2>3. [NoRequest EXCEPT !.step = 1, !.op = op, !.targets = js] \in Request
    <3>1. ASSUME NEW r \in Request, NEW o \in RequestKinds, NEW t \in SUBSET Jobs
          PROVE  [r EXCEPT !.step = 1, !.op = o, !.targets = t] \in Request
      <4> DEFINE r1 == [r EXCEPT !.step = 1]
                 r2 == [r1 EXCEPT !.op = o]
      <4>1. r1 \in Request  BY DEF Request
      <4>2. r2 \in Request
        <5> HIDE DEF r1
        <5>q. QED BY <4>1 DEF Request
      <4>3. [r2 EXCEPT !.targets = t] \in Request
        <5> HIDE DEF r2
        <5>q. QED BY <4>2 DEF Request
      <4>q. QED BY <4>3
    <3>q. QED BY <2>o, <3>1, <1>request
  <2>4. api' \in [Callers -> Request]  BY <2>1, <2>3 DEF TypeOK
  <2>q. QED BY <1>13, <2>4 DEF ReceiveRequest, TypeOK
<1>14. ASSUME NEW c \in Callers, Serve(c) PROVE TypeOK'
  <2> USE DEF Answer
  <2>a. Step(c) # "none" => Advanced(c) \in Request /\ Onward(c) \in Request  BY StepType
  <2>1. CASE Inspect(c)
    <3>1. faults' \in Nat  BY <2>1, <1>fault DEF Inspect, TypeOK
    <3>2. [Advanced(c) EXCEPT !.active = {j \in Jobs : Executors(j) # {}}] \in Request
      BY <2>1, <2>a DEF Request, Inspect
    <3>3. api' \in [Callers -> Request]  BY <2>1, <2>a, <3>2 DEF Inspect, TypeOK
    <3>q. QED BY <2>1, <3>1, <3>3 DEF Inspect, TypeOK
  <2>2. CASE ReadRow(c)
    <3> DEFINE js == IF api[c].op = "pending" THEN Excess(Cardinality(api[c].active)) ELSE Advanced(c).targets
    <3>0. Advanced(c) \in Request  BY <2>2, <2>a DEF ReadRow
    <3>1. js \in SUBSET Jobs  BY <3>0 DEF Excess, Request
    <3>2. row \in [Jobs -> Row]  BY DEF TypeOK
    <3>3. api' = [api EXCEPT ![c] = [Advanced(c) EXCEPT !.seen = row, !.targets = js]]
      BY <2>2 DEF ReadRow
    <3> HIDE DEF js
    <3>4. [Advanced(c) EXCEPT !.seen = row, !.targets = js] \in Request
      BY <3>0, <3>1, <3>2 DEF Request
    <3>5. api' \in [Callers -> Request]  BY <3>3, <3>4 DEF TypeOK
    <3>q. QED BY <2>2, <3>5 DEF ReadRow, TypeOK
  <2>3. CASE Refuse(c)  BY <2>3, <1>request DEF Refuse, TypeOK
  <2>4. CASE Write(c)
    <3>1. CASE Present(c)
      <4>1. \A j \in Jobs : Edited(c, j) \in Row
        <5> TAKE j \in Jobs
        <5>1. api[c].seen[j] \in Row  BY DEF TypeOK, Request
        <5>2. api[c].op \in {"restart", "folder", "pending", "collection"}
          BY <2>4, StepType DEF Write
        <5>3. CASE api[c].op \in {"restart", "folder"}
          BY <5>1, <5>3 DEF Edited, Row, Statuses
        <5>4. CASE api[c].op = "pending"     BY <5>1, <5>4 DEF Edited, Row, Statuses
        <5>5. CASE api[c].op = "collection"  BY <5>1, <5>5 DEF Edited, Row
        <5>q. QED BY <5>2, <5>3, <5>4, <5>5
      <4>2. \A j \in Jobs : Flushed(j, api[c].seen[j], Edited(c, j)) \in Row
        <5>1. \A j \in Jobs : api[c].seen[j] \in Row  BY DEF TypeOK, Request
        <5>q. QED BY <4>1, <5>1, WritesTyped
      <4>3. row' \in [Jobs -> Row]  BY <2>4, <3>1, <4>2 DEF Write, TypeOK
      <4>4. old' \in [Jobs -> BOOLEAN] /\ later' \subseteq Jobs \X Jobs
        BY <2>4, <3>1, WritesTyped DEF Write
      <4>5. api' \in [Callers -> Request]  BY <2>4, <2>a, <3>1 DEF Write, TypeOK
      <4>q. QED BY <2>4, <4>3, <4>4, <4>5 DEF Write, TypeOK
    <3>2. CASE ~Present(c)  BY <2>4, <3>2, <1>request DEF Write, TypeOK
    <3>q. QED BY <3>1, <3>2
  <2>5. CASE SendMessages(c)
    <3>1. queue' \in [Jobs -> [new : Nat, again : Nat]]  BY <2>5, WritesTyped DEF SendMessages
    <3>2. api' \in [Callers -> Request]  BY <2>5, <2>a DEF SendMessages, TypeOK
    <3>q. QED BY <2>5, <3>1, <3>2 DEF SendMessages, TypeOK
  <2>6. CASE SaveMarkdown(c)
    <3>1. PICK j \in api[c].targets :
            \/ SetRow(j, [row[j] EXCEPT !.result = TRUE])
            \/ UNCHANGED <<row, old, later>>
      BY <2>6 DEF SaveMarkdown
    <3>2. j \in Jobs /\ row[j] \in Row  BY DEF TypeOK, Request
    <3>3. [row[j] EXCEPT !.result = TRUE] \in Row  BY <3>2 DEF Row
    <3>4. row' \in [Jobs -> Row] /\ old' \in [Jobs -> BOOLEAN] /\ later' \subseteq Jobs \X Jobs
      BY <3>1, <3>2, <3>3, WritesTyped DEF TypeOK
    <3>q. QED BY <2>6, <3>4, <1>request DEF SaveMarkdown, TypeOK
  <2>7. CASE DeleteJob(c)
    <3>1. PICK j \in api[c].targets :
            \/ SetRow(j, [NewRow EXCEPT !.status = "GONE"])
            \/ UNCHANGED <<row, old, later>>
      BY <2>7 DEF DeleteJob
    <3>2. j \in Jobs  BY DEF TypeOK, Request
    <3>3. [NewRow EXCEPT !.status = "GONE"] \in Row  BY DEF NewRow, Row, Statuses
    <3>4. row' \in [Jobs -> Row] /\ old' \in [Jobs -> BOOLEAN] /\ later' \subseteq Jobs \X Jobs
      BY <3>1, <3>2, <3>3, WritesTyped DEF TypeOK
    <3>q. QED BY <2>7, <3>4, <1>request DEF DeleteJob, TypeOK
  <2>q. QED BY <1>14, <2>1, <2>2, <2>3, <2>4, <2>5, <2>6, <2>7 DEF Serve
<1>15. ASSUME NEW c \in Callers, RequestDies(c) PROVE TypeOK'
  <2>1. faults' \in Nat  BY <1>15, <1>fault DEF RequestDies
  <2>q. QED BY <1>15, <2>1, <1>request DEF RequestDies, Answer, TypeOK
<1>q. QED BY <1>0, <1>2, <1>3, <1>4, <1>5, <1>6, <1>7, <1>8, <1>9, <1>10, <1>11, <1>12, <1>13,
             <1>14, <1>15 DEF Next, Receive

\* Every variable has its type.
THEOREM JobTypes == Spec => []TypeOK
<1>1. TypeOK /\ [Next]_vars => TypeOK'  BY TypeStep
<1>q. QED BY InitTyped, <1>1, PTL DEF Spec

-----------------------------------------------------------------------------
(* Deleted jobs                                                            *)

\* No step writes to a row that is gone: each checks that it is there at the
\* moment it writes, not when it read it.
LEMMA GoneStep ==
  ASSUME TypeOK, [Next]_vars, NEW j \in Jobs, row[j].status = "GONE"
  PROVE  row'[j] = row[j]
<1> USE DEF jobVars, execVars, workerVars, mqVars
<1>row. row \in [Jobs -> Row]  BY DEF TypeOK
<1>keep. ASSUME NEW k \in Jobs, NEW r, SetRow(k, r), k # j
         PROVE  row'[j] = row[j]
  BY <1>keep, <1>row DEF SetRow
<1>exec. \A w \in Workers : ctx[w].job \in Jobs  BY DEF TypeOK, Context
<1>commit. ASSUME NEW w \in Workers, NEW new, CommitEnd(w, new) PROVE row'[j] = row[j]
  <2>1. ctx[w].job # j  BY <1>commit DEF CommitEnd, Stored
  <2>2. PICK r : SetRow(ctx[w].job, r)  BY <1>commit DEF CommitEnd
  <2>q. QED BY <1>exec, <1>keep, <2>1, <2>2
<1>0. CASE UNCHANGED vars  BY <1>0 DEF vars
<1>1. ASSUME NEW k \in Jobs, Receive(k) PROVE row'[j] = row[j]
  <2>1. ASSUME NEW w \in Workers, NEW kind \in {"new", "again"}, ClaimJob(w, k, kind)
        PROVE  row'[j] = row[j]
    <3>1. k # j  BY <2>1 DEF ClaimJob, Claimable
    <3>2. SetRow(k, [row[k] EXCEPT !.status = "RUNNING"])  BY <2>1 DEF ClaimJob
    <3>q. QED BY <3>1, <3>2, <1>keep
  <2>2. ASSUME NEW w \in Workers, NEW kind \in {"new", "again"}, IgnoreMessage(w, k, kind)
        PROVE  row'[j] = row[j]
    BY <2>2 DEF IgnoreMessage
  <2>q. QED BY <1>1, <2>1, <2>2 DEF Receive
<1>2. ASSUME NEW w \in Workers, Execute(w) PROVE row'[j] = row[j]
  <2>1. CASE LoadJob(w)          BY <2>1 DEF LoadJob
  <2>2. CASE Abandon(w)          BY <2>2 DEF Abandon
  <2>3. CASE FailRedelivered(w)  BY <2>3, <1>commit DEF FailRedelivered
  <2>4. CASE StartConversion(w)
    <3>1. ctx[w].job # j  BY <2>4 DEF StartConversion, Stored
    <3>2. PICK r : SetRow(ctx[w].job, r)  BY <2>4 DEF StartConversion
    <3>q. QED BY <1>exec, <1>keep, <3>1, <3>2
  <2>5. CASE FinishJob(w)        BY <2>5, <1>commit DEF FinishJob
  <2>6. CASE DispatchEvent(w)    BY <2>6 DEF DispatchEvent
  <2>q. QED BY <1>2, <2>1, <2>2, <2>3, <2>4, <2>5, <2>6 DEF Execute
<1>3. ASSUME NEW w \in Workers, FailJob(w) PROVE row'[j] = row[j]
  BY <1>3, <1>commit DEF FailJob
<1>4. ASSUME NEW w \in Workers, Recover(w) PROVE row'[j] = row[j]
  <2>1. CASE Requeue(w)
    <3>1. CASE /\ \A k \in hook[w] : Stored(k)
               /\ row' = [k \in Jobs |-> IF k \in hook[w] THEN [row[k] EXCEPT !.status = "PENDING"] ELSE row[k]]
      <4>1. j \notin hook[w]  BY <3>1 DEF Stored
      <4>q. QED BY <3>1, <4>1
    <3>2. CASE UNCHANGED row  BY <3>2
    <3>q. QED BY <2>1, <3>1, <3>2 DEF Requeue
  <2>q. QED BY <1>4, <2>1 DEF Recover, Boot, ScanRunning, SendNext, BecomeReady
<1>5. ASSUME NEW c \in Callers, Serve(c) PROVE row'[j] = row[j]
  <2>1. CASE Write(c)
    <3>1. CASE Present(c)
      <4>1. j \notin api[c].targets  BY <3>1 DEF Present, Stored
      <4>q. QED BY <2>1, <3>1, <4>1 DEF Write
    <3>q. QED BY <2>1, <3>1 DEF Write
  <2>2. CASE SaveMarkdown(c)
    <3>1. PICK k \in api[c].targets :
            IF row[k].status = "FINISHED" THEN SetRow(k, [row[k] EXCEPT !.result = TRUE])
            ELSE UNCHANGED <<row, old, later>>
      BY <2>2 DEF SaveMarkdown
    <3>2. k \in Jobs  BY DEF TypeOK, Request
    <3>3. CASE k = j  BY <3>1, <3>3
    <3>q. QED BY <3>1, <3>2, <3>3, <1>keep
  <2>3. CASE DeleteJob(c)
    <3>1. PICK k \in api[c].targets :
            IF Stored(k) THEN SetRow(k, [NewRow EXCEPT !.status = "GONE"])
            ELSE UNCHANGED <<row, old, later>>
      BY <2>3 DEF DeleteJob
    <3>2. k \in Jobs  BY DEF TypeOK, Request
    <3>3. CASE k = j  BY <3>1, <3>3 DEF Stored
    <3>q. QED BY <3>1, <3>2, <3>3, <1>keep
  <2>q. QED BY <1>5, <2>1, <2>2, <2>3 DEF Serve, Inspect, ReadRow, Refuse, SendMessages
<1>q. QED BY <1>0, <1>1, <1>2, <1>3, <1>4, <1>5
      DEF Next, RestoreUnacked, TwoMinutesPass, ChildDies, HardLimit, WorkerDies, LockExpires,
          ReceiveRequest, RequestDies

\* A deleted job does not come back, whatever had read its row before: an
\* execution that is under way, a restart, or the recovery of another worker.
THEOREM DeletedIsFinal == Spec => DeletedStaysDeleted
<1>1. TypeOK /\ [Next]_vars => [\A j \in Jobs : row[j].status = "GONE" => row'[j] = row[j]]_vars
  BY GoneStep
<1>q. QED BY JobTypes, <1>1, PTL DEF Spec, DeletedStaysDeleted

-----------------------------------------------------------------------------
(* What the steps that write rows make of them                             *)

\* The commit of an end: a status that the session did not change is not
\* written.
LEMMA CommitEffect ==
  ASSUME TypeOK, NEW w \in Workers, NEW new \in Row, new.status \in Ended, CommitEnd(w, new)
  PROVE  LET j == ctx[w].job IN
         /\ j \in Jobs
         /\ \A k \in Jobs : k # j => row'[k] = row[k]
         /\ row'[j].status = IF new.status = ctx[w].row.status THEN row[j].status ELSE new.status
         /\ new.status = "FINISHED" => row'[j].result = new.result
         /\ new.status = "FAILED" /\ new.result = ctx[w].row.result => row'[j].result = row[j].result
         /\ pc'[w] = "dispatch" /\ ctx'[w].job = j /\ ctx'[w].event = new.status
         /\ \A v \in Workers : v # w => pc'[v] = pc[v] /\ ctx'[v] = ctx[v]
<1> DEFINE j == ctx[w].job
           f == Flushed(j, ctx[w].row, new)
           r == [f EXCEPT !.result = IF new.status = "FINISHED" THEN new.result ELSE @]
<1>1. j \in Jobs /\ ctx[w].row \in Row /\ ctx[w] \in Context  BY DEF TypeOK, Context
<1>2. f \in Row  BY <1>1, WritesTyped
<1>3. SetRow(j, r)  BY DEF CommitEnd
<1>4. f.status = IF new.status = ctx[w].row.status THEN row[j].status ELSE new.status
  BY DEF Flushed
<1>5. f.result = IF new.result = ctx[w].row.result THEN row[j].result ELSE new.result
  BY DEF Flushed
<1>6. r.status = f.status /\ r.result = IF new.status = "FINISHED" THEN new.result ELSE f.result
  <2> HIDE DEF f
  <2>q. QED BY <1>2 DEF Row
<1>7. row'[j] = r /\ \A k \in Jobs : k # j => row'[k] = row[k]
  <2> HIDE DEF r
  <2>q. QED BY <1>1, <1>3 DEF SetRow, TypeOK
<1>8. /\ pc'[w] = "dispatch"
      /\ \A v \in Workers : v # w => pc'[v] = pc[v] /\ ctx'[v] = ctx[v]
  BY DEF CommitEnd, Goto, TypeOK
<1>9. ctx'[w].job = j /\ ctx'[w].event = new.status
  BY <1>1 DEF CommitEnd, TypeOK, Context
<1>10. new.status = "FAILED" => new.status # "FINISHED"  OBVIOUS
<1> HIDE DEF f, r
<1>q. QED BY <1>1, <1>4, <1>5, <1>6, <1>7, <1>8, <1>9, <1>10 DEF j

\* What FailRedelivered, FailJob and FinishJob commit.
LEMMA EndsTyped ==
  ASSUME TypeOK, NEW w \in Workers
  PROVE  /\ [ctx[w].row EXCEPT !.status = "FAILED"] \in Row
         /\ [ctx[w].row EXCEPT !.status = "FAILED"].status = "FAILED"
         /\ [ctx[w].row EXCEPT !.status = "FAILED"].result = ctx[w].row.result
         /\ Converted(ctx[w].row) \in Row
         /\ Converted(ctx[w].row).status = "FINISHED" /\ Converted(ctx[w].row).result
<1>1. ctx[w].row \in Row  BY DEF TypeOK, Context
<1>q. QED BY <1>1 DEF Row, Statuses, Converted

\* An execution that ends its job commits FINISHED with a result, or FAILED
\* with the result it loaded.
LEMMA EndEffect ==
  ASSUME TypeOK, NEW w \in Workers, FailRedelivered(w) \/ FinishJob(w) \/ FailJob(w)
  PROVE  /\ pc[w] \in {"loaded", "convert"}
         /\ UNCHANGED <<notified, workerVars, mqVars, api>>
         /\ \E new \in Row :
              /\ new.status \in Ended /\ CommitEnd(w, new)
              /\ new.status = "FINISHED" => new.result
              /\ new.status = "FAILED" => new.result = ctx[w].row.result
<1>1. CASE FailRedelivered(w)
  <2>1. CommitEnd(w, [ctx[w].row EXCEPT !.status = "FAILED"]) /\ pc[w] = "loaded"
    BY <1>1 DEF FailRedelivered
  <2>2. UNCHANGED <<notified, workerVars, mqVars, api>>  BY <2>1 DEF CommitEnd
  <2>q. QED BY <2>1, <2>2, EndsTyped DEF Ended
<1>2. CASE FailJob(w)
  <2>1. CommitEnd(w, [ctx[w].row EXCEPT !.status = "FAILED"]) /\ pc[w] \in {"loaded", "convert"}
    BY <1>2 DEF FailJob
  <2>2. UNCHANGED <<notified, workerVars, mqVars, api>>  BY <2>1 DEF CommitEnd
  <2>q. QED BY <2>1, <2>2, EndsTyped DEF Ended
<1>3. CASE FinishJob(w)
  <2>1. CommitEnd(w, Converted(ctx[w].row)) /\ pc[w] = "convert"  BY <1>3 DEF FinishJob
  <2>2. UNCHANGED <<notified, workerVars, mqVars, api>>  BY <2>1 DEF CommitEnd
  <2>q. QED BY <2>1, <2>2, EndsTyped DEF Ended
<1>q. QED BY <1>1, <1>2, <1>3

\* The beginning of a conversion changes the settings of its row at most.
LEMMA StartEffect ==
  ASSUME TypeOK, NEW w \in Workers, StartConversion(w)
  PROVE  /\ ctx[w].job \in Jobs
         /\ \A k \in Jobs : k # ctx[w].job => row'[k] = row[k]
         /\ \A k \in Jobs : row'[k].status = row[k].status /\ row'[k].result = row[k].result
<1> DEFINE r == [row[ctx[w].job] EXCEPT !.chosen = ctx[w].row.chosen]
<1>1. ctx[w].job \in Jobs  BY DEF TypeOK, Context
<1>2. row[ctx[w].job] \in Row  BY <1>1 DEF TypeOK
<1>3. r.status = row[ctx[w].job].status /\ r.result = row[ctx[w].job].result  BY <1>2 DEF Row
<1>4. row' = [row EXCEPT ![ctx[w].job] = r]  BY DEF StartConversion, SetRow
<1> HIDE DEF r
<1>q. QED BY <1>1, <1>3, <1>4 DEF TypeOK

\* The write of a request makes jobs PENDING, if anything; only a restart drops
\* a result, and it writes a status only if the one it read was another.
LEMMA WriteEffect ==
  ASSUME TypeOK, NEW c \in Callers, Write(c), NEW j \in Jobs
  PROVE  /\ row'[j].status \in {row[j].status, "PENDING"}
         /\ row'[j] # row[j] => Present(c) /\ j \in api[c].targets
         /\ api[c].op \in {"pending", "collection"} => row'[j].result = row[j].result
         /\ api[c].op = "collection" => row'[j].status = row[j].status
         /\ api[c].seen[j].status = "PENDING" => row'[j].status = row[j].status
         /\ row'[j].result => row[j].result
         /\ \/ row'[j].result = row[j].result
            \/ api[c].seen[j].result /\ (api[c].seen[j].status = "PENDING" \/ row'[j].status = "PENDING")
<1> DEFINE seen == api[c].seen[j]
<1>1. seen \in Row /\ row[j] \in Row  BY DEF TypeOK, Request
<1>2. api[c].op \in {"restart", "folder", "pending", "collection"}  BY StepType DEF Write
<1>3. CASE Present(c) /\ j \in api[c].targets
  <2>1. row'[j] = Flushed(j, seen, Edited(c, j))  BY <1>3 DEF Write
  <2>2. /\ row'[j].status = IF Edited(c, j).status = seen.status THEN row[j].status ELSE Edited(c, j).status
        /\ row'[j].result = IF Edited(c, j).result = seen.result THEN row[j].result ELSE Edited(c, j).result
    BY <2>1 DEF Flushed
  <2>3. CASE api[c].op \in {"restart", "folder"}
    <3>1. Edited(c, j) = [seen EXCEPT !.status = "PENDING", !.result = FALSE]  BY <2>3 DEF Edited
    <3>2. Edited(c, j).status = "PENDING" /\ Edited(c, j).result = FALSE  BY <1>1, <3>1 DEF Row
    <3>3. seen.result \in BOOLEAN /\ row[j].result \in BOOLEAN  BY <1>1 DEF Row
    <3> HIDE DEF seen
    <3>q. QED BY <1>3, <2>2, <2>3, <3>2, <3>3 DEF seen
  <2>4. CASE api[c].op = "pending"
    <3>1. Edited(c, j) = [seen EXCEPT !.status = "PENDING"]  BY <2>4 DEF Edited
    <3>2. Edited(c, j).status = "PENDING" /\ Edited(c, j).result = seen.result  BY <1>1, <3>1 DEF Row
    <3> HIDE DEF seen
    <3>q. QED BY <1>3, <2>2, <2>4, <3>2 DEF seen
  <2>5. CASE api[c].op = "collection"
    <3>1. Edited(c, j) = [seen EXCEPT !.chosen = TRUE]  BY <2>5 DEF Edited
    <3>2. Edited(c, j).status = seen.status /\ Edited(c, j).result = seen.result
      BY <1>1, <3>1 DEF Row
    <3> HIDE DEF seen
    <3>q. QED BY <1>3, <2>2, <2>5, <3>2 DEF seen
  <2>q. QED BY <1>2, <2>3, <2>4, <2>5
<1>4. CASE ~(Present(c) /\ j \in api[c].targets)
  <2>1. row'[j] = row[j]  BY <1>4 DEF Write, TypeOK
  <2>q. QED BY <2>1
<1>q. QED BY <1>3, <1>4

LEMMA SaveEffect ==
  ASSUME TypeOK, NEW c \in Callers, SaveMarkdown(c), NEW j \in Jobs
  PROVE  /\ row'[j].status = row[j].status /\ row'[j].chosen = row[j].chosen
         /\ row'[j] # row[j] => row'[j].result /\ row[j].status = "FINISHED"
<1>1. PICK k \in api[c].targets :
        IF row[k].status = "FINISHED" THEN SetRow(k, [row[k] EXCEPT !.result = TRUE])
        ELSE UNCHANGED <<row, old, later>>
  BY DEF SaveMarkdown
<1>2. k \in Jobs  BY DEF TypeOK, Request
<1>3. row[k] \in Row  BY <1>2 DEF TypeOK
<1> DEFINE r == [row[k] EXCEPT !.result = TRUE]
<1>4. r.status = row[k].status /\ r.chosen = row[k].chosen /\ r.result = TRUE  BY <1>3 DEF Row
<1>5. CASE row[k].status = "FINISHED"
  <2>1. row' = [row EXCEPT ![k] = r]  BY <1>1, <1>5 DEF SetRow
  <2> HIDE DEF r
  <2>q. QED BY <1>2, <1>4, <1>5, <2>1 DEF TypeOK
<1>6. CASE row[k].status # "FINISHED"  BY <1>1, <1>6
<1>q. QED BY <1>5, <1>6

LEMMA DeleteEffect ==
  ASSUME TypeOK, NEW c \in Callers, DeleteJob(c), NEW j \in Jobs
  PROVE  row'[j] = row[j] \/ row'[j].status = "GONE"
<1>1. PICK k \in api[c].targets :
        IF Stored(k) THEN SetRow(k, [NewRow EXCEPT !.status = "GONE"])
        ELSE UNCHANGED <<row, old, later>>
  BY DEF DeleteJob
<1>2. k \in Jobs  BY DEF TypeOK, Request
<1> DEFINE r == [NewRow EXCEPT !.status = "GONE"]
<1>3. r.status = "GONE"  BY DEF NewRow
<1>4. CASE Stored(k)
  <2>1. row' = [row EXCEPT ![k] = r]  BY <1>1, <1>4 DEF SetRow
  <2> HIDE DEF r
  <2>q. QED BY <1>2, <1>3, <2>1 DEF TypeOK
<1>5. CASE ~Stored(k)  BY <1>1, <1>5
<1>q. QED BY <1>4, <1>5

\* A claim takes one job, which runs and was not announced yet.
LEMMA ClaimEffect ==
  ASSUME TypeOK, NEW w \in Workers, NEW j \in Jobs, NEW kind \in {"new", "again"},
         ClaimJob(w, j, kind)
  PROVE  /\ row'[j].status = "RUNNING" /\ row'[j].result = row[j].result
         /\ \A k \in Jobs : k # j => row'[k] = row[k] /\ notified'[k] = notified[k]
         /\ pc[w] = "idle"
         /\ \A v \in Workers : v # w => pc'[v] = pc[v] /\ ctx'[v] = ctx[v]
         /\ ctx'[w].job = j
<1> DEFINE r == [row[j] EXCEPT !.status = "RUNNING"]
<1>1. r.status = "RUNNING" /\ r.result = row[j].result  BY DEF TypeOK, Row
<1>2. row' = [row EXCEPT ![j] = r]  BY DEF ClaimJob, SetRow
<1>3. row'[j] = r /\ \A k \in Jobs : k # j => row'[k] = row[k]
  <2> HIDE DEF r
  <2>q. QED BY <1>2 DEF TypeOK
<1>4. \A k \in Jobs : k # j => notified'[k] = notified[k]  BY DEF ClaimJob, TypeOK
<1>5. pc[w] = "idle" /\ \A v \in Workers : v # w => pc'[v] = pc[v] /\ ctx'[v] = ctx[v]
  BY DEF ClaimJob, TakeMessage, Goto, TypeOK
<1>6. [Nothing EXCEPT !.job = j, !.again = (kind = "again")].job = j  BY DEF Nothing
<1>7. ctx'[w].job = j  BY <1>6 DEF ClaimJob, TypeOK
<1> HIDE DEF r
<1>q. QED BY <1>1, <1>3, <1>4, <1>5, <1>7

AllUp == \A w \in Workers : up[w] = "up"

\* Has the request c made its write?
Past(c) == api[c].step = 5 \/ (api[c].step = 4 /\ api[c].op # "folder")

\* What the requests do to api: seen is read or forgotten, a request that made
\* its write stays past it, and one under way is of the kind it was.
LEMMA RequestMoves ==
  ASSUME TypeOK, NEW c \in Callers, ReceiveRequest(c) \/ Serve(c) \/ RequestDies(c), NEW d \in Callers
  PROVE  /\ Past(d) => Past(d)'
         /\ \/ api'[d].seen = api[d].seen
            \/ \A j \in Jobs : api'[d].seen[j] = NewRow
            \/ ReadRow(d) /\ api'[d].seen = row
         /\ api'[d].step \in 1..4 =>
              (api[d].step \in 1..4 /\ api'[d].op = api[d].op) \/ api'[d].op \in Requests
<1>0. api[c] \in Request /\ api[d] \in Request /\ api \in [Callers -> Request]  BY DEF TypeOK
<1>1. CASE c # d /\ \E r : api' = [api EXCEPT ![c] = r]
  BY <1>0, <1>1 DEF Past
<1>2. CASE api' = [api EXCEPT ![c] = Answered] /\ c = d
  <2>1. api'[d] = Answered  BY <1>0, <1>2
  <2>2. Answered.step = 5 /\ \A j \in Jobs : Answered.seen[j] = NewRow
    BY DEF Answered, NoRequest
  <2>q. QED BY <2>1, <2>2 DEF Past
<1>3. ASSUME c = d, Step(c) # "none", NEW r, api' = [api EXCEPT ![c] = r],
             r.step = api[c].step + 1, r.op = api[c].op, r.seen = api[c].seen \/ (ReadRow(c) /\ r.seen = row)
      PROVE  /\ Past(d) => Past(d)'
             /\ api'[d].seen = api[d].seen \/ (ReadRow(d) /\ api'[d].seen = row)
             /\ api[d].step \in 1..4 /\ api'[d].op = api[d].op
  <2>1. api'[d] = r  BY <1>0, <1>3
  <2>2. api[c].step \in 1..4  BY <1>3, StepType
  <2>q. QED BY <1>3, <2>1, <2>2 DEF Past
<1>4. Advanced(c).step = api[c].step + 1 /\ Advanced(c).op = api[c].op /\ Advanced(c).seen = api[c].seen
  BY <1>0 DEF Advanced, Request
<1>5. CASE ReceiveRequest(c)
  <2>1. PICK op \in Requests : \E js \in IF op = "pending" THEN {{}} ELSE {{j} : j \in Jobs} :
          api' = [api EXCEPT ![c] = [NoRequest EXCEPT !.step = 1, !.op = op, !.targets = js]]
    BY <1>5 DEF ReceiveRequest
  <2>2. PICK js : api' = [api EXCEPT ![c] = [NoRequest EXCEPT !.step = 1, !.op = op, !.targets = js]]
    BY <2>1
  <2> DEFINE r == [NoRequest EXCEPT !.step = 1, !.op = op, !.targets = js]
  <2>3. r.op = op /\ \A j \in Jobs : r.seen[j] = NewRow  BY DEF NoRequest
  <2>4. api[c].step = 0  BY <1>5 DEF ReceiveRequest
  <2> HIDE DEF r
  <2>5. CASE c = d
    <3>1. api'[d] = r  BY <1>0, <2>2, <2>5 DEF r
    <3>q. QED BY <2>3, <2>4, <2>5, <3>1 DEF Past
  <2>q. QED BY <1>1, <2>2, <2>5
<1>6. CASE RequestDies(c)  BY <1>1, <1>2, <1>6 DEF RequestDies, Answer
<1>7. CASE Serve(c)
  <2>1. CASE Inspect(c)
    <3>1. PICK r : /\ api' = [api EXCEPT ![c] = r]
                   /\ r.step = Advanced(c).step /\ r.op = Advanced(c).op /\ r.seen = Advanced(c).seen
      <4>1. CASE api' = [api EXCEPT ![c] = Advanced(c)]  BY <4>1
      <4>2. CASE api' = [api EXCEPT ![c] = [Advanced(c) EXCEPT !.active = {j \in Jobs : Executors(j) # {}}]]
        <5>1. Advanced(c) \in Request  BY <2>1, StepType DEF Inspect
        <5> DEFINE r == [Advanced(c) EXCEPT !.active = {j \in Jobs : Executors(j) # {}}]
        <5>2. r.step = Advanced(c).step /\ r.op = Advanced(c).op /\ r.seen = Advanced(c).seen
          BY <5>1 DEF Request
        <5> HIDE DEF r
        <5>q. QED BY <4>2, <5>2 DEF r
      <4>q. QED BY <2>1, <4>1, <4>2 DEF Inspect
    <3>2. Step(c) # "none"  BY <2>1 DEF Inspect
    <3>q. QED BY <1>1, <1>3, <1>4, <3>1, <3>2
  <2>2. CASE ReadRow(c)
    <3> DEFINE js == IF api[c].op = "pending" THEN Excess(Cardinality(api[c].active)) ELSE Advanced(c).targets
               r == [Advanced(c) EXCEPT !.seen = row, !.targets = js]
    <3>0. Step(c) # "none"  BY <2>2 DEF ReadRow
    <3>1. Advanced(c) \in Request  BY <3>0, StepType
    <3>2. api' = [api EXCEPT ![c] = r]  BY <2>2 DEF ReadRow
    <3>3. r.step = Advanced(c).step /\ r.op = Advanced(c).op /\ r.seen = row
      <4> HIDE DEF js
      <4>q. QED BY <3>1 DEF Request
    <3> HIDE DEF r
    <3>q. QED BY <1>1, <1>3, <1>4, <2>2, <3>0, <3>2, <3>3
  <2>3. CASE Refuse(c)  BY <1>1, <1>2, <2>3 DEF Refuse, Answer
  <2>4. CASE api' = [api EXCEPT ![c] = Onward(c)] /\ Step(c) # "none"
    <3>1. CASE Onward(c) = Answered  BY <1>1, <1>2, <2>4, <3>1
    <3>2. CASE Onward(c) = Advanced(c)  BY <1>1, <1>3, <1>4, <2>4, <3>2
    <3>q. QED BY <3>1, <3>2 DEF Onward
  <2>5. CASE Write(c)
    <3>1. CASE Present(c)  BY <2>4, <2>5, <3>1 DEF Write
    <3>2. CASE ~Present(c)  BY <1>1, <1>2, <2>5, <3>2 DEF Write, Answer
    <3>q. QED BY <3>1, <3>2
  <2>6. CASE SendMessages(c)  BY <2>4, <2>6 DEF SendMessages
  <2>7. CASE SaveMarkdown(c) \/ DeleteJob(c)  BY <1>1, <1>2, <2>7 DEF SaveMarkdown, DeleteJob, Answer
  <2>q. QED BY <1>7, <2>1, <2>2, <2>3, <2>5, <2>6, <2>7 DEF Serve
<1>q. QED BY <1>5, <1>6, <1>7

\* Steps that are not of a request leave api alone.
LEMMA ApiSteps ==
  ASSUME [Next]_vars
  PROVE  api' = api \/ \E c \in Callers : ReceiveRequest(c) \/ Serve(c) \/ RequestDies(c)
<1> USE DEF jobVars, execVars, workerVars, mqVars
<1>0. CASE UNCHANGED vars  BY <1>0 DEF vars
<1>1. ASSUME NEW j \in Jobs, Receive(j) \/ RestoreUnacked(j) \/ TwoMinutesPass(j) PROVE api' = api
  BY <1>1 DEF Receive, ClaimJob, IgnoreMessage, RestoreUnacked, TwoMinutesPass
<1>2. ASSUME NEW w \in Workers, Execute(w) \/ FailJob(w) PROVE api' = api
  BY <1>2 DEF Execute, LoadJob, Abandon, FailRedelivered, StartConversion, FinishJob, DispatchEvent,
              FailJob, CommitEnd
<1>3. ASSUME NEW w \in Workers, ChildDies(w) \/ HardLimit(w) \/ WorkerDies(w) \/ Recover(w) PROVE api' = api
  BY <1>3 DEF ChildDies, HardLimit, WorkerDies, Recover, Boot, ScanRunning, Requeue, SendNext, BecomeReady
<1>4. CASE LockExpires  BY <1>4 DEF LockExpires
<1>q. QED BY <1>0, <1>1, <1>2, <1>3, <1>4 DEF Next

\* The points of a request at which it is about to send.
LEMMA SendPoints ==
  ASSUME TypeOK, NEW c \in Callers, api[c].op # "folder"
  PROVE  /\ Step(c) = "send" /\ api[c].op = "collection" => api[c].step = 2
         /\ Step(c) = "send" => api[c].op \in {"restart", "pending", "collection"}
         /\ Step(c) = "write" => api[c].op \in {"restart", "pending", "collection"} /\ api[c].step = 3
         /\ api[c].op = "collection" /\ api[c].step = 3 => Step(c) = "write"
         /\ Step(c) = "send" /\ api[c].op # "collection" => api[c].step = 4
         /\ api[c].op \in {"restart", "pending"} /\ api[c].step = 4 => Step(c) = "send"
         /\ Step(c) \in {"read", "inspect"} /\ api[c].op = "collection" => api[c].step = 1
<1>1. api[c] \in Request /\ api[c].op \in RequestKinds  BY DEF TypeOK, Request
<1>2. api[c].op \in {"restart", "collection", "pending", "save", "delete"}
  BY <1>1 DEF RequestKinds
<1>5. CASE api[c].op = "restart"     BY <1>5 DEF Step, Program
<1>7. CASE api[c].op = "collection"  BY <1>7 DEF Step, Program
<1>8. CASE api[c].op = "pending"     BY <1>8 DEF Step, Program
<1>9. CASE api[c].op = "save"        BY <1>9 DEF Step, Program
<1>10. CASE api[c].op = "delete"     BY <1>10 DEF Step, Program
<1>q. QED BY <1>2, <1>5, <1>7, <1>8, <1>9, <1>10

-----------------------------------------------------------------------------
(* The claim                                                               *)

Executing(w) == pc[w] \in {"claimed", "loaded", "convert"}

\* The job of an execution is RUNNING and was written to in the last two
\* minutes, unless it was deleted; so no other execution can claim it.
ClaimInv ==
  /\ AllUp
  /\ \A w \in Workers : Executing(w) =>
       \/ row[ctx[w].job].status = "RUNNING" /\ ~old[ctx[w].job]
       \/ ~Stored(ctx[w].job)
  /\ \A v, w \in Workers : Executing(v) /\ Executing(w) /\ ctx[v].job = ctx[w].job => v = w

\* No worker process is restarted and no conversion lasts longer than two
\* minutes.
Steady == Faults \cap {"slow", "worker"} = {}

\* No request takes a job away from its execution.
Undisturbed ==
  \A c \in Callers, w \in Workers :
    Write(c) /\ Executing(w) => row'[ctx[w].job].status = row[ctx[w].job].status

LEMMA ClaimInit == ASSUME Steady, Init PROVE ClaimInv
<1>1. \A w \in Workers : up[w] = "up"
  <2>1. "worker" \notin Faults  BY DEF Steady
  <2>q. QED BY <2>1 DEF Init
<1>q. QED BY <1>1 DEF Init, ClaimInv, AllUp, Executing

\* A step that writes no status of a job under way but to delete it, and only
\* ends executions.
LEMMA ClaimQuiet ==
  ASSUME TypeOK, ClaimInv, up' = up,
         \A w \in Workers : Executing(w)' => Executing(w) /\ ctx'[w].job = ctx[w].job,
         \A w \in Workers : Executing(w) =>
           /\ row'[ctx[w].job].status \in {row[ctx[w].job].status, "GONE"}
           /\ old'[ctx[w].job] => old[ctx[w].job]
  PROVE  ClaimInv'
<1>1. \A w \in Workers : ctx[w].job \in Jobs  BY DEF TypeOK, Context
<1>2. ASSUME NEW w \in Workers, Executing(w)'
      PROVE  \/ row'[ctx'[w].job].status = "RUNNING" /\ ~old'[ctx'[w].job]
             \/ row'[ctx'[w].job].status = "GONE"
  <2>1. PICK k \in Jobs : k = ctx[w].job /\ ctx'[w].job = k  BY <1>1, <1>2
  <2>2. Executing(w)  BY <1>2
  <2>3. (row[k].status = "RUNNING" /\ ~old[k]) \/ row[k].status = "GONE"
    BY <2>1, <2>2 DEF ClaimInv, Stored
  <2>4. row'[k].status \in {row[k].status, "GONE"} /\ (old'[k] => old[k])  BY <2>1, <2>2
  <2>5. (row'[k].status = "RUNNING" /\ ~old'[k]) \/ row'[k].status = "GONE"  BY <2>3, <2>4
  <2>q. QED BY <2>1, <2>5
<1>q. QED BY <1>2 DEF ClaimInv, AllUp, Stored

\* The end of an execution: it was the only one of its job.
LEMMA ClaimCommit ==
  ASSUME TypeOK, ClaimInv, NEW w \in Workers, NEW new \in Row, Executing(w), CommitEnd(w, new)
  PROVE  ClaimInv'
<1>job. \A v \in Workers : ctx[v].job \in Jobs  BY DEF TypeOK, Context
<1>1. PICK r : SetRow(ctx[w].job, r)  BY DEF CommitEnd
<1>2. \A v \in Workers : Executing(v)' => v # w /\ Executing(v) /\ ctx'[v] = ctx[v]
  BY DEF CommitEnd, Goto, Executing, TypeOK
<1>3. \A v \in Workers : Executing(v)' => ctx[v].job # ctx[w].job
  BY <1>2 DEF ClaimInv
<1>4. \A k \in Jobs : k # ctx[w].job => row'[k] = row[k] /\ (old'[k] => old[k])
  BY <1>1, <1>job DEF SetRow, Touch, TypeOK
<1>5. ASSUME NEW v \in Workers, Executing(v)'
      PROVE  \/ row'[ctx'[v].job].status = "RUNNING" /\ ~old'[ctx'[v].job]
             \/ row'[ctx'[v].job].status = "GONE"
  BY <1>2, <1>3, <1>4, <1>5, <1>job DEF ClaimInv, AllUp, Stored
<1>6. UNCHANGED up  BY DEF CommitEnd, workerVars
<1>q. QED BY <1>2, <1>5, <1>6 DEF ClaimInv, AllUp, Stored

\* A claim takes a job that no execution has.
LEMMA ClaimTaken ==
  ASSUME TypeOK, ClaimInv, NEW w \in Workers, NEW j \in Jobs, NEW kind \in {"new", "again"},
         ClaimJob(w, j, kind)
  PROVE  ClaimInv'
<1>1. \A v \in Workers : Executing(v) => ctx[v].job # j
  BY DEF ClaimJob, Claimable, ClaimInv, Stored
<1>2. row[j] \in Row  BY DEF TypeOK
<1>3. row'[j].status = "RUNNING" /\ ~old'[j]
  BY <1>2 DEF ClaimJob, SetRow, Touch, TypeOK, Row
<1>4. \A k \in Jobs : k # j => row'[k] = row[k] /\ (old'[k] => old[k])
  BY DEF ClaimJob, SetRow, Touch, TypeOK
<1>5. ctx'[w].job = j /\ Executing(w)'
  <2>1. [Nothing EXCEPT !.job = j, !.again = (kind = "again")].job = j  BY DEF Nothing
  <2>q. QED BY <2>1 DEF ClaimJob, Goto, Executing, TypeOK
<1>6. \A v \in Workers : v # w => (Executing(v)' <=> Executing(v)) /\ ctx'[v] = ctx[v]
  BY DEF ClaimJob, Goto, Executing, TypeOK
<1>7. UNCHANGED up  BY DEF ClaimJob, workerVars
<1>8. \A v \in Workers : ctx[v].job \in Jobs  BY DEF TypeOK, Context
<1>9. \A v \in Workers : Executing(v)' =>
        \/ row'[ctx'[v].job].status = "RUNNING" /\ ~old'[ctx'[v].job]
        \/ row'[ctx'[v].job].status = "GONE"
  <2> TAKE v \in Workers
  <2>1. CASE v = w  BY <1>3, <1>5, <2>1
  <2>2. CASE v # w
    <3>1. HAVE Executing(v)'
    <3>2. PICK k \in Jobs : k = ctx[v].job /\ ctx'[v].job = k  BY <1>6, <1>8, <2>2
    <3>3. k # j /\ ((row[k].status = "RUNNING" /\ ~old[k]) \/ row[k].status = "GONE")
      BY <1>1, <1>6, <2>2, <3>1, <3>2 DEF ClaimInv, AllUp, Stored
    <3>q. QED BY <1>4, <3>2, <3>3
  <2>q. QED BY <2>1, <2>2
<1>10. \A u, v \in Workers : Executing(u)' /\ Executing(v)' /\ ctx'[u].job = ctx'[v].job => u = v
  BY <1>1, <1>5, <1>6 DEF ClaimInv
<1>q. QED BY <1>7, <1>9, <1>10 DEF ClaimInv, AllUp, Stored


LEMMA ClaimStep == ASSUME Steady, TypeOK, ClaimInv, Undisturbed, [Next]_vars PROVE ClaimInv'
<1> USE DEF jobVars, execVars, workerVars, mqVars
<1>job. \A w \in Workers : ctx[w].job \in Jobs  BY DEF TypeOK, Context
<1>same. ASSUME UNCHANGED <<pc, ctx>>
         PROVE  \A w \in Workers : Executing(w)' => Executing(w) /\ ctx'[w].job = ctx[w].job
  BY <1>same DEF Executing
<1>quiet. ASSUME UNCHANGED <<row, old, pc, ctx, up>> PROVE ClaimInv'
  BY <1>quiet, <1>same, ClaimQuiet
<1>ack. ASSUME NEW v \in Workers, Ack(v), UNCHANGED <<row, old, up>> PROVE ClaimInv'
  <2>1. \A w \in Workers : Executing(w)' => Executing(w) /\ ctx'[w].job = ctx[w].job
    BY <1>ack DEF Ack, Goto, Executing, TypeOK
  <2>q. QED BY <1>ack, <2>1, ClaimQuiet
<1>young. ASSUME NEW js, Touch(js) PROVE \A j \in Jobs : old'[j] => old[j]
  BY <1>young DEF Touch
<1>0. CASE UNCHANGED vars  BY <1>0, <1>quiet DEF vars
<1>1. ASSUME NEW j \in Jobs, Receive(j) PROVE ClaimInv'
  <2>1. ASSUME NEW w \in Workers, NEW kind \in {"new", "again"}, IgnoreMessage(w, j, kind)
        PROVE  ClaimInv'
    BY <2>1, <1>quiet DEF IgnoreMessage
  <2>q. QED BY <1>1, <2>1, ClaimTaken DEF Receive
<1>2. ASSUME NEW j \in Jobs, RestoreUnacked(j) PROVE ClaimInv'  BY <1>2, <1>quiet DEF RestoreUnacked
<1>3. ASSUME NEW j \in Jobs, TwoMinutesPass(j) PROVE ClaimInv'
  <2>1. \A k \in Aged(j) : Executors(k) = {}  BY <1>3 DEF TwoMinutesPass, Unhurried, Steady
  <2>2. \A w \in Workers : Executing(w) => ctx[w].job \notin Aged(j)
    BY <2>1 DEF Executors, Executing
  <2>3. \A w \in Workers : Executing(w) /\ ~old[ctx[w].job] => ~old'[ctx[w].job]
    BY <1>3, <2>2 DEF TwoMinutesPass, TypeOK, Context
  <2>4. UNCHANGED <<row, pc, ctx, up>>  BY <1>3 DEF TwoMinutesPass
  <2>q. QED BY <2>3, <2>4, <1>same, ClaimQuiet
<1>end. ASSUME NEW w \in Workers, FailRedelivered(w) \/ FinishJob(w) \/ FailJob(w) PROVE ClaimInv'
  <2>1. PICK new \in Row : new.status \in Ended /\ CommitEnd(w, new)  BY <1>end, EndEffect
  <2>2. pc[w] \in {"loaded", "convert"}  BY <1>end, EndEffect
  <2>q. QED BY <2>1, <2>2, ClaimCommit DEF Executing
<1>4. ASSUME NEW w \in Workers, Execute(w) PROVE ClaimInv'
  <2>1. CASE LoadJob(w)
    <3>1. \A v \in Workers : Executing(v)' => Executing(v) /\ ctx'[v].job = ctx[v].job
      BY <2>1 DEF LoadJob, Goto, Executing, TypeOK, Context
    <3>q. QED BY <2>1, <3>1, ClaimQuiet DEF LoadJob
  <2>2. CASE Abandon(w)  BY <2>2, <1>ack DEF Abandon
  <2>3. CASE FailRedelivered(w) \/ FinishJob(w)  BY <2>3, <1>end
  <2>4. CASE StartConversion(w)
    <3>1. \A v \in Workers : Executing(v)' => Executing(v) /\ ctx'[v].job = ctx[v].job
      BY <2>4 DEF StartConversion, Goto, Executing, TypeOK
    <3>2. \A k \in Jobs : old'[k] => old[k]  BY <2>4, <1>young DEF StartConversion, SetRow
    <3>3. UNCHANGED up  BY <2>4 DEF StartConversion
    <3>q. QED BY <1>job, <2>4, <3>1, <3>2, <3>3, StartEffect, ClaimQuiet
  <2>5. CASE DispatchEvent(w)  BY <2>5, <1>ack DEF DispatchEvent
  <2>q. QED BY <1>4, <2>1, <2>2, <2>3, <2>4, <2>5 DEF Execute
<1>5. ASSUME NEW w \in Workers, FailJob(w) PROVE ClaimInv'  BY <1>5, <1>end
<1>6. ASSUME NEW w \in Workers, ChildDies(w) \/ HardLimit(w) PROVE ClaimInv'
  BY <1>6, <1>ack DEF ChildDies, HardLimit
<1>7. ASSUME NEW w \in Workers, WorkerDies(w) PROVE ClaimInv'
  BY <1>7 DEF WorkerDies, Fault, Steady, ClaimInv, AllUp
<1>8. CASE LockExpires  BY <1>8, <1>quiet DEF LockExpires
<1>9. ASSUME NEW w \in Workers, Recover(w) PROVE ClaimInv'
  BY <1>9 DEF Recover, Boot, ScanRunning, Requeue, SendNext, BecomeReady, ClaimInv, AllUp
<1>10. ASSUME NEW c \in Callers, ReceiveRequest(c) \/ RequestDies(c) PROVE ClaimInv'
  BY <1>10, <1>quiet DEF ReceiveRequest, RequestDies
<1>11. ASSUME NEW c \in Callers, Serve(c) PROVE ClaimInv'
  <2>old. ASSUME NEW js, Touch(js) \/ UNCHANGED old, UNCHANGED <<pc, ctx, up>>,
                 \A w \in Workers : Executing(w) => row'[ctx[w].job].status \in {row[ctx[w].job].status, "GONE"}
          PROVE  ClaimInv'
    BY <2>old, <1>job, <1>same, <1>young, ClaimQuiet
  <2>1. CASE Inspect(c) \/ ReadRow(c) \/ Refuse(c) \/ SendMessages(c)
    BY <2>1, <1>quiet DEF Inspect, ReadRow, Refuse, SendMessages
  <2>2. CASE Write(c)
    <3>1. UNCHANGED <<pc, ctx, up>> /\ (Touch(api[c].targets) \/ UNCHANGED old)  BY <2>2 DEF Write
    <3>q. QED BY <2>2, <3>1, <2>old DEF Undisturbed
  <2>3. CASE SaveMarkdown(c)
    <3>1. PICK j \in Jobs : UNCHANGED <<pc, ctx, up>> /\ (Touch({j}) \/ UNCHANGED old)
      BY <2>3 DEF SaveMarkdown, SetRow, TypeOK, Request
    <3>q. QED BY <1>job, <2>3, <3>1, <2>old, SaveEffect
  <2>4. CASE DeleteJob(c)
    <3>1. PICK j \in Jobs : UNCHANGED <<pc, ctx, up>> /\ (Touch({j}) \/ UNCHANGED old)
      BY <2>4 DEF DeleteJob, SetRow, TypeOK, Request
    <3>q. QED BY <1>job, <2>4, <3>1, <2>old, DeleteEffect
  <2>q. QED BY <1>11, <2>1, <2>2, <2>3, <2>4 DEF Serve
<1>q. QED BY <1>0, <1>1, <1>2, <1>3, <1>4, <1>5, <1>6, <1>7, <1>8, <1>9, <1>10, <1>11 DEF Next

LEMMA ClaimExcludes == TypeOK /\ ClaimInv => OneExecutor
<1> SUFFICES ASSUME TypeOK, ClaimInv, NEW j \in Jobs
             PROVE  Cardinality({w \in Executors(j) : pc[w] # "dispatch"}) <= 1
  BY DEF OneExecutor
<1> DEFINE S == {w \in Executors(j) : pc[w] # "dispatch"}
<1>1. \A v, w \in S : v = w
  <2> SUFFICES ASSUME NEW v \in S, NEW w \in S PROVE v = w  OBVIOUS
  <2>1. /\ v \in Workers /\ pc[v] \notin {"idle", "dispatch"} /\ ctx[v].job = j
        /\ w \in Workers /\ pc[w] \notin {"idle", "dispatch"} /\ ctx[w].job = j
    BY DEF Executors
  <2>2. Executing(v) /\ Executing(w)  BY <2>1 DEF Executing, TypeOK
  <2>q. QED BY <2>1, <2>2 DEF ClaimInv
<1>2. CASE S = {}  BY <1>2, FS_EmptySet
<1> SUFFICES Cardinality(S) <= 1  OBVIOUS
<1>3. CASE S # {}
  <2>1. PICK w : w \in S  BY <1>3
  <2>2. S = {w}  BY <1>1, <2>1
  <2>3. Cardinality({w}) = 1  BY FS_Singleton
  <2> HIDE DEF S
  <2>q. QED BY <2>2, <2>3
<1>q. QED BY <1>2, <1>3


\* Nobody makes a RUNNING job PENDING: no request restarts jobs.
ClaimsOnly == Steady /\ Requests \cap {"restart", "folder", "pending"} = {}

OpsInv == \A c \in Callers : api[c].step \in 1..4 => api[c].op \in Requests

LEMMA OpsStep == ASSUME TypeOK, OpsInv, [Next]_vars PROVE OpsInv'
<1> SUFFICES ASSUME NEW d \in Callers, api'[d].step \in 1..4 PROVE api'[d].op \in Requests
  BY DEF OpsInv
<1>1. CASE api' = api  BY <1>1 DEF OpsInv
<1>2. ASSUME NEW c \in Callers, ReceiveRequest(c) \/ Serve(c) \/ RequestDies(c)
      PROVE  api'[d].op \in Requests
  BY <1>2, RequestMoves DEF OpsInv
<1>q. QED BY <1>1, <1>2, ApiSteps

LEMMA WriterWrites ==
  ASSUME TypeOK, OpsInv, NEW c \in Callers, Write(c)
  PROVE  /\ api[c].op \in Requests \cap {"restart", "folder", "pending", "collection"}
         /\ api[c].step \in 1..4
<1>1. Step(c) = "write"  BY DEF Write
<1>q. QED BY <1>1, StepType DEF OpsInv

\* The claim is exclusive: whatever is sent twice, redelivered after the death
\* of a child, saved or deleted, a job has at most one execution that may still
\* write to it, as long as only the claim makes a RUNNING job available again.
THEOREM ClaimIsExclusive == ASSUME ClaimsOnly PROVE Spec => []OneExecutor
<1>1. Init => ClaimInv /\ OpsInv
  BY ClaimInit DEF ClaimsOnly, Init, OpsInv, NoRequest
<1>2. TypeOK /\ ClaimInv /\ OpsInv /\ [Next]_vars => ClaimInv' /\ OpsInv'
  <2> SUFFICES ASSUME TypeOK, ClaimInv, OpsInv, [Next]_vars PROVE ClaimInv' /\ OpsInv'
    OBVIOUS
  <2>1. ASSUME NEW c \in Callers, NEW w \in Workers, Write(c)
        PROVE  row'[ctx[w].job].status = row[ctx[w].job].status
    <3>1. api[c].op = "collection"  BY <2>1, WriterWrites DEF ClaimsOnly
    <3>2. ctx[w].job \in Jobs  BY DEF TypeOK, Context
    <3>q. QED BY <2>1, <3>1, <3>2, WriteEffect
  <2>q. QED BY <2>1, ClaimStep, OpsStep DEF ClaimsOnly, Undisturbed
<1>q. QED BY JobTypes, ClaimExcludes, <1>1, <1>2, PTL DEF Spec

\* Workers that answer _active_process_job_ids, no execution that ends without
\* an end in the row, and restarts of single jobs only.
PlainRestarts ==
  /\ Steady /\ Faults \cap {"child", "killed", "inspect"} = {}
  /\ Requests \cap {"folder", "pending"} = {}

\* No two requests overlap.
OneAtATime ==
  \A c, d \in Callers : api[c].step \in 1..4 /\ api[d].step \in 1..4 => c = d

Over(j) == row[j].status \in Ended \cup {"GONE"}

\* A RUNNING job has its execution, and what a restart has read of a job it may
\* reset is out of date only if the job has ended since.
RestartInv ==
  /\ \A j \in Jobs : row[j].status = "RUNNING" => \E w \in Workers : Executing(w) /\ ctx[w].job = j
  /\ \A w \in Workers : pc[w] \in {"loaded", "convert"} => ctx[w].row.status = "RUNNING"
  /\ \A c \in Callers : api[c].op = "restart" => \A j \in api[c].targets :
       /\ api[c].step = 2 /\ api[c].seen[j].status # "PENDING" =>
            row[j].status # "PENDING" /\ (api[c].seen[j].status = "RUNNING" \/ Over(j))
       /\ api[c].step = 3 /\ api[c].seen[j].status # "PENDING" =>
            Over(j) \/ (api[c].seen[j].status = "RUNNING" /\ j \in api[c].active)

\* A step that restarts nothing and keeps the executions of what is RUNNING.
LEMMA RestartQuiet ==
  ASSUME TypeOK, RestartInv,
         \A j \in Jobs : /\ row'[j].status = "PENDING" => row[j].status = "PENDING"
                         /\ Over(j) => Over(j)',
         \A j \in Jobs : row'[j].status = "RUNNING" =>
           \/ /\ row[j].status = "RUNNING"
              /\ \A w \in Workers : Executing(w) /\ ctx[w].job = j => Executing(w)' /\ ctx'[w].job = j
           \/ \E w \in Workers : Executing(w)' /\ ctx'[w].job = j,
         \A w \in Workers : pc'[w] \in {"loaded", "convert"} =>
           \/ pc[w] \in {"loaded", "convert"} /\ ctx'[w].row = ctx[w].row
           \/ ctx'[w].row.status = "RUNNING",
         \A c \in Callers : api'[c] = api[c] \/ api'[c].op # "restart" \/ api'[c].step \notin {2, 3}
  PROVE  RestartInv'
<1>1. \A j \in Jobs : row'[j].status = "RUNNING" => \E w \in Workers : Executing(w)' /\ ctx'[w].job = j
  BY DEF RestartInv
<1>2. \A w \in Workers : pc'[w] \in {"loaded", "convert"} => ctx'[w].row.status = "RUNNING"
  BY DEF RestartInv
<1>3. ASSUME NEW c \in Callers, api'[c].op = "restart", NEW j \in api'[c].targets, api'[c].step \in {2, 3},
             api'[c].seen[j].status # "PENDING"
      PROVE  /\ api'[c].step = 2 => row'[j].status # "PENDING" /\ (api'[c].seen[j].status = "RUNNING" \/ Over(j)')
             /\ api'[c].step = 3 => Over(j)' \/ (api'[c].seen[j].status = "RUNNING" /\ j \in api'[c].active)
  <2>1. api'[c] = api[c]  BY <1>3
  <2>2. j \in Jobs  BY <1>3, <2>1 DEF TypeOK, Request
  <2>3. /\ api[c].step = 2 => row[j].status # "PENDING" /\ (api[c].seen[j].status = "RUNNING" \/ Over(j))
        /\ api[c].step = 3 => Over(j) \/ (api[c].seen[j].status = "RUNNING" /\ j \in api[c].active)
    BY <1>3, <2>1 DEF RestartInv
  <2>q. QED BY <2>1, <2>2, <2>3
<1>q. QED BY <1>1, <1>2, <1>3 DEF RestartInv

\* A restart writes only over a job that is not being executed.
LEMMA RestartSpares ==
  ASSUME PlainRestarts, TypeOK, ClaimInv, OpsInv, RestartInv
  PROVE  Undisturbed
<1> SUFFICES ASSUME NEW c \in Callers, NEW w \in Workers, Write(c), Executing(w)
             PROVE  row'[ctx[w].job].status = row[ctx[w].job].status
  BY DEF Undisturbed
<1>1. PICK j \in Jobs : j = ctx[w].job  BY DEF TypeOK, Context
<1>2. api[c].op \in {"restart", "collection"}  BY WriterWrites DEF PlainRestarts
<1>3. api[c].step = 3  BY <1>2, SendPoints DEF Write
<1>4. CASE api[c].op = "collection"  BY <1>1, <1>4, WriteEffect
<1>5. CASE row'[j] = row[j]  BY <1>1, <1>5
<1>6. CASE api[c].op = "restart" /\ row'[j] # row[j]
  <2>1. j \in api[c].targets /\ Stored(j)  BY <1>6, WriteEffect DEF Present
  <2>2. row[j].status = "RUNNING"  BY <1>1, <2>1 DEF ClaimInv
  <2>3. CASE api[c].seen[j].status = "PENDING"  BY <1>1, <2>3, WriteEffect
  <2>4. CASE api[c].seen[j].status # "PENDING"
    <3>1. ~Over(j)  BY <2>2 DEF Over, Ended
    <3>2. api[c].seen[j].status = "RUNNING" /\ j \in api[c].active
      BY <1>3, <1>6, <2>1, <2>4, <3>1 DEF RestartInv
    <3>3. Blocked(c)  BY <1>3, <1>6, <2>1, <3>2 DEF Blocked
    <3>q. QED BY <3>3 DEF Write
  <2>q. QED BY <2>3, <2>4
<1>q. QED BY <1>2, <1>4, <1>5, <1>6

LEMMA RestartStep ==
  ASSUME PlainRestarts, OneAtATime, TypeOK, ClaimInv, OpsInv, RestartInv, [Next]_vars
  PROVE  RestartInv'
<1> USE DEF jobVars, execVars, workerVars, mqVars
<1>job. \A w \in Workers : ctx[w].job \in Jobs /\ ctx[w] \in Context  BY DEF TypeOK, Context
<1>exec. ASSUME UNCHANGED <<row, api>>,
                \A w \in Workers : Executing(w) /\ Stored(ctx[w].job) => Executing(w)' /\ ctx'[w].job = ctx[w].job,
                \A w \in Workers : pc'[w] \in {"loaded", "convert"} =>
                  \/ pc[w] \in {"loaded", "convert"} /\ ctx'[w].row = ctx[w].row
                  \/ ctx'[w].row.status = "RUNNING"
         PROVE  RestartInv'
  <2>1. \A j \in Jobs : row[j].status = "RUNNING" => Stored(j)  BY DEF Stored
  <2>2. \A j \in Jobs : Over(j) => Over(j)'  BY <1>exec DEF Over
  <2>q. QED BY <1>exec, <2>1, <2>2, RestartQuiet
<1>quiet. ASSUME UNCHANGED <<row, pc, ctx, api>> PROVE RestartInv'
  <2>1. \A w \in Workers : Executing(w) => Executing(w)'  BY <1>quiet DEF Executing
  <2>q. QED BY <1>quiet, <1>exec, <2>1
<1>0. CASE UNCHANGED vars  BY <1>0, <1>quiet DEF vars
<1>1. ASSUME NEW j \in Jobs, Receive(j) PROVE RestartInv'
  <2>1. PICK w \in Workers, kind \in {"new", "again"} : ClaimJob(w, j, kind) \/ IgnoreMessage(w, j, kind)
    BY <1>1 DEF Receive
  <2>2. CASE IgnoreMessage(w, j, kind)  BY <2>2, <1>quiet DEF IgnoreMessage
  <2>3. CASE ClaimJob(w, j, kind)
    <3>1. UNCHANGED api  BY <2>3 DEF ClaimJob
    <3>2. /\ row'[j].status = "RUNNING" /\ \A k \in Jobs : k # j => row'[k] = row[k]
          /\ pc[w] = "idle" /\ ctx'[w].job = j
          /\ \A v \in Workers : v # w => pc'[v] = pc[v] /\ ctx'[v] = ctx[v]
      BY <2>3, ClaimEffect
    <3>3. pc'[w] = "claimed"  BY <2>3 DEF ClaimJob, Goto, TypeOK
    <3>4. ~Over(j)  BY <2>3 DEF ClaimJob, Claimable, Over, Ended
    <3>5. \A k \in Jobs : /\ row'[k].status = "PENDING" => row[k].status = "PENDING"
                          /\ Over(k) => Over(k)'
      BY <3>2, <3>4 DEF Over
    <3>6. \A v \in Workers : Executing(v) => Executing(v)' /\ ctx'[v].job = ctx[v].job
      BY <3>2 DEF Executing
    <3>7. Executing(w)'  BY <3>3 DEF Executing
    <3>8. \A v \in Workers : pc'[v] \in {"loaded", "convert"} =>
            pc[v] \in {"loaded", "convert"} /\ ctx'[v].row = ctx[v].row
      BY <3>2, <3>3
    <3>9. \A k \in Jobs : row'[k].status = "RUNNING" =>
            \/ /\ row[k].status = "RUNNING"
               /\ \A v \in Workers : Executing(v) /\ ctx[v].job = k => Executing(v)' /\ ctx'[v].job = k
            \/ \E v \in Workers : Executing(v)' /\ ctx'[v].job = k
      BY <3>2, <3>6, <3>7
    <3>q. QED BY <3>1, <3>5, <3>8, <3>9, RestartQuiet
  <2>q. QED BY <2>1, <2>2, <2>3
<1>2. ASSUME NEW j \in Jobs, RestoreUnacked(j) PROVE RestartInv'  BY <1>2, <1>quiet DEF RestoreUnacked
<1>3. ASSUME NEW j \in Jobs, TwoMinutesPass(j) PROVE RestartInv'  BY <1>3, <1>quiet DEF TwoMinutesPass
<1>end. ASSUME NEW w \in Workers, FailRedelivered(w) \/ FinishJob(w) \/ FailJob(w) PROVE RestartInv'
  <2>1. PICK new \in Row : new.status \in Ended /\ CommitEnd(w, new)  BY <1>end, EndEffect
  <2>2. pc[w] \in {"loaded", "convert"} /\ UNCHANGED api  BY <1>end, EndEffect
  <2>3. PICK j \in Jobs : j = ctx[w].job  BY <2>1, CommitEffect
  <2>4. ctx[w].row.status = "RUNNING"  BY <2>2 DEF RestartInv
  <2>5. /\ \A k \in Jobs : k # j => row'[k] = row[k]
        /\ row'[j].status = new.status
        /\ pc'[w] = "dispatch"
        /\ \A v \in Workers : v # w => pc'[v] = pc[v] /\ ctx'[v] = ctx[v]
    BY <2>1, <2>3, <2>4, CommitEffect DEF Ended
  <2>6. \A k \in Jobs : /\ row'[k].status = "PENDING" => row[k].status = "PENDING"
                        /\ Over(k) => Over(k)'
    BY <2>1, <2>5 DEF Over, Ended
  <2>7. \A k \in Jobs : row'[k].status = "RUNNING" =>
          /\ row[k].status = "RUNNING"
          /\ \A v \in Workers : Executing(v) /\ ctx[v].job = k => Executing(v)' /\ ctx'[v].job = k
    BY <2>1, <2>3, <2>5 DEF Ended, Executing
  <2>8. \A v \in Workers : pc'[v] \in {"loaded", "convert"} =>
          pc[v] \in {"loaded", "convert"} /\ ctx'[v].row = ctx[v].row
    BY <2>5
  <2>q. QED BY <2>2, <2>6, <2>7, <2>8, RestartQuiet
<1>4. ASSUME NEW w \in Workers, Execute(w) PROVE RestartInv'
  <2>1. CASE LoadJob(w)
    <3>1. row[ctx[w].job].status = "RUNNING"
      BY <2>1 DEF LoadJob, ClaimInv, Executing
    <3>2. ctx'[w].row = row[ctx[w].job] /\ ctx'[w].job = ctx[w].job /\ pc'[w] = "loaded"
      BY <1>job, <2>1 DEF LoadJob, Goto, TypeOK, Context
    <3>3. \A v \in Workers : v # w => pc'[v] = pc[v] /\ ctx'[v] = ctx[v]
      BY <2>1 DEF LoadJob, Goto, TypeOK
    <3>4. UNCHANGED <<row, api>>  BY <2>1 DEF LoadJob
    <3>5. \A v \in Workers : Executing(v) => Executing(v)' /\ ctx'[v].job = ctx[v].job
      BY <3>2, <3>3 DEF Executing
    <3>q. QED BY <3>1, <3>2, <3>3, <3>4, <3>5, <1>exec
  <2>2. CASE Abandon(w)
    <3>1. /\ ~Stored(ctx[w].job) /\ UNCHANGED <<row, api>>
          /\ pc'[w] = "idle" /\ \A v \in Workers : v # w => pc'[v] = pc[v] /\ ctx'[v] = ctx[v]
      BY <2>2 DEF Abandon, Ack, Goto, TypeOK
    <3>2. \A v \in Workers : Executing(v) /\ Stored(ctx[v].job) => Executing(v)' /\ ctx'[v].job = ctx[v].job
      BY <3>1 DEF Executing
    <3>q. QED BY <3>1, <3>2, <1>exec
  <2>3. CASE FailRedelivered(w) \/ FinishJob(w)  BY <2>3, <1>end
  <2>4. CASE StartConversion(w)
    <3>1. /\ pc[w] = "loaded" /\ pc'[w] = "convert" /\ UNCHANGED <<ctx, api>>
          /\ \A v \in Workers : v # w => pc'[v] = pc[v]
      BY <2>4 DEF StartConversion, Goto, TypeOK
    <3>2. \A k \in Jobs : row'[k].status = row[k].status  BY <2>4, StartEffect
    <3>3. \A v \in Workers : Executing(v) => Executing(v)'  BY <3>1 DEF Executing
    <3>4. \A k \in Jobs : Over(k) => Over(k)'  BY <3>2 DEF Over
    <3>q. QED BY <3>1, <3>2, <3>3, <3>4, RestartQuiet
  <2>5. CASE DispatchEvent(w)
    <3>1. /\ pc[w] = "dispatch" /\ UNCHANGED <<row, api>>
          /\ pc'[w] = "idle" /\ \A v \in Workers : v # w => pc'[v] = pc[v] /\ ctx'[v] = ctx[v]
      BY <2>5 DEF DispatchEvent, Ack, Goto, TypeOK
    <3>2. \A v \in Workers : Executing(v) => Executing(v)' /\ ctx'[v].job = ctx[v].job
      BY <3>1 DEF Executing
    <3>q. QED BY <3>1, <3>2, <1>exec
  <2>q. QED BY <1>4, <2>1, <2>2, <2>3, <2>4, <2>5 DEF Execute
<1>5. ASSUME NEW w \in Workers, FailJob(w) PROVE RestartInv'  BY <1>5, <1>end
<1>6. ASSUME NEW w \in Workers, ChildDies(w) \/ HardLimit(w) PROVE RestartInv'
  BY <1>6 DEF ChildDies, HardLimit, Fault, PlainRestarts
<1>7. ASSUME NEW w \in Workers, WorkerDies(w) PROVE RestartInv'
  BY <1>7 DEF WorkerDies, Fault, PlainRestarts, Steady, ClaimInv, AllUp
<1>8. CASE LockExpires  BY <1>8, <1>quiet DEF LockExpires
<1>9. ASSUME NEW w \in Workers, Recover(w) PROVE RestartInv'
  BY <1>9 DEF Recover, Boot, ScanRunning, Requeue, SendNext, BecomeReady, ClaimInv, AllUp
<1>api. ASSUME UNCHANGED <<pc, ctx>>, NEW c \in Callers, NEW r, api' = [api EXCEPT ![c] = r],
               r.op # "restart" \/ r.step \notin {2, 3}, api[c].step \in 1..4,
               \A j \in Jobs : row'[j].status \in {row[j].status, "PENDING", "GONE"}
        PROVE  RestartInv'
  <2>1. \A d \in Callers : d # c => api'[d] = api[d] /\ api[d].step \notin 1..4
    BY <1>api DEF OneAtATime, TypeOK
  <2>2. api'[c] = r  BY <1>api DEF TypeOK
  <2>3. \A d \in Callers : api'[d].op # "restart" \/ api'[d].step \notin {2, 3}
    BY <1>api, <2>1, <2>2
  <2>4. \A j \in Jobs : row'[j].status = "RUNNING" => row[j].status = "RUNNING"  BY <1>api
  <2>5. \A w \in Workers : Executing(w) => Executing(w)'  BY <1>api DEF Executing
  <2>q. QED BY <1>api, <2>3, <2>4, <2>5 DEF RestartInv
<1>answered. Answered.step \notin {2, 3}  BY DEF Answered, NoRequest
<1>answer. ASSUME UNCHANGED <<pc, ctx>>, NEW c \in Callers, Answer(c), Step(c) # "none",
                  \A j \in Jobs : row'[j].status \in {row[j].status, "PENDING", "GONE"}
           PROVE  RestartInv'
  <2>1. api' = [api EXCEPT ![c] = Answered]  BY <1>answer DEF Answer
  <2>2. api[c].step \in 1..4  BY <1>answer, StepType
  <2> HIDE DEF Answered
  <2>q. QED BY <1>answer, <1>answered, <1>api, <2>1, <2>2
<1>10. ASSUME NEW c \in Callers, ReceiveRequest(c) PROVE RestartInv'
  <2>1. PICK op \in Requests : \E js \in IF op = "pending" THEN {{}} ELSE {{j} : j \in Jobs} :
          api' = [api EXCEPT ![c] = [NoRequest EXCEPT !.step = 1, !.op = op, !.targets = js]]
    BY <1>10 DEF ReceiveRequest
  <2>2. PICK js : api' = [api EXCEPT ![c] = [NoRequest EXCEPT !.step = 1, !.op = op, !.targets = js]]
    BY <2>1
  <2> DEFINE r == [NoRequest EXCEPT !.step = 1, !.op = op, !.targets = js]
  <2>3. r.step = 1  BY DEF NoRequest
  <2>4. UNCHANGED <<row, pc, ctx>>  BY <1>10 DEF ReceiveRequest
  <2>5. api' = [api EXCEPT ![c] = r]  BY <2>2
  <2> HIDE DEF r
  <2>6. \A d \in Callers : api'[d] = api[d] \/ api'[d].step \notin {2, 3}
    BY <2>3, <2>5 DEF TypeOK
  <2>7. \A w \in Workers : Executing(w) => Executing(w)'  BY <2>4 DEF Executing
  <2>8. \A j \in Jobs : Over(j) => Over(j)'  BY <2>4 DEF Over
  <2>q. QED BY <2>4, <2>6, <2>7, <2>8, RestartQuiet
<1>11. ASSUME NEW c \in Callers, RequestDies(c) PROVE RestartInv'
  <2>1. UNCHANGED <<row, pc, ctx>> /\ Answer(c) /\ Step(c) # "none"  BY <1>11 DEF RequestDies
  <2>2. \A j \in Jobs : row'[j].status \in {row[j].status, "PENDING", "GONE"}  BY <2>1
  <2>q. QED BY <2>1, <2>2, <1>answer
<1>12. ASSUME NEW c \in Callers, Serve(c) PROVE RestartInv'
  <2>op. /\ api[c] \in Request /\ api \in [Callers -> Request]
         /\ api[c].step \in 1..4 => api[c].op \in Requests /\ api[c].op # "folder"
    BY DEF TypeOK, OpsInv, PlainRestarts
  <2>adv. /\ Advanced(c).op = api[c].op /\ Advanced(c).step = api[c].step + 1
          /\ Advanced(c).targets = api[c].targets /\ Advanced(c).seen = api[c].seen
    BY <2>op DEF Advanced, Request
  <2>typed. Step(c) # "none" => Advanced(c) \in Request /\ api[c].step \in 1..4  BY StepType
  <2>one. ASSUME Step(c) # "none", api' = [api EXCEPT ![c] = api'[c]]
          PROVE  \A d \in Callers : d # c => api'[d].step \notin {2, 3}
    <3>1. \A d \in Callers : d # c => api'[d] = api[d]  BY <2>one, <2>op
    <3>2. \A d \in Callers : d # c => api[d].step \notin 1..4
      BY <2>one, <2>typed DEF OneAtATime
    <3>q. QED BY <3>1, <3>2
  <2>runs. UNCHANGED <<row, pc, ctx>> =>
             /\ \A j \in Jobs : row'[j].status = "RUNNING" => \E w \in Workers : Executing(w)' /\ ctx'[w].job = j
             /\ \A w \in Workers : pc'[w] \in {"loaded", "convert"} => ctx'[w].row.status = "RUNNING"
    BY DEF RestartInv, Executing
  <2>1. CASE Inspect(c)
    <3>0. Step(c) = "inspect" /\ UNCHANGED <<row, pc, ctx>>  BY <2>1 DEF Inspect
    <3>1. api' = [api EXCEPT ![c] = [Advanced(c) EXCEPT !.active = {j \in Jobs : Executors(j) # {}}]]
      BY <2>1 DEF Inspect, Fault, PlainRestarts
    <3> DEFINE r == [Advanced(c) EXCEPT !.active = {j \in Jobs : Executors(j) # {}}]
    <3>2. /\ r.op = api[c].op /\ r.step = api[c].step + 1 /\ r.targets = api[c].targets
          /\ r.seen = api[c].seen /\ r.active = {j \in Jobs : Executors(j) # {}}
      BY <3>0, <2>adv, <2>typed DEF Request
    <3> HIDE DEF r
    <3>3. api'[c] = r /\ api' = [api EXCEPT ![c] = api'[c]]  BY <2>op, <3>1 DEF r
    <3>4. api[c].op = "restart" => api[c].step = 2  BY <3>0 DEF Step, Program
    <3>5. ASSUME api[c].op = "restart", NEW j \in api[c].targets, api[c].seen[j].status # "PENDING"
          PROVE  Over(j) \/ (api[c].seen[j].status = "RUNNING" /\ j \in r.active)
      <4>1. j \in Jobs  BY <3>5, <2>op DEF Request
      <4>2. row[j] \in Row /\ api[c].seen[j] \in Row  BY <4>1, <2>op DEF TypeOK, Request
      <4>3. row[j].status # "PENDING" /\ (api[c].seen[j].status = "RUNNING" \/ Over(j))
        BY <3>4, <3>5 DEF RestartInv
      <4>4. CASE row[j].status = "RUNNING"
        <5>1. PICK w \in Workers : Executing(w) /\ ctx[w].job = j  BY <4>1, <4>4 DEF RestartInv
        <5>2. Executors(j) # {}  BY <5>1 DEF Executors, Executing
        <5>3. ~Over(j)  BY <4>4 DEF Over, Ended
        <5>q. QED BY <3>2, <4>1, <4>3, <5>2, <5>3
      <4>5. CASE row[j].status # "RUNNING"
        BY <4>2, <4>3, <4>5 DEF Row, Statuses, Over, Ended
      <4>q. QED BY <4>4, <4>5
    <3>6. \A j : Over(j)' = Over(j)  BY <3>0 DEF Over
    <3>q. QED BY <2>one, <2>runs, <3>0, <3>2, <3>3, <3>4, <3>5, <3>6 DEF RestartInv
  <2>2. CASE ReadRow(c)
    <3> DEFINE js == IF api[c].op = "pending" THEN Excess(Cardinality(api[c].active)) ELSE Advanced(c).targets
               r == [Advanced(c) EXCEPT !.seen = row, !.targets = js]
    <3>0. Step(c) = "read" /\ Present(c) /\ UNCHANGED <<row, pc, ctx>>  BY <2>2 DEF ReadRow
    <3>1. api' = [api EXCEPT ![c] = r]  BY <2>2 DEF ReadRow
    <3>2. r.op = api[c].op /\ r.step = api[c].step + 1 /\ r.seen = row
      <4> HIDE DEF js
      <4>q. QED BY <3>0, <2>adv, <2>typed DEF Request
    <3>3. api[c].op = "restart" => r.targets = api[c].targets /\ api[c].step = 1
      <4>1. api[c].op = "restart" => js = api[c].targets  BY <2>adv
      <4>2. r.targets = js
        <5> HIDE DEF js
        <5>q. QED BY <3>0, <2>typed DEF Request
      <4>3. api[c].op = "restart" => api[c].step = 1  BY <3>0 DEF Step, Program
      <4> HIDE DEF js, r
      <4>q. QED BY <4>1, <4>2, <4>3
    <3> HIDE DEF r
    <3>4. api'[c] = r /\ api' = [api EXCEPT ![c] = api'[c]]  BY <2>op, <3>1
    <3>5. ASSUME api[c].op = "restart", NEW j \in api[c].targets, row[j].status # "PENDING"
          PROVE  row[j].status = "RUNNING" \/ Over(j)
      <4>1. j \in Jobs /\ row[j] \in Row  BY <3>5, <2>op DEF TypeOK, Request
      <4>2. row[j].status # "GONE"  BY <3>0, <3>5 DEF Present, Stored
      <4>q. QED BY <3>5, <4>1, <4>2 DEF Row, Statuses, Over, Ended
    <3>6. \A j : Over(j)' = Over(j)  BY <3>0 DEF Over
    <3>q. QED BY <2>one, <2>runs, <3>0, <3>2, <3>3, <3>4, <3>5, <3>6 DEF RestartInv
  <2>3. CASE Refuse(c)
    <3>1. UNCHANGED <<row, pc, ctx>> /\ Answer(c)  BY <2>3 DEF Refuse
    <3>0. Step(c) # "none"
      <4>1. CASE Blocked(c)  BY <4>1 DEF Blocked, Step, Program
      <4>q. QED BY <2>3, <4>1 DEF Refuse
    <3>2. \A j \in Jobs : row'[j].status \in {row[j].status, "PENDING", "GONE"}  BY <3>1
    <3>q. QED BY <3>0, <3>1, <3>2, <1>answer
  <2>4. CASE Write(c)
    <3>1. UNCHANGED <<pc, ctx>> /\ api[c].op \in {"restart", "collection"}
      BY <2>4, WriterWrites DEF Write, PlainRestarts
    <3>2. Step(c) = "write" /\ api[c].step = 3  BY <2>4, <3>1, SendPoints DEF Write
    <3>3. \A j \in Jobs : row'[j].status \in {row[j].status, "PENDING", "GONE"}
      BY <2>4, WriteEffect
    <3>4. Advanced(c).step = 4  BY <2>adv, <3>2
    <3>5. Onward(c).step \notin {2, 3}  BY <1>answered, <3>4 DEF Onward
    <3>6. CASE Present(c)
      <4>1. api' = [api EXCEPT ![c] = Onward(c)]  BY <2>4, <3>6 DEF Write
      <4>2. api[c].step \in 1..4  BY <3>2
      <4>3. Onward(c).op # "restart" \/ Onward(c).step \notin {2, 3}  BY <3>5
      <4>q. QED BY <3>1, <3>3, <4>1, <4>2, <4>3, <1>api
    <3>7. CASE ~Present(c)
      <4>1. Answer(c)  BY <2>4, <3>7 DEF Write
      <4>q. QED BY <3>1, <3>2, <3>3, <4>1, <1>answer
    <3>q. QED BY <3>6, <3>7
  <2>5. CASE SendMessages(c)
    <3>1. /\ Step(c) = "send" /\ UNCHANGED <<row, pc, ctx>>
          /\ api' = [api EXCEPT ![c] = Onward(c)]
      BY <2>5 DEF SendMessages
    <3>2. Onward(c).op # "restart" \/ Onward(c).step \notin {2, 3}
      <4>1. api[c].op = "restart" => api[c].step = 4
        BY <2>op, <2>typed, <3>1, SendPoints
      <4>q. QED BY <1>answered, <2>adv, <4>1 DEF Onward
    <3>3. \A j \in Jobs : row'[j].status \in {row[j].status, "PENDING", "GONE"}  BY <3>1
    <3>4. UNCHANGED <<pc, ctx>> /\ api[c].step \in 1..4  BY <2>typed, <3>1
    <3>q. QED BY <3>1, <3>2, <3>3, <3>4, <1>api
  <2>6. CASE SaveMarkdown(c) \/ DeleteJob(c)
    <3>1. UNCHANGED <<pc, ctx>> /\ Answer(c) /\ Step(c) # "none"
      BY <2>6 DEF SaveMarkdown, DeleteJob
    <3>2. \A j \in Jobs : row'[j].status \in {row[j].status, "PENDING", "GONE"}
      BY <2>6, SaveEffect, DeleteEffect
    <3>q. QED BY <3>1, <3>2, <1>answer
  <2>q. QED BY <1>12, <2>1, <2>2, <2>3, <2>4, <2>5, <2>6 DEF Serve
<1>q. QED BY <1>0, <1>1, <1>2, <1>3, <1>4, <1>5, <1>6, <1>7, <1>8, <1>9, <1>10, <1>11, <1>12 DEF Next

LEMMA RestartInit == ASSUME Init PROVE RestartInv
BY DEF Init, RestartInv, NewRow, NoRequest, Executing

\* The claim stays exclusive when jobs are restarted, by any number of requests
\* that do not overlap: a restart refuses a job that an execution has, and one
\* that ended while it asked the workers is not started by anybody else before
\* it is written.
THEOREM RestartIsExclusive ==
  ASSUME PlainRestarts
  PROVE  Spec /\ []OneAtATime => []OneExecutor
<1>1. Init => ClaimInv /\ OpsInv /\ RestartInv
  BY ClaimInit, RestartInit DEF PlainRestarts, Init, OpsInv, NoRequest
<1>2. OneAtATime /\ TypeOK /\ ClaimInv /\ OpsInv /\ RestartInv /\ [Next]_vars =>
        ClaimInv' /\ OpsInv' /\ RestartInv'
  <2> SUFFICES ASSUME OneAtATime, TypeOK, ClaimInv, OpsInv, RestartInv, [Next]_vars
               PROVE  ClaimInv' /\ OpsInv' /\ RestartInv'
    OBVIOUS
  <2>1. Steady /\ Undisturbed  BY RestartSpares DEF PlainRestarts
  <2>q. QED BY <2>1, ClaimStep, OpsStep, RestartStep
<1>q. QED BY JobTypes, ClaimExcludes, <1>1, <1>2, PTL DEF Spec

-----------------------------------------------------------------------------
(* The end of a job is announced                                           *)

\* No execution is lost between the commit of an end and its announcement.
NoneKilled == Faults \cap {"child", "killed", "worker"} = {}

EndInv == AllUp /\ EndAnnounced

\* A step that ends no job, resets no announcement and stops no execution that
\* is about to make one.
LEMMA EndQuiet ==
  ASSUME TypeOK, EndInv, up' = up,
         \A j \in Jobs : row'[j].status \in Ended => row'[j].status = row[j].status,
         \A j \in Jobs : notified[j] \subseteq notified'[j],
         \A w \in Workers : pc[w] = "dispatch" => pc'[w] = pc[w] /\ ctx'[w] = ctx[w]
  PROVE  EndInv'
<1>1. ASSUME NEW j \in Jobs, row'[j].status \in Ended
      PROVE  \/ row'[j].status \in notified'[j]
             \/ \E w \in Workers : /\ pc'[w] # "idle" /\ ctx'[w].job = j
                                   /\ pc'[w] = "dispatch" /\ ctx'[w].event = row'[j].status
  <2>1. row'[j].status = row[j].status  BY <1>1
  <2>2. CASE row[j].status \in notified[j]  BY <2>1, <2>2
  <2>3. CASE row[j].status \notin notified[j]
    <3>1. PICK w \in Executors(j) : pc[w] = "dispatch" /\ ctx[w].event = row[j].status
      BY <1>1, <2>1, <2>3 DEF EndInv, EndAnnounced
    <3>2. w \in Workers /\ ctx[w].job = j  BY <3>1 DEF Executors
    <3>q. QED BY <2>1, <3>1, <3>2
  <2>q. QED BY <2>2, <2>3
<1>q. QED BY <1>1 DEF EndInv, AllUp, EndAnnounced, Executors

\* The execution that commits an end announces it; if it finds the row ended
\* as it would end it, the row keeps an end that is announced already.
LEMMA EndCommit ==
  ASSUME TypeOK, EndInv, NEW w \in Workers, FailRedelivered(w) \/ FinishJob(w) \/ FailJob(w)
  PROVE  EndInv'
<1>1. PICK new \in Row : new.status \in Ended /\ CommitEnd(w, new)  BY EndEffect
<1>2. pc[w] \in {"loaded", "convert"} /\ UNCHANGED <<notified, up>>
  BY EndEffect DEF workerVars
<1>3. PICK j \in Jobs : j = ctx[w].job  BY <1>1, CommitEffect
<1>4. /\ \A k \in Jobs : k # j => row'[k] = row[k]
      /\ row'[j].status = row[j].status \/ row'[j].status = new.status
      /\ pc'[w] = "dispatch" /\ ctx'[w].job = j /\ ctx'[w].event = new.status
      /\ \A v \in Workers : v # w => pc'[v] = pc[v] /\ ctx'[v] = ctx[v]
  BY <1>1, <1>3, CommitEffect
<1>5. ASSUME NEW k \in Jobs, row'[k].status \in Ended, row'[k].status = row[k].status
      PROVE  \/ row'[k].status \in notified'[k]
             \/ \E v \in Executors(k)' : pc'[v] = "dispatch" /\ ctx'[v].event = row'[k].status
  <2>1. CASE row[k].status \in notified[k]  BY <1>2, <1>5, <2>1
  <2>2. CASE row[k].status \notin notified[k]
    <3>1. PICK v \in Executors(k) : pc[v] = "dispatch" /\ ctx[v].event = row[k].status
      BY <1>5, <2>2 DEF EndInv, EndAnnounced
    <3>2. v # w /\ v \in Workers /\ ctx[v].job = k  BY <1>2, <3>1 DEF Executors
    <3>q. QED BY <1>4, <1>5, <3>1, <3>2 DEF Executors
  <2>q. QED BY <2>1, <2>2
<1>6. CASE row'[j].status = new.status
  <2>1. w \in Executors(j)'  BY <1>4 DEF Executors
  <2>q. QED BY <1>2, <1>4, <1>5, <1>6, <2>1 DEF EndInv, AllUp, EndAnnounced
<1>7. CASE row'[j].status = row[j].status
  BY <1>2, <1>4, <1>5, <1>7 DEF EndInv, AllUp, EndAnnounced
<1>q. QED BY <1>4, <1>6, <1>7

LEMMA EndDispatch ==
  ASSUME TypeOK, EndInv, NEW w \in Workers, DispatchEvent(w)
  PROVE  EndInv'
<1>0. ctx[w].job \in Jobs  BY DEF TypeOK, Context
<1>1. UNCHANGED <<row, up>>  BY DEF DispatchEvent, workerVars
<1>2. \A v \in Workers : v # w => pc'[v] = pc[v] /\ ctx'[v] = ctx[v]
  BY DEF DispatchEvent, Ack, Goto, TypeOK
<1>3. \A k \in Jobs : notified[k] \subseteq notified'[k]
  BY <1>0 DEF DispatchEvent, TypeOK
<1>4. ctx[w].event \in notified'[ctx[w].job]
  BY <1>0 DEF DispatchEvent, Announced, TypeOK
<1>5. ASSUME NEW k \in Jobs, row'[k].status \in Ended
      PROVE  \/ row'[k].status \in notified'[k]
             \/ \E v \in Executors(k)' : pc'[v] = "dispatch" /\ ctx'[v].event = row'[k].status
  <2>1. CASE row[k].status \in notified[k]  BY <1>1, <1>3, <2>1
  <2>2. CASE row[k].status \notin notified[k]
    <3>1. PICK v \in Executors(k) : pc[v] = "dispatch" /\ ctx[v].event = row[k].status
      BY <1>1, <1>5, <2>2 DEF EndInv, EndAnnounced
    <3>2. v \in Workers /\ ctx[v].job = k  BY <3>1 DEF Executors
    <3>3. CASE v = w  BY <1>1, <1>4, <3>1, <3>2, <3>3
    <3>4. CASE v # w  BY <1>1, <1>2, <3>1, <3>2, <3>4 DEF Executors
    <3>q. QED BY <3>3, <3>4
  <2>q. QED BY <2>1, <2>2
<1>q. QED BY <1>1, <1>5 DEF EndInv, AllUp, EndAnnounced

LEMMA EndStep == ASSUME NoneKilled, TypeOK, EndInv, [Next]_vars PROVE EndInv'
<1> USE DEF jobVars, execVars, workerVars, mqVars
<1>quiet. ASSUME UNCHANGED <<row, notified, execVars, up>> PROVE EndInv'
  BY <1>quiet, EndQuiet
<1>0. CASE UNCHANGED vars  BY <1>0, <1>quiet DEF vars
<1>1. ASSUME NEW j \in Jobs, Receive(j) PROVE EndInv'
  <2>1. PICK w \in Workers, kind \in {"new", "again"} : ClaimJob(w, j, kind) \/ IgnoreMessage(w, j, kind)
    BY <1>1 DEF Receive
  <2>2. CASE IgnoreMessage(w, j, kind)  BY <2>2, <1>quiet DEF IgnoreMessage
  <2>3. CASE ClaimJob(w, j, kind)
    <3>1. UNCHANGED up  BY <2>3 DEF ClaimJob
    <3>2. row'[j].status \notin Ended  BY <2>3, ClaimEffect DEF Ended
    <3>3. ASSUME NEW k \in Jobs, row'[k].status \in Ended
          PROVE  \/ row'[k].status \in notified'[k]
                 \/ \E v \in Executors(k)' : pc'[v] = "dispatch" /\ ctx'[v].event = row'[k].status
      <4>1. row'[k] = row[k] /\ notified'[k] = notified[k]  BY <2>3, <3>2, <3>3, ClaimEffect
      <4>2. CASE row[k].status \in notified[k]  BY <4>1, <4>2
      <4>3. CASE row[k].status \notin notified[k]
        <5>1. PICK v \in Executors(k) : pc[v] = "dispatch" /\ ctx[v].event = row[k].status
          BY <3>3, <4>1, <4>3 DEF EndInv, EndAnnounced
        <5>2. pc'[v] = pc[v] /\ ctx'[v] = ctx[v]  BY <2>3, <5>1, ClaimEffect DEF Executors
        <5>q. QED BY <4>1, <5>1, <5>2 DEF Executors
      <4>q. QED BY <4>2, <4>3
    <3>q. QED BY <3>1, <3>3 DEF EndInv, AllUp, EndAnnounced
  <2>q. QED BY <2>1, <2>2, <2>3
<1>2. ASSUME NEW j \in Jobs, RestoreUnacked(j) PROVE EndInv'  BY <1>2, <1>quiet DEF RestoreUnacked
<1>3. ASSUME NEW j \in Jobs, TwoMinutesPass(j) PROVE EndInv'  BY <1>3, <1>quiet DEF TwoMinutesPass
<1>4. ASSUME NEW w \in Workers, Execute(w) PROVE EndInv'
  <2>1. CASE LoadJob(w)
    <3>1. \A v \in Workers : pc[v] = "dispatch" => pc'[v] = pc[v] /\ ctx'[v] = ctx[v]
      BY <2>1 DEF LoadJob, Goto, TypeOK
    <3>q. QED BY <2>1, <3>1, EndQuiet DEF LoadJob
  <2>2. CASE Abandon(w)
    <3>1. \A v \in Workers : pc[v] = "dispatch" => pc'[v] = pc[v] /\ ctx'[v] = ctx[v]
      BY <2>2 DEF Abandon, Ack, Goto, TypeOK
    <3>q. QED BY <2>2, <3>1, EndQuiet DEF Abandon
  <2>3. CASE FailRedelivered(w) \/ FinishJob(w)  BY <2>3, EndCommit
  <2>4. CASE StartConversion(w)
    <3>1. \A v \in Workers : pc[v] = "dispatch" => pc'[v] = pc[v] /\ ctx'[v] = ctx[v]
      BY <2>4 DEF StartConversion, Goto, TypeOK
    <3>2. UNCHANGED <<notified, up>>  BY <2>4 DEF StartConversion
    <3>q. QED BY <2>4, <3>1, <3>2, StartEffect, EndQuiet
  <2>5. CASE DispatchEvent(w)  BY <2>5, EndDispatch
  <2>q. QED BY <1>4, <2>1, <2>2, <2>3, <2>4, <2>5 DEF Execute
<1>5. ASSUME NEW w \in Workers, FailJob(w) PROVE EndInv'  BY <1>5, EndCommit
<1>6. ASSUME NEW w \in Workers, ChildDies(w) \/ HardLimit(w) PROVE EndInv'
  BY <1>6 DEF ChildDies, HardLimit, Fault, NoneKilled
<1>7. ASSUME NEW w \in Workers, WorkerDies(w) PROVE EndInv'
  BY <1>7 DEF WorkerDies, Fault, NoneKilled, EndInv, AllUp
<1>8. CASE LockExpires  BY <1>8, <1>quiet DEF LockExpires
<1>9. ASSUME NEW w \in Workers, Recover(w) PROVE EndInv'
  BY <1>9 DEF Recover, Boot, ScanRunning, Requeue, SendNext, BecomeReady, EndInv, AllUp
<1>10. ASSUME NEW c \in Callers, ReceiveRequest(c) PROVE EndInv'  BY <1>10, <1>quiet DEF ReceiveRequest
<1>11. ASSUME NEW c \in Callers, Serve(c) PROVE EndInv'
  <2>1. CASE Inspect(c) \/ ReadRow(c) \/ Refuse(c) \/ SendMessages(c)
    BY <2>1, <1>quiet DEF Inspect, ReadRow, Refuse, SendMessages
  <2>2. CASE Write(c)
    <3>1. UNCHANGED <<notified, execVars, up>>  BY <2>2 DEF Write
    <3>2. \A j \in Jobs : row'[j].status \in Ended => row'[j].status = row[j].status
      BY <2>2, WriteEffect DEF Ended
    <3>q. QED BY <3>1, <3>2, EndQuiet
  <2>3. CASE SaveMarkdown(c)
    <3>1. UNCHANGED <<notified, execVars, up>>  BY <2>3 DEF SaveMarkdown
    <3>q. QED BY <2>3, <3>1, SaveEffect, EndQuiet
  <2>4. CASE DeleteJob(c)
    <3>1. UNCHANGED <<notified, execVars, up>>  BY <2>4 DEF DeleteJob
    <3>2. \A j \in Jobs : row'[j].status \in Ended => row'[j].status = row[j].status
      BY <2>4, DeleteEffect DEF Ended
    <3>q. QED BY <3>1, <3>2, EndQuiet
  <2>q. QED BY <1>11, <2>1, <2>2, <2>3, <2>4 DEF Serve
<1>12. ASSUME NEW c \in Callers, RequestDies(c) PROVE EndInv'  BY <1>12, <1>quiet DEF RequestDies
<1>q. QED BY <1>0, <1>1, <1>2, <1>3, <1>4, <1>5, <1>6, <1>7, <1>8, <1>9, <1>10, <1>11, <1>12 DEF Next

LEMMA EndInit == ASSUME NoneKilled, Init PROVE EndInv
<1>1. \A w \in Workers : up[w] = "up"  BY DEF Init, NoneKilled
<1>2. \A j \in Jobs : row[j].status = "PENDING"  BY DEF Init, NewRow
<1>q. QED BY <1>1, <1>2 DEF EndInv, AllUp, EndAnnounced, Ended

\* Every end of a job is announced to the webhooks, as the end it has, by the
\* execution that committed it: whatever requests, retries, late failures and
\* conversions that outlive their claim come together, as long as no execution
\* is killed between its commit and its dispatch.
THEOREM EndsAreAnnounced == ASSUME NoneKilled PROVE Spec => []EndAnnounced
<1>1. Init => EndInv  BY EndInit
<1>2. TypeOK /\ EndInv /\ [Next]_vars => EndInv'  BY EndStep
<1>3. EndInv => EndAnnounced  BY DEF EndInv
<1>q. QED BY JobTypes, <1>1, <1>2, <1>3, PTL DEF Spec

-----------------------------------------------------------------------------
(* A finished job has its result                                           *)

\* Only a restart drops a result, and it does so by what it read.
NoRestarts == Requests \cap {"restart", "folder"} = {}

\* One request in all, and no recovery: the request finds a PENDING job as it
\* was uploaded.
OneRequest == "worker" \notin Faults /\ \A c, d \in Callers : c = d

Restarting(c) == api[c].step \in 1..4 /\ api[c].op \in {"restart", "folder"}

\* Until the request has written, a PENDING job has no result and was never
\* claimed, and the request saw no such job with a result.
FreshInv ==
  /\ AllUp
  /\ \A j \in Jobs : row[j].status = "PENDING" /\ (row[j].result \/ Executors(j) # {}) =>
       \E c \in Callers : Past(c)
  /\ \A c \in Callers, j \in Jobs : api[c].seen[j].status = "PENDING" => ~api[c].seen[j].result

ResultInv ==
  /\ FinishedHasResult
  /\ OneRequest => FreshInv
  /\ NoRestarts => \A c \in Callers : ~Restarting(c)

LEMMA ProgramPoints ==
  ASSUME TypeOK, NEW c \in Callers
  PROVE  /\ Step(c) = "read" => ~Past(c)
         /\ Step(c) = "write" => ~Past(c)
         /\ Step(c) = "write" /\ Present(c) => Onward(c).step = 5 \/ (Onward(c).step = 4 /\ Onward(c).op # "folder")
<1>1. api[c] \in Request /\ api[c].op \in RequestKinds  BY DEF TypeOK, Request
<1>2. api[c].op \in {"restart", "folder", "collection", "pending", "save", "delete"}
  BY <1>1 DEF RequestKinds
<1>3. Advanced(c).step = api[c].step + 1 /\ Advanced(c).op = api[c].op
  BY <1>1 DEF Advanced, Request
<1>4. Answered.step = 5  BY DEF Answered, NoRequest
<1>5. CASE api[c].op = "restart"     BY <1>3, <1>4, <1>5 DEF Step, Program, Past, Onward
<1>6. CASE api[c].op = "folder"      BY <1>3, <1>4, <1>6 DEF Step, Program, Past, Onward
<1>7. CASE api[c].op = "collection"  BY <1>3, <1>4, <1>7 DEF Step, Program, Past, Onward
<1>8. CASE api[c].op = "pending"     BY <1>3, <1>4, <1>8 DEF Step, Program, Past, Onward
<1>9. CASE api[c].op = "save"        BY <1>3, <1>4, <1>9 DEF Step, Program, Past, Onward
<1>10. CASE api[c].op = "delete"     BY <1>3, <1>4, <1>10 DEF Step, Program, Past, Onward
<1>q. QED BY <1>2, <1>5, <1>6, <1>7, <1>8, <1>9, <1>10

LEMMA FreshQuiet ==
  ASSUME TypeOK, FreshInv, up' = up,
         \A j \in Jobs : row'[j].status = "PENDING" =>
           /\ row[j].status = "PENDING"
           /\ row'[j].result => row[j].result \/ Executors(j) # {}
           /\ Executors(j)' # {} => Executors(j) # {},
         \A c \in Callers : Past(c) => Past(c)',
         \A c \in Callers, j \in Jobs :
           api'[c].seen[j].status = "PENDING" => api'[c].seen = api[c].seen \/ ~api'[c].seen[j].result
  PROVE  FreshInv'
<1>1. \A j \in Jobs : row'[j].status = "PENDING" /\ (row'[j].result \/ Executors(j)' # {}) =>
        \E c \in Callers : Past(c)'
  BY DEF FreshInv
<1>2. ASSUME NEW c \in Callers, NEW j \in Jobs, api'[c].seen[j].status = "PENDING"
      PROVE  ~api'[c].seen[j].result
  BY <1>2 DEF FreshInv
<1>3. AllUp'  BY DEF FreshInv, AllUp
<1>q. QED BY <1>1, <1>2, <1>3 DEF FreshInv

\* A step of an execution leaves a PENDING row PENDING at most, and gives it a
\* result only if it was claimed before.
LEMMA FreshExecution ==
  ASSUME TypeOK, FreshInv, UNCHANGED <<up, api>>,
         \A j \in Jobs : row'[j].status = "PENDING" =>
           /\ row[j].status = "PENDING"
           /\ row'[j].result => row[j].result \/ Executors(j) # {}
           /\ Executors(j)' # {} => Executors(j) # {}
  PROVE  FreshInv'
<1>1. \A c \in Callers : Past(c) => Past(c)'  BY DEF Past
<1>q. QED BY <1>1, FreshQuiet

LEMMA FreshStep == ASSUME OneRequest, TypeOK, FreshInv, [Next]_vars PROVE FreshInv'
<1> USE DEF jobVars, execVars, workerVars, mqVars
<1>quiet. ASSUME UNCHANGED <<row, execVars, up, api>> PROVE FreshInv'
  BY <1>quiet, FreshExecution DEF Executors
<1>ack. ASSUME NEW w \in Workers, Ack(w), UNCHANGED <<row, up, api>> PROVE FreshInv'
  <2>1. \A v \in Workers : pc'[v] # "idle" => pc[v] # "idle" /\ ctx'[v] = ctx[v]
    BY <1>ack DEF Ack, Goto, TypeOK
  <2>2. \A j \in Jobs : Executors(j)' # {} => Executors(j) # {}  BY <2>1 DEF Executors
  <2>q. QED BY <1>ack, <2>2, FreshExecution
<1>api. ASSUME UNCHANGED <<row, execVars, up>>, NEW c \in Callers,
               ReceiveRequest(c) \/ Serve(c) \/ RequestDies(c)
        PROVE  FreshInv'
  <2>1. \A d \in Callers : Past(d) => Past(d)'  BY <1>api, RequestMoves
  <2>2. ASSUME NEW d \in Callers, NEW j \in Jobs, api'[d].seen[j].status = "PENDING"
        PROVE  api'[d].seen = api[d].seen \/ ~api'[d].seen[j].result
    <3>1. CASE api'[d].seen = api[d].seen  BY <3>1
    <3>2. CASE \A k \in Jobs : api'[d].seen[k] = NewRow  BY <3>2 DEF NewRow
    <3>3. CASE ReadRow(d) /\ api'[d].seen = row
      <4>1. ~Past(d)  BY <3>3, ProgramPoints DEF ReadRow
      <4>2. \A e \in Callers : ~Past(e)  BY <4>1 DEF OneRequest
      <4>q. QED BY <2>2, <3>3, <4>2 DEF FreshInv
    <3>q. QED BY <1>api, <3>1, <3>2, <3>3, RequestMoves
  <2>3. \A j \in Jobs : Executors(j)' = Executors(j)  BY <1>api DEF Executors
  <2>q. QED BY <1>api, <2>1, <2>2, <2>3, FreshQuiet
<1>0. CASE UNCHANGED vars  BY <1>0, <1>quiet DEF vars
<1>1. ASSUME NEW j \in Jobs, Receive(j) PROVE FreshInv'
  <2>1. PICK w \in Workers, kind \in {"new", "again"} : ClaimJob(w, j, kind) \/ IgnoreMessage(w, j, kind)
    BY <1>1 DEF Receive
  <2>2. CASE IgnoreMessage(w, j, kind)  BY <2>2, <1>quiet DEF IgnoreMessage
  <2>3. CASE ClaimJob(w, j, kind)
    <3>1. UNCHANGED <<up, api>>  BY <2>3 DEF ClaimJob
    <3>2. ASSUME NEW k \in Jobs, row'[k].status = "PENDING"
          PROVE  row'[k] = row[k] /\ (Executors(k)' # {} => Executors(k) # {})
      <4>1. k # j  BY <2>3, <3>2, ClaimEffect
      <4>2. row'[k] = row[k]  BY <2>3, <4>1, ClaimEffect
      <4>3. Executors(k)' \subseteq Executors(k)  BY <2>3, <4>1, ClaimEffect DEF Executors
      <4>q. QED BY <4>2, <4>3
    <3>q. QED BY <3>1, <3>2, FreshExecution
  <2>q. QED BY <2>1, <2>2, <2>3
<1>2. ASSUME NEW j \in Jobs, RestoreUnacked(j) PROVE FreshInv'  BY <1>2, <1>quiet DEF RestoreUnacked
<1>3. ASSUME NEW j \in Jobs, TwoMinutesPass(j) PROVE FreshInv'  BY <1>3, <1>quiet DEF TwoMinutesPass
<1>end. ASSUME NEW w \in Workers, FailRedelivered(w) \/ FinishJob(w) \/ FailJob(w) PROVE FreshInv'
  <2>1. PICK new \in Row : /\ new.status \in Ended /\ CommitEnd(w, new)
                           /\ new.status = "FAILED" => new.result = ctx[w].row.result
    BY <1>end, EndEffect
  <2>2. pc[w] # "idle" /\ UNCHANGED <<up, api>>  BY <1>end, EndEffect
  <2>3. PICK j \in Jobs : j = ctx[w].job  BY <2>1, CommitEffect
  <2>4. /\ \A k \in Jobs : k # j => row'[k] = row[k]
        /\ row'[j].status = row[j].status \/ row'[j].status = new.status
        /\ pc'[w] = "dispatch" /\ ctx'[w].job = j
        /\ \A v \in Workers : v # w => pc'[v] = pc[v] /\ ctx'[v] = ctx[v]
    BY <2>1, <2>3, CommitEffect
  <2>5. w \in Executors(j)  BY <2>2, <2>3 DEF Executors
  <2>6. \A k \in Jobs : Executors(k)' # {} => Executors(k) # {}
    BY <2>2, <2>3, <2>4 DEF Executors
  <2>7. \A k \in Jobs : row'[k].status = "PENDING" =>
          row[k].status = "PENDING" /\ (row'[k].result => row[k].result \/ Executors(k) # {})
    BY <2>1, <2>4, <2>5 DEF Ended
  <2>q. QED BY <2>2, <2>6, <2>7, FreshExecution
<1>4. ASSUME NEW w \in Workers, Execute(w) PROVE FreshInv'
  <2>1. CASE LoadJob(w)
    <3>1. \A v \in Workers : pc'[v] # "idle" => pc[v] # "idle" /\ ctx'[v].job = ctx[v].job
      BY <2>1 DEF LoadJob, Goto, TypeOK, Context
    <3>2. \A k \in Jobs : Executors(k)' # {} => Executors(k) # {}  BY <3>1 DEF Executors
    <3>q. QED BY <2>1, <3>2, FreshExecution DEF LoadJob
  <2>2. CASE Abandon(w)  BY <2>2, <1>ack DEF Abandon
  <2>3. CASE FailRedelivered(w) \/ FinishJob(w)  BY <2>3, <1>end
  <2>4. CASE StartConversion(w)
    <3>1. \A v \in Workers : pc'[v] # "idle" => pc[v] # "idle" /\ ctx'[v] = ctx[v]
      BY <2>4 DEF StartConversion, Goto, TypeOK
    <3>2. \A k \in Jobs : Executors(k)' # {} => Executors(k) # {}  BY <3>1 DEF Executors
    <3>3. UNCHANGED <<up, api>>  BY <2>4 DEF StartConversion
    <3>q. QED BY <2>4, <3>2, <3>3, StartEffect, FreshExecution
  <2>5. CASE DispatchEvent(w)  BY <2>5, <1>ack DEF DispatchEvent
  <2>q. QED BY <1>4, <2>1, <2>2, <2>3, <2>4, <2>5 DEF Execute
<1>5. ASSUME NEW w \in Workers, FailJob(w) PROVE FreshInv'  BY <1>5, <1>end
<1>6. ASSUME NEW w \in Workers, ChildDies(w) \/ HardLimit(w) PROVE FreshInv'
  BY <1>6, <1>ack DEF ChildDies, HardLimit
<1>7. ASSUME NEW w \in Workers, WorkerDies(w) PROVE FreshInv'
  BY <1>7 DEF WorkerDies, Fault, OneRequest, FreshInv, AllUp
<1>8. CASE LockExpires  BY <1>8, <1>quiet DEF LockExpires
<1>9. ASSUME NEW w \in Workers, Recover(w) PROVE FreshInv'
  BY <1>9 DEF Recover, Boot, ScanRunning, Requeue, SendNext, BecomeReady, FreshInv, AllUp
<1>10. ASSUME NEW c \in Callers, ReceiveRequest(c) \/ RequestDies(c) PROVE FreshInv'
  BY <1>10, <1>api DEF ReceiveRequest, RequestDies
<1>11. ASSUME NEW c \in Callers, Serve(c) PROVE FreshInv'
  <2>seen. ASSUME ~ReadRow(c), api' = [api EXCEPT ![c] = api'[c]]
           PROVE  \A d \in Callers, k \in Jobs : api'[d].seen[k].status = "PENDING" => ~api'[d].seen[k].result
    <3> SUFFICES ASSUME NEW d \in Callers, NEW k \in Jobs, api'[d].seen[k].status = "PENDING"
                 PROVE  ~api'[d].seen[k].result
      OBVIOUS
    <3>1. CASE api'[d].seen = api[d].seen  BY <3>1 DEF FreshInv
    <3>2. CASE \A i \in Jobs : api'[d].seen[i] = NewRow  BY <3>2 DEF NewRow
    <3>3. CASE ReadRow(d)
      BY <2>seen, <3>3 DEF OneRequest
    <3>q. QED BY <1>11, <3>1, <3>2, <3>3, RequestMoves
  <2>1. CASE Inspect(c) \/ ReadRow(c) \/ Refuse(c) \/ SendMessages(c)
    BY <1>11, <2>1, <1>api DEF Inspect, ReadRow, Refuse, SendMessages
  <2>2. CASE Write(c)
    <3>1. Step(c) = "write" /\ UNCHANGED <<execVars, up>>  BY <2>2 DEF Write
    <3>2. \A d \in Callers : d = c  BY DEF OneRequest
    <3>3. Past(c)'
      <4>1. api'[c] = IF Present(c) THEN Onward(c) ELSE Answered
        BY <2>2 DEF Write, Answer, TypeOK
      <4>2. Answered.step = 5  BY DEF Answered, NoRequest
      <4>q. QED BY <3>1, <4>1, <4>2, ProgramPoints DEF Past
    <3>4. ~ReadRow(c)  BY <3>1 DEF ReadRow
    <3>5. api' = [api EXCEPT ![c] = api'[c]]  BY <2>2 DEF Write, Answer, TypeOK
    <3>q. QED BY <2>seen, <3>1, <3>3, <3>4, <3>5 DEF FreshInv, AllUp
  <2>3. CASE SaveMarkdown(c)
    <3>1. UNCHANGED <<execVars, up>>  BY <2>3 DEF SaveMarkdown
    <3>2. \A d \in Callers : Past(d) => Past(d)'  BY <1>11, RequestMoves
    <3>3. ~ReadRow(c)  BY <2>3 DEF SaveMarkdown, ReadRow
    <3>4. api' = [api EXCEPT ![c] = api'[c]]  BY <2>3 DEF SaveMarkdown, Answer, TypeOK
    <3>5. \A k \in Jobs : row'[k].status = "PENDING" => row'[k] = row[k]  BY <2>3, SaveEffect
    <3>q. QED BY <2>seen, <3>1, <3>2, <3>3, <3>4, <3>5, FreshQuiet DEF Executors
  <2>4. CASE DeleteJob(c)
    <3>1. UNCHANGED <<execVars, up>>  BY <2>4 DEF DeleteJob
    <3>2. \A d \in Callers : Past(d) => Past(d)'  BY <1>11, RequestMoves
    <3>3. ~ReadRow(c)  BY <2>4 DEF DeleteJob, ReadRow
    <3>4. api' = [api EXCEPT ![c] = api'[c]]  BY <2>4 DEF DeleteJob, Answer, TypeOK
    <3>5. \A k \in Jobs : row'[k].status = "PENDING" => row'[k] = row[k]  BY <2>4, DeleteEffect
    <3>q. QED BY <2>seen, <3>1, <3>2, <3>3, <3>4, <3>5, FreshQuiet DEF Executors
  <2>q. QED BY <1>11, <2>1, <2>2, <2>3, <2>4 DEF Serve
<1>q. QED BY <1>0, <1>1, <1>2, <1>3, <1>4, <1>5, <1>6, <1>7, <1>8, <1>9, <1>10, <1>11 DEF Next

\* No row becomes FINISHED without its result, and none that is FINISHED loses
\* it.
LEMMA FinishedStep ==
  ASSUME NoRestarts \/ OneRequest, TypeOK, ResultInv, [Next]_vars
  PROVE  FinishedHasResult'
<1> USE DEF jobVars, execVars, workerVars, mqVars
<1>rows. ASSUME \A j \in Jobs : row'[j].status = "FINISHED" =>
                  row'[j].result \/ (row[j].status = "FINISHED" /\ row'[j].result = row[j].result)
         PROVE  FinishedHasResult'
  BY <1>rows DEF ResultInv, FinishedHasResult
<1>quiet. ASSUME UNCHANGED row PROVE FinishedHasResult'  BY <1>quiet, <1>rows
<1>0. CASE UNCHANGED vars  BY <1>0, <1>quiet DEF vars
<1>1. ASSUME NEW j \in Jobs, Receive(j) PROVE FinishedHasResult'
  <2>1. PICK w \in Workers, kind \in {"new", "again"} : ClaimJob(w, j, kind) \/ IgnoreMessage(w, j, kind)
    BY <1>1 DEF Receive
  <2>2. CASE IgnoreMessage(w, j, kind)  BY <2>2, <1>quiet DEF IgnoreMessage
  <2>3. CASE ClaimJob(w, j, kind)
    <3>1. row'[j].status = "RUNNING" /\ \A k \in Jobs : k # j => row'[k] = row[k]
      BY <2>3, ClaimEffect
    <3>q. QED BY <3>1, <1>rows
  <2>q. QED BY <2>1, <2>2, <2>3
<1>2. ASSUME NEW j \in Jobs, RestoreUnacked(j) \/ TwoMinutesPass(j) PROVE FinishedHasResult'
  BY <1>2, <1>quiet DEF RestoreUnacked, TwoMinutesPass
<1>end. ASSUME NEW w \in Workers, FailRedelivered(w) \/ FinishJob(w) \/ FailJob(w)
        PROVE  FinishedHasResult'
  <2>1. PICK new \in Row : /\ new.status \in Ended /\ CommitEnd(w, new)
                           /\ new.status = "FINISHED" => new.result
                           /\ new.status = "FAILED" => new.result = ctx[w].row.result
    BY <1>end, EndEffect
  <2>2. PICK j \in Jobs : j = ctx[w].job  BY <2>1, CommitEffect
  <2>3. /\ \A k \in Jobs : k # j => row'[k] = row[k]
        /\ row'[j].status = IF new.status = ctx[w].row.status THEN row[j].status ELSE new.status
        /\ new.status = "FINISHED" => row'[j].result = new.result
        /\ new.status = "FAILED" => row'[j].result = row[j].result
    BY <2>1, <2>2, CommitEffect
  <2>4. CASE new.status = "FINISHED"  BY <2>1, <2>3, <2>4, <1>rows
  <2>5. CASE new.status = "FAILED"    BY <2>3, <2>5, <1>rows
  <2>q. QED BY <2>1, <2>4, <2>5 DEF Ended
<1>3. ASSUME NEW w \in Workers, Execute(w) PROVE FinishedHasResult'
  <2>1. CASE LoadJob(w) \/ Abandon(w) \/ DispatchEvent(w)
    BY <2>1, <1>quiet DEF LoadJob, Abandon, DispatchEvent
  <2>2. CASE FailRedelivered(w) \/ FinishJob(w)  BY <2>2, <1>end
  <2>3. CASE StartConversion(w)  BY <2>3, StartEffect, <1>rows
  <2>q. QED BY <1>3, <2>1, <2>2, <2>3 DEF Execute
<1>4. ASSUME NEW w \in Workers, FailJob(w) PROVE FinishedHasResult'  BY <1>4, <1>end
<1>5. ASSUME NEW w \in Workers, ChildDies(w) \/ HardLimit(w) \/ WorkerDies(w) PROVE FinishedHasResult'
  BY <1>5, <1>quiet DEF ChildDies, HardLimit, WorkerDies
<1>6. CASE LockExpires  BY <1>6, <1>quiet DEF LockExpires
<1>7. ASSUME NEW w \in Workers, Recover(w) PROVE FinishedHasResult'
  <2>1. CASE Boot(w) \/ ScanRunning(w) \/ SendNext(w) \/ BecomeReady(w)
    BY <2>1, <1>quiet DEF Boot, ScanRunning, SendNext, BecomeReady
  <2>2. CASE Requeue(w)
    <3>1. ASSUME NEW j \in Jobs, row'[j].status = "FINISHED" PROVE row'[j] = row[j]
      <4>1. [row[j] EXCEPT !.status = "PENDING"].status = "PENDING"  BY DEF TypeOK, Row
      <4>2. \/ row'[j] = IF j \in hook[w] THEN [row[j] EXCEPT !.status = "PENDING"] ELSE row[j]
            \/ row'[j] = row[j]
        BY <2>2 DEF Requeue
      <4>q. QED BY <3>1, <4>1, <4>2
    <3>q. QED BY <3>1, <1>rows
  <2>q. QED BY <1>7, <2>1, <2>2 DEF Recover
<1>8. ASSUME NEW c \in Callers, ReceiveRequest(c) \/ RequestDies(c) PROVE FinishedHasResult'
  BY <1>8, <1>quiet DEF ReceiveRequest, RequestDies
<1>9. ASSUME NEW c \in Callers, Serve(c) PROVE FinishedHasResult'
  <2>1. CASE Inspect(c) \/ ReadRow(c) \/ Refuse(c) \/ SendMessages(c)
    BY <2>1, <1>quiet DEF Inspect, ReadRow, Refuse, SendMessages
  <2>2. CASE Write(c)
    <3>1. ASSUME NEW j \in Jobs, row'[j].status = "FINISHED"
          PROVE  row[j].status = "FINISHED" /\ row'[j].result = row[j].result
      <4>1. row[j].status = "FINISHED"  BY <2>2, <3>1, WriteEffect
      <4>2. CASE OneRequest
        <5>1. api[c].seen[j].status = "PENDING" => ~api[c].seen[j].result
          BY <4>2 DEF ResultInv, FreshInv
        <5>q. QED BY <2>2, <3>1, <4>1, <5>1, WriteEffect
      <4>3. CASE NoRestarts
        <5>1. Step(c) = "write"  BY <2>2 DEF Write
        <5>2. api[c].op \in {"restart", "folder", "pending", "collection"} /\ api[c].step \in 1..4
          BY <5>1, StepType
        <5>3. api[c].op \in {"pending", "collection"}
          BY <4>3, <5>2 DEF ResultInv, Restarting
        <5>q. QED BY <2>2, <4>1, <5>3, WriteEffect
      <4>q. QED BY <4>2, <4>3
    <3>q. QED BY <3>1, <1>rows
  <2>3. CASE SaveMarkdown(c)  BY <2>3, SaveEffect, <1>rows
  <2>4. CASE DeleteJob(c)
    <3>1. \A j \in Jobs : row'[j].status = "FINISHED" => row'[j] = row[j]  BY <2>4, DeleteEffect
    <3>q. QED BY <3>1, <1>rows
  <2>q. QED BY <1>9, <2>1, <2>2, <2>3, <2>4 DEF Serve
<1>q. QED BY <1>0, <1>1, <1>2, <1>3, <1>4, <1>5, <1>6, <1>7, <1>8, <1>9 DEF Next

LEMMA ResultStep ==
  ASSUME NoRestarts \/ OneRequest, TypeOK, ResultInv, [Next]_vars
  PROVE  ResultInv'
<1>1. OneRequest => FreshInv'  BY FreshStep DEF ResultInv
<1>2. ASSUME NoRestarts, NEW d \in Callers PROVE ~Restarting(d)'
  <2>1. ~Restarting(d)  BY <1>2 DEF ResultInv
  <2>2. CASE api' = api  BY <2>1, <2>2 DEF Restarting
  <2>3. ASSUME NEW c \in Callers, ReceiveRequest(c) \/ Serve(c) \/ RequestDies(c) PROVE ~Restarting(d)'
    BY <1>2, <2>1, <2>3, RequestMoves DEF NoRestarts, Restarting
  <2>q. QED BY <2>2, <2>3, ApiSteps
<1>3. OneRequest' <=> OneRequest  BY DEF OneRequest
<1>4. NoRestarts' <=> NoRestarts  BY DEF NoRestarts
<1>q. QED BY <1>1, <1>2, <1>3, <1>4, FinishedStep DEF ResultInv

LEMMA ResultInit == ASSUME Init PROVE ResultInv
<1>1. \A j \in Jobs : row[j].status = "PENDING" /\ ~row[j].result /\ Executors(j) = {}
  BY DEF Init, NewRow, Executors
<1>2. \A c \in Callers : api[c].step = 0 /\ \A j \in Jobs : ~api[c].seen[j].result
  BY DEF Init, NoRequest, NewRow
<1>3. OneRequest => AllUp  BY DEF Init, OneRequest, AllUp
<1>q. QED BY <1>1, <1>2, <1>3 DEF ResultInv, FinishedHasResult, FreshInv, Restarting

\* A FINISHED job has its markdown, whatever executions, late failures, saves,
\* deletions and faults come together, as long as nobody restarts jobs, or the
\* one request is a restart and no worker recovers.  (Two restarts of one job
\* can drop the result of the run between their writes.)
THEOREM FinishedIsReadable ==
  ASSUME NoRestarts \/ OneRequest
  PROVE  Spec => []FinishedHasResult
<1>1. Init => ResultInv  BY ResultInit
<1>2. TypeOK /\ ResultInv /\ [Next]_vars => ResultInv'  BY ResultStep
<1>3. ResultInv => FinishedHasResult  BY DEF ResultInv
<1>q. QED BY JobTypes, <1>1, <1>2, <1>3, PTL DEF Spec

\* The end of a job is complete, its result and its announcement, for any
\* number of jobs, workers and messages and one request of any kind; with any
\* number of requests if none restarts jobs.
THEOREM EndsAreComplete ==
  ASSUME NoneKilled, NoRestarts \/ OneRequest
  PROVE  Spec => []EndIsComplete
<1>1. EndAnnounced /\ FinishedHasResult => EndIsComplete  BY DEF EndIsComplete
<1>q. QED BY EndsAreAnnounced, FinishedIsReadable, <1>1, PTL

-----------------------------------------------------------------------------
(* A PENDING job has its message                                           *)

\* Every request gets as far as its send, the hook as well, and no folder
\* restart sends before it writes.
SendsReliable ==
  /\ FirstSends > 0
  /\ Faults \cap {"request", "hook"} = {} /\ "folder" \notin Requests

\* Somebody has, or is about to send, a message for j.
Covered(j) ==
  \/ queue[j].new + queue[j].again + unacked[j] > 0
  \/ \E w \in Workers : up[w] = "send" /\ j \in hook[w]
  \/ \E c \in Callers : Step(c) = "send" /\ (api[c].op = "pending" \/ j \in api[c].targets)

\* A job of a collection nobody has started: it was never sent, and no start
\* of the collection is past its messages.
Untouched(j) ==
  /\ j \in Collected /\ ~row[j].chosen /\ Executors(j) = {}
  /\ \A c \in Callers : api[c].op = "collection" /\ api[c].step = 3 => j \notin api[c].targets

SentInv ==
  /\ \A j \in Jobs : row[j].status = "PENDING" => Covered(j) \/ Untouched(j)
  /\ \A c \in Callers : api[c].op # "folder"

\* A step that makes no job PENDING, takes no message and starts nothing.
LEMMA SentQuiet ==
  ASSUME TypeOK, SentInv,
         \A j \in Jobs : row'[j].status = "PENDING" =>
           /\ row[j].status = "PENDING"
           /\ Covered(j) => Covered(j)'
           /\ Untouched(j) => Covered(j)' \/ Untouched(j)',
         \A c \in Callers : api'[c].op # "folder"
  PROVE  SentInv'
BY DEF SentInv

\* A step of an execution, which takes no message.
LEMMA SentExecution ==
  ASSUME TypeOK, SentInv, UNCHANGED <<mqVars, up, hook, api>>,
         \A w \in Workers : pc'[w] # "idle" => pc[w] # "idle" /\ ctx'[w].job = ctx[w].job,
         \A j \in Jobs : row'[j].status = "PENDING" =>
           row[j].status = "PENDING" /\ (row'[j] = row[j] \/ Executors(j) # {})
  PROVE  SentInv'
<1>1. \A j \in Jobs : Covered(j) => Covered(j)'  BY DEF Covered, Step, mqVars
<1>2. \A j \in Jobs : Executors(j) = {} => Executors(j)' = {}  BY DEF Executors
<1>3. \A j \in Jobs : row'[j].status = "PENDING" /\ Untouched(j) => Untouched(j)'
  BY <1>2 DEF Untouched
<1>4. \A c \in Callers : api'[c].op # "folder"  BY DEF SentInv
<1>q. QED BY <1>1, <1>3, <1>4, SentQuiet

\* A message that goes back to the queue still covers its job.
LEMMA SentAgain ==
  ASSUME TypeOK, SentInv, UNCHANGED <<row, api>>,
         \A w \in Workers : pc'[w] # "idle" => pc[w] # "idle" /\ ctx'[w].job = ctx[w].job,
         \A w \in Workers : up[w] = "send" => up'[w] = "send" /\ hook'[w] = hook[w],
         \A j \in Jobs : queue[j].new + queue[j].again + unacked[j] > 0 =>
                           queue'[j].new + queue'[j].again + unacked'[j] > 0
  PROVE  SentInv'
<1>1. \A j \in Jobs : Covered(j) => Covered(j)'  BY DEF Covered, Step
<1>2. \A j \in Jobs : Executors(j) = {} => Executors(j)' = {}  BY DEF Executors
<1>3. \A j \in Jobs : Untouched(j) => Untouched(j)'  BY <1>2 DEF Untouched
<1>4. \A c \in Callers : api'[c].op # "folder"  BY DEF SentInv
<1>q. QED BY <1>1, <1>3, <1>4, SentQuiet

\* What becomes of the executions: an Ack ends one.
LEMMA AckEnds ==
  ASSUME TypeOK, NEW w \in Workers, Ack(w)
  PROVE  \A v \in Workers : pc'[v] # "idle" => pc[v] # "idle" /\ ctx'[v].job = ctx[v].job
BY DEF Ack, Goto, TypeOK

\* A request moves on, or is answered, without a write or a send.
LEMMA SentRequest ==
  ASSUME TypeOK, SentInv, UNCHANGED <<execVars, mqVars, up, hook>>,
         NEW c \in Callers, NEW r, api' = [api EXCEPT ![c] = r],
         r.op # "folder", ~(r.op = "collection" /\ r.step = 3), Step(c) # "send",
         \A j \in Jobs : row'[j].status = "PENDING" => row'[j] = row[j]
  PROVE  SentInv'
<1>1. \A d \in Callers : d # c => api'[d] = api[d] /\ Step(d)' = Step(d)
  BY DEF TypeOK, Step
<1>2. api'[c] = r  BY DEF TypeOK
<1>3. \A j \in Jobs : Covered(j) => Covered(j)'  BY <1>1 DEF Covered, mqVars
<1>4. \A j \in Jobs : Executors(j)' = Executors(j)  BY DEF Executors, execVars
<1>5. \A j \in Jobs : row'[j] = row[j] /\ Untouched(j) => Untouched(j)'
  BY <1>1, <1>2, <1>4 DEF Untouched
<1>6. \A d \in Callers : api'[d].op # "folder"  BY <1>1, <1>2 DEF SentInv
<1>q. QED BY <1>3, <1>5, <1>6, SentQuiet

\* The write of a restart comes before its send, which covers what it made
\* PENDING; that of a collection changes no status and comes after.
LEMMA SentWrite ==
  ASSUME TypeOK, SentInv, NEW c \in Callers, Write(c), Present(c)
  PROVE  SentInv'
<1>1. Step(c) = "write" /\ api' = [api EXCEPT ![c] = Onward(c)]
      /\ UNCHANGED <<execVars, mqVars, up, hook>>
  BY DEF Write, workerVars
<1>2. api[c].op \in {"restart", "pending", "collection"} /\ api[c].step = 3
  BY <1>1, SendPoints DEF SentInv
<1>3. \A d \in Callers : d # c => api'[d] = api[d] /\ Step(d)' = Step(d)
  BY <1>1 DEF TypeOK, Step
<1>4. \A j \in Jobs : Covered(j) => Covered(j)'  BY <1>1, <1>3 DEF Covered, mqVars
<1>5. \A j \in Jobs : Executors(j)' = Executors(j)  BY <1>1 DEF Executors, execVars
<1>6. api[c] \in Request  BY DEF TypeOK
<1>7. CASE api[c].op = "collection"
  <2>1. Onward(c) = Answered  BY <1>2, <1>7 DEF Onward, Program
  <2>2. api'[c] = Answered  BY <1>1, <2>1 DEF TypeOK
  <2>3. Answered.op = "restart"  BY DEF Answered, NoRequest
  <2>4. ASSUME NEW j \in Jobs, row'[j].status = "PENDING"
        PROVE  row[j].status = "PENDING" /\ (Untouched(j) => Untouched(j)')
    <3>1. row'[j].status = row[j].status  BY <1>7, WriteEffect
    <3>2. Untouched(j) => j \notin api[c].targets  BY <1>2, <1>7 DEF Untouched
    <3>3. Untouched(j) => row'[j] = row[j]  BY <3>2, WriteEffect
    <3>q. QED BY <1>3, <1>5, <2>2, <2>3, <2>4, <3>1, <3>3 DEF Untouched
  <2>5. \A d \in Callers : api'[d].op # "folder"  BY <1>3, <2>2, <2>3 DEF SentInv
  <2>q. QED BY <1>4, <2>4, <2>5, SentQuiet
<1>8. CASE api[c].op \in {"restart", "pending"}
  <2>1. Onward(c) = Advanced(c)
    <3>1. CASE api[c].op = "restart"  BY <1>2, <3>1 DEF Onward, Program
    <3>2. CASE api[c].op = "pending"  BY <1>2, <3>2 DEF Onward, Program
    <3>q. QED BY <1>8, <3>1, <3>2
  <2>2. api'[c] = Advanced(c)  BY <1>1, <2>1 DEF TypeOK
  <2>3. api'[c].op = api[c].op /\ api'[c].step = 4 /\ api'[c].targets = api[c].targets
    BY <1>2, <1>6, <2>2 DEF Advanced, Request
  <2>4. Step(c)' = "send"
    <3>1. CASE api[c].op = "restart"  BY <2>3, <3>1 DEF Step, Program
    <3>2. CASE api[c].op = "pending"  BY <2>3, <3>2 DEF Step, Program
    <3>q. QED BY <1>8, <3>1, <3>2
  <2>5. \A j \in Jobs : row'[j] # row[j] => Covered(j)'
    BY <2>3, <2>4, WriteEffect DEF Covered
  <2>6. \A j \in Jobs : row'[j] = row[j] /\ Untouched(j) => Untouched(j)'
    BY <1>3, <1>5, <1>8, <2>3 DEF Untouched
  <2>7. \A d \in Callers : api'[d].op # "folder"  BY <1>3, <2>3 DEF SentInv
  <2>q. QED BY <1>4, <2>5, <2>6, <2>7 DEF SentInv
<1>q. QED BY <1>2, <1>7, <1>8

\* The messages of a request are queued: what it covered is covered by them.
LEMMA SentSend ==
  ASSUME TypeOK, SentInv, NEW c \in Callers, SendMessages(c)
  PROVE  SentInv'
<1>1. /\ Step(c) = "send" /\ api' = [api EXCEPT ![c] = Onward(c)] /\ Send(Recipients(c))
      /\ UNCHANGED <<row, execVars, unacked, up, hook>>
  BY DEF SendMessages, jobVars, workerVars
<1>2. /\ api[c].op \in {"restart", "pending", "collection"}
      /\ api[c].op # "collection" => api[c].step = 4
      /\ api[c].op = "collection" => api[c].step = 2
  BY <1>1, SendPoints DEF SentInv
<1>3. \A d \in Callers : d # c => api'[d] = api[d] /\ Step(d)' = Step(d)
  BY <1>1 DEF TypeOK, Step
<1>4. api[c] \in Request  BY DEF TypeOK
<1>5. /\ api'[c].op # "folder"
      /\ api'[c].op = "collection" => api[c].op = "collection" /\ api'[c].targets = api[c].targets
  <2>1. api'[c] = Onward(c)  BY <1>1 DEF TypeOK
  <2>2. Answered.op = "restart"  BY DEF Answered, NoRequest
  <2>3. Advanced(c).op = api[c].op /\ Advanced(c).targets = api[c].targets
    BY <1>4 DEF Advanced, Request
  <2>q. QED BY <1>2, <2>1, <2>2, <2>3 DEF Onward
<1>6. \A j \in Jobs : j \in Recipients(c) => queue'[j].new = queue[j].new + 1 /\ queue'[j].again = queue[j].again
  BY <1>1 DEF Send, TypeOK
<1>7. \A j \in Jobs : j \notin Recipients(c) => queue'[j] = queue[j]  BY <1>1 DEF Send
<1>8. \A j \in Jobs : queue[j].new \in Nat /\ queue[j].again \in Nat /\ unacked[j] \in Nat
  BY DEF TypeOK
<1>9. \A j \in Jobs : j \in Recipients(c) => Covered(j)'  BY <1>1, <1>6, <1>8 DEF Covered
<1>10. ASSUME NEW j \in Jobs, row[j].status = "PENDING", j \notin Recipients(c), Covered(j)
       PROVE  Covered(j)'
  <2>1. ~(api[c].op = "pending" \/ j \in api[c].targets)  BY <1>10 DEF Recipients
  <2>q. QED BY <1>1, <1>3, <1>7, <1>10, <2>1 DEF Covered
<1>11. \A j \in Jobs : Executors(j)' = Executors(j)  BY <1>1 DEF Executors, execVars
<1>12. ASSUME NEW j \in Jobs, j \notin Recipients(c), Untouched(j)
       PROVE  Untouched(j)'
  <2>1. api[c].op = "collection" => j \notin api[c].targets  BY <1>12 DEF Recipients
  <2>q. QED BY <1>1, <1>3, <1>5, <1>11, <1>12, <2>1 DEF Untouched
<1>13. \A d \in Callers : api'[d].op # "folder"  BY <1>3, <1>5 DEF SentInv
<1>q. QED BY <1>1, <1>9, <1>10, <1>12, <1>13, SentQuiet

LEMMA SentStep == ASSUME SendsReliable, TypeOK, SentInv, [Next]_vars PROVE SentInv'
<1> USE DEF jobVars, execVars, workerVars, mqVars
<1>nat. \A j \in Jobs : /\ queue[j] \in [new : Nat, again : Nat] /\ unacked[j] \in Nat
                        /\ queue[j].new \in Nat /\ queue[j].again \in Nat
  BY DEF TypeOK
<1>quiet. ASSUME UNCHANGED <<row, api, execVars, mqVars, up, hook>> PROVE SentInv'
  BY <1>quiet, SentExecution
<1>0. CASE UNCHANGED vars  BY <1>0, <1>quiet DEF vars
<1>1. ASSUME NEW j \in Jobs, Receive(j) PROVE SentInv'
  <2>1. PICK w \in Workers, kind \in {"new", "again"} : ClaimJob(w, j, kind) \/ IgnoreMessage(w, j, kind)
    BY <1>1 DEF Receive
  <2>2. TakeMessage(w, j, kind) /\ UNCHANGED <<up, hook, unacked, api>>
    BY <2>1 DEF ClaimJob, IgnoreMessage
  <2>3. \A k \in Jobs : k # j => queue'[k] = queue[k]  BY <2>2 DEF TakeMessage, TypeOK
  <2>4. ASSUME NEW k \in Jobs, k # j, Covered(k) PROVE Covered(k)'
    BY <2>2, <2>3, <2>4 DEF Covered, Step
  <2>5. \A d \in Callers : api'[d].op # "folder"  BY <2>2 DEF SentInv
  <2>6. CASE IgnoreMessage(w, j, kind)
    <3>1. UNCHANGED <<row, pc, ctx>>  BY <2>6 DEF IgnoreMessage
    <3>2. row[j].status # "PENDING"  BY <2>6 DEF IgnoreMessage, Claimable
    <3>3. \A k \in Jobs : Untouched(k) => Untouched(k)'  BY <2>2, <3>1 DEF Untouched, Executors
    <3>q. QED BY <2>4, <2>5, <3>1, <3>2, <3>3, SentQuiet
  <2>7. CASE ClaimJob(w, j, kind)
    <3>1. row'[j].status = "RUNNING" /\ \A k \in Jobs : k # j => row'[k] = row[k]
      BY <2>7, ClaimEffect
    <3>2. \A k \in Jobs : k # j => Executors(k)' = Executors(k)
      BY <2>7, ClaimEffect DEF Executors
    <3>3. \A k \in Jobs : k # j /\ Untouched(k) => Untouched(k)'
      BY <2>2, <3>1, <3>2 DEF Untouched
    <3>q. QED BY <2>4, <2>5, <3>1, <3>3, SentQuiet
  <2>q. QED BY <2>1, <2>6, <2>7
<1>2. ASSUME NEW j \in Jobs, RestoreUnacked(j) PROVE SentInv'
  <2>1. /\ unacked' = [unacked EXCEPT ![j] = @ - 1] /\ unacked[j] > 0
        /\ queue' = [queue EXCEPT ![j].again = @ + 1]
        /\ UNCHANGED <<row, api, pc, ctx, up, hook>>
    BY <1>2 DEF RestoreUnacked
  <2>2. \A k \in Jobs : k # j => queue'[k] = queue[k] /\ unacked'[k] = unacked[k]  BY <2>1 DEF TypeOK
  <2>3. queue'[j].new + queue'[j].again + unacked'[j] > 0
    <3>1. queue'[j].new = queue[j].new /\ queue'[j].again = queue[j].again + 1  BY <1>nat, <2>1 DEF TypeOK
    <3>2. unacked'[j] = unacked[j] - 1  BY <2>1 DEF TypeOK
    <3>q. QED BY <1>nat, <2>1, <3>1, <3>2
  <2>q. QED BY <2>1, <2>2, <2>3, SentAgain
<1>3. ASSUME NEW j \in Jobs, TwoMinutesPass(j) PROVE SentInv'  BY <1>3, <1>quiet DEF TwoMinutesPass
<1>end. ASSUME NEW w \in Workers, FailRedelivered(w) \/ FinishJob(w) \/ FailJob(w) PROVE SentInv'
  <2>1. PICK new \in Row : new.status \in Ended /\ CommitEnd(w, new)  BY <1>end, EndEffect
  <2>2. pc[w] # "idle" /\ UNCHANGED <<mqVars, up, hook, api>>  BY <1>end, EndEffect
  <2>3. PICK j \in Jobs : j = ctx[w].job  BY <2>1, CommitEffect
  <2>4. /\ \A k \in Jobs : k # j => row'[k] = row[k]
        /\ row'[j].status = row[j].status \/ row'[j].status = new.status
        /\ ctx'[w].job = j
        /\ \A v \in Workers : v # w => pc'[v] = pc[v] /\ ctx'[v] = ctx[v]
    BY <2>1, <2>3, CommitEffect
  <2>5. w \in Executors(j)  BY <2>2, <2>3 DEF Executors
  <2>6. \A v \in Workers : pc'[v] # "idle" => pc[v] # "idle" /\ ctx'[v].job = ctx[v].job
    BY <2>2, <2>3, <2>4
  <2>7. \A k \in Jobs : row'[k].status = "PENDING" =>
          row[k].status = "PENDING" /\ (row'[k] = row[k] \/ Executors(k) # {})
    BY <2>1, <2>4, <2>5 DEF Ended
  <2>q. QED BY <2>2, <2>6, <2>7, SentExecution
<1>4. ASSUME NEW w \in Workers, Execute(w) PROVE SentInv'
  <2>1. CASE LoadJob(w)
    <3>1. \A v \in Workers : pc'[v] # "idle" => pc[v] # "idle" /\ ctx'[v].job = ctx[v].job
      BY <2>1 DEF LoadJob, Goto, TypeOK, Context
    <3>q. QED BY <2>1, <3>1, SentExecution DEF LoadJob
  <2>2. CASE Abandon(w)  BY <2>2, AckEnds, SentExecution DEF Abandon
  <2>3. CASE FailRedelivered(w) \/ FinishJob(w)  BY <2>3, <1>end
  <2>4. CASE StartConversion(w)
    <3>1. \A v \in Workers : pc'[v] # "idle" => pc[v] # "idle" /\ ctx'[v] = ctx[v]
      BY <2>4 DEF StartConversion, Goto, TypeOK
    <3>2. UNCHANGED <<mqVars, up, hook, api>> /\ pc[w] # "idle"  BY <2>4 DEF StartConversion
    <3>3. w \in Executors(ctx[w].job)  BY <3>2 DEF Executors
    <3>q. QED BY <2>4, <3>1, <3>2, <3>3, StartEffect, SentExecution
  <2>5. CASE DispatchEvent(w)  BY <2>5, AckEnds, SentExecution DEF DispatchEvent
  <2>q. QED BY <1>4, <2>1, <2>2, <2>3, <2>4, <2>5 DEF Execute
<1>5. ASSUME NEW w \in Workers, FailJob(w) PROVE SentInv'  BY <1>5, <1>end
<1>6. ASSUME NEW w \in Workers, ChildDies(w) PROVE SentInv'
  <2>1. PICK j \in Jobs : j = ctx[w].job  BY DEF TypeOK, Context
  <2>2. \A k \in Jobs : /\ queue'[k].new = queue[k].new
                        /\ queue'[k].again = queue[k].again + (IF k = j THEN 1 ELSE 0)
    BY <1>6, <1>nat, <2>1 DEF ChildDies, TypeOK
  <2>3. \A k \in Jobs : queue[k].new + queue[k].again + unacked[k] > 0 =>
                          queue'[k].new + queue'[k].again + unacked'[k] > 0
    BY <1>6, <1>nat, <2>2 DEF ChildDies
  <2>q. QED BY <1>6, <2>3, AckEnds, SentAgain DEF ChildDies
<1>7. ASSUME NEW w \in Workers, HardLimit(w) PROVE SentInv'
  BY <1>7, AckEnds, SentExecution DEF HardLimit
<1>8. ASSUME NEW w \in Workers, WorkerDies(w) PROVE SentInv'
  <2>1. up[w] = "up"  BY <1>8 DEF WorkerDies, Fault, SendsReliable
  <2>2. \A v \in Workers : up[v] = "send" => up'[v] = "send" /\ hook'[v] = hook[v]
    BY <1>8, <2>1 DEF WorkerDies, TypeOK
  <2>3. \A k \in Jobs : unacked'[k] = unacked[k] \/ unacked'[k] = unacked[k] + 1
    BY <1>8, <1>nat DEF WorkerDies, TypeOK
  <2>4. \A k \in Jobs : queue[k].new + queue[k].again + unacked[k] > 0 =>
                          queue'[k].new + queue'[k].again + unacked'[k] > 0
    BY <1>8, <1>nat, <2>3 DEF WorkerDies
  <2>q. QED BY <1>8, <2>2, <2>4, AckEnds, SentAgain DEF WorkerDies
<1>9. CASE LockExpires  BY <1>9, <1>quiet DEF LockExpires
<1>10. ASSUME NEW w \in Workers, Recover(w) PROVE SentInv'
  <2>1. CASE Boot(w) \/ ScanRunning(w)
    <3>1. \A v \in Workers : up[v] = "send" => up'[v] = "send" /\ hook'[v] = hook[v]
      BY <2>1 DEF Boot, ScanRunning, TypeOK
    <3>q. QED BY <2>1, <3>1, SentAgain DEF Boot, ScanRunning
  <2>2. CASE Requeue(w)
    <3>1. /\ up[w] = "commit" /\ up' = [up EXCEPT ![w] = "send"]
          /\ UNCHANGED <<pc, ctx, queue, unacked, api>>
      BY <2>2 DEF Requeue
    <3>2. \A v \in Workers : v # w => up'[v] = up[v] /\ hook'[v] = hook[v]
      BY <2>2 DEF Requeue, TypeOK
    <3>3. \A j \in Jobs : Covered(j) => Covered(j)'  BY <3>1, <3>2 DEF Covered, Step, TypeOK
    <3>4. \A j \in Jobs : Executors(j)' = Executors(j)  BY <3>1 DEF Executors
    <3>5. \A j \in Jobs : row'[j] = row[j] /\ Untouched(j) => Untouched(j)'
      BY <3>1, <3>4 DEF Untouched
    <3>6. ASSUME NEW j \in Jobs, row'[j] # row[j] PROVE Covered(j)'
      <4>1. j \in hook[w] /\ hook' = hook  BY <2>2, <3>6 DEF Requeue
      <4>2. up'[w] = "send" /\ j \in hook'[w]  BY <3>1, <4>1 DEF TypeOK
      <4>q. QED BY <4>2 DEF Covered
    <3>7. \A d \in Callers : api'[d].op # "folder"  BY <3>1 DEF SentInv
    <3>q. QED BY <3>3, <3>5, <3>6, <3>7 DEF SentInv
  <2>3. CASE SendNext(w)
    <3>1. PICK j \in hook[w] : Send({j}) /\ hook' = [hook EXCEPT ![w] = @ \ {j}]
      BY <2>3 DEF SendNext, SendRecovered
    <3>2. UNCHANGED <<row, pc, ctx, up, unacked, api>> /\ j \in Jobs  BY <2>3, <3>1 DEF SendNext, TypeOK
    <3>3. queue'[j].new = queue[j].new + 1 /\ queue'[j].again = queue[j].again
      BY <1>nat, <3>1, <3>2 DEF Send, TypeOK
    <3>4. \A k \in Jobs : k # j => queue'[k] = queue[k]  BY <3>1 DEF Send
    <3>5. Covered(j)'  BY <1>nat, <3>2, <3>3 DEF Covered
    <3>6. \A k \in Jobs, v \in Workers : k # j /\ k \in hook[v] => k \in hook'[v]
      BY <3>1 DEF TypeOK
    <3>7. \A k \in Jobs : k # j /\ Covered(k) => Covered(k)'
      BY <3>2, <3>4, <3>6 DEF Covered, Step
    <3>8. \A k \in Jobs : Untouched(k) => Untouched(k)'  BY <3>2 DEF Untouched, Executors
    <3>9. \A d \in Callers : api'[d].op # "folder"  BY <3>2 DEF SentInv
    <3>q. QED BY <3>2, <3>5, <3>7, <3>8, <3>9, SentQuiet
  <2>4. CASE BecomeReady(w)
    <3>1. /\ up[w] = "send" /\ hook[w] = {} /\ up' = [up EXCEPT ![w] = "up"]
          /\ UNCHANGED <<row, pc, ctx, hook, queue, unacked, api>>
      BY <2>4 DEF BecomeReady
    <3>2. \A j \in Jobs : Covered(j) => Covered(j)'  BY <3>1 DEF Covered, Step, TypeOK
    <3>3. \A j \in Jobs : Untouched(j) => Untouched(j)'  BY <3>1 DEF Untouched, Executors
    <3>4. \A d \in Callers : api'[d].op # "folder"  BY <3>1 DEF SentInv
    <3>q. QED BY <3>1, <3>2, <3>3, <3>4, SentQuiet
  <2>q. QED BY <1>10, <2>1, <2>2, <2>3, <2>4 DEF Recover
<1>11. ASSUME NEW c \in Callers, ReceiveRequest(c) PROVE SentInv'
  <2>1. PICK op \in Requests : \E js \in IF op = "pending" THEN {{}} ELSE {{j} : j \in Jobs} :
          api' = [api EXCEPT ![c] = [NoRequest EXCEPT !.step = 1, !.op = op, !.targets = js]]
    BY <1>11 DEF ReceiveRequest
  <2>2. PICK js : api' = [api EXCEPT ![c] = [NoRequest EXCEPT !.step = 1, !.op = op, !.targets = js]]
    BY <2>1
  <2> DEFINE r == [NoRequest EXCEPT !.step = 1, !.op = op, !.targets = js]
  <2>3. r.op # "folder" /\ r.step = 1  BY DEF NoRequest, SendsReliable
  <2>4. api[c].step = 0 /\ UNCHANGED <<row, execVars, mqVars, up, hook>>  BY <1>11 DEF ReceiveRequest
  <2>5. Step(c) # "send"
    <3>1. api[c].op \in RequestKinds  BY DEF TypeOK, Request
    <3>2. Step(c) # "none" => api[c].step \in 1..4  BY StepType
    <3>q. QED BY <2>4, <3>2
  <2>6. api' = [api EXCEPT ![c] = r]  BY <2>2
  <2>7. \A j \in Jobs : row'[j].status = "PENDING" => row'[j] = row[j]  BY <2>4
  <2>8. UNCHANGED <<execVars, mqVars, up, hook>>  BY <2>4
  <2>9. ~(r.op = "collection" /\ r.step = 3)  BY <2>3
  <2> HIDE DEF r
  <2>q. QED BY <2>3, <2>5, <2>6, <2>7, <2>8, <2>9, SentRequest
<1>answer. Answered.op # "folder" /\ Answered.op # "collection"  BY DEF Answered, NoRequest
<1>12. ASSUME NEW c \in Callers, Serve(c) PROVE SentInv'
  <2>op. api[c] \in Request /\ api[c].op # "folder"  BY DEF SentInv, TypeOK
  <2>adv. Advanced(c).op = api[c].op /\ Advanced(c).step = api[c].step + 1
    BY <2>op DEF Advanced, Request
  <2>typed. Step(c) # "none" => Advanced(c) \in Request  BY StepType
  <2>early. Step(c) \in {"read", "inspect"} => ~(api[c].op = "collection" /\ api[c].step + 1 = 3)
    BY <2>op, SendPoints
  <2>1. CASE Inspect(c)
    <3>0. Step(c) = "inspect"  BY <2>1 DEF Inspect
    <3>1. PICK r : api' = [api EXCEPT ![c] = r] /\ r.step = Advanced(c).step /\ r.op = Advanced(c).op
      <4>1. CASE api' = [api EXCEPT ![c] = Advanced(c)]  BY <4>1
      <4>2. CASE api' = [api EXCEPT ![c] = [Advanced(c) EXCEPT !.active = {j \in Jobs : Executors(j) # {}}]]
        <5> DEFINE r == [Advanced(c) EXCEPT !.active = {j \in Jobs : Executors(j) # {}}]
        <5>2. r.step = Advanced(c).step /\ r.op = Advanced(c).op  BY <3>0, <2>typed DEF Request
        <5> HIDE DEF r
        <5>q. QED BY <4>2, <5>2 DEF r
      <4>q. QED BY <2>1, <4>1, <4>2 DEF Inspect
    <3>2. r.op # "folder" /\ ~(r.op = "collection" /\ r.step = 3)
      BY <2>op, <2>adv, <2>early, <3>0, <3>1
    <3>3. UNCHANGED <<row, execVars, mqVars, up, hook>>  BY <2>1 DEF Inspect
    <3>q. QED BY <3>0, <3>1, <3>2, <3>3, SentRequest
  <2>2. CASE ReadRow(c)
    <3> DEFINE js == IF api[c].op = "pending" THEN Excess(Cardinality(api[c].active)) ELSE Advanced(c).targets
               r == [Advanced(c) EXCEPT !.seen = row, !.targets = js]
    <3>0. Step(c) = "read" /\ UNCHANGED <<row, execVars, mqVars, up, hook>>  BY <2>2 DEF ReadRow
    <3>1. api' = [api EXCEPT ![c] = r]  BY <2>2 DEF ReadRow
    <3>2. r.step = Advanced(c).step /\ r.op = Advanced(c).op
      <4> HIDE DEF js
      <4>q. QED BY <3>0, <2>typed DEF Request
    <3> HIDE DEF r
    <3>3. r.op # "folder" /\ ~(r.op = "collection" /\ r.step = 3)
      BY <2>op, <2>adv, <2>early, <3>0, <3>2
    <3>q. QED BY <3>0, <3>1, <3>3, SentRequest
  <2>3. CASE Refuse(c)
    <3>1. Step(c) # "send"
      <4>1. CASE Blocked(c)  BY <2>op, <4>1, SendPoints DEF Blocked
      <4>q. QED BY <2>3, <4>1 DEF Refuse
    <3>q. QED BY <2>3, <3>1, <1>answer, SentRequest DEF Refuse, Answer
  <2>4. CASE Write(c)
    <3>1. CASE Present(c)  BY <2>4, <3>1, SentWrite
    <3>2. CASE ~Present(c)  BY <2>4, <3>2, <1>answer, SentRequest DEF Write, Answer
    <3>q. QED BY <3>1, <3>2
  <2>5. CASE SendMessages(c)  BY <2>5, SentSend
  <2>6. CASE SaveMarkdown(c)
    <3>1. /\ Step(c) = "save" /\ api' = [api EXCEPT ![c] = Answered]
          /\ UNCHANGED <<execVars, mqVars, up, hook>>
      BY <2>6 DEF SaveMarkdown, Answer
    <3>2. \A j \in Jobs : row'[j].status = "PENDING" => row'[j] = row[j]  BY <2>6, SaveEffect
    <3>q. QED BY <3>1, <3>2, <1>answer, SentRequest
  <2>7. CASE DeleteJob(c)
    <3>1. /\ Step(c) = "delete" /\ api' = [api EXCEPT ![c] = Answered]
          /\ UNCHANGED <<execVars, mqVars, up, hook>>
      BY <2>7 DEF DeleteJob, Answer
    <3>2. \A j \in Jobs : row'[j].status = "PENDING" => row'[j] = row[j]  BY <2>7, DeleteEffect
    <3>q. QED BY <3>1, <3>2, <1>answer, SentRequest
  <2>q. QED BY <1>12, <2>1, <2>2, <2>3, <2>4, <2>5, <2>6, <2>7 DEF Serve
<1>13. ASSUME NEW c \in Callers, RequestDies(c) PROVE SentInv'
  BY <1>13 DEF RequestDies, Fault, SendsReliable
<1>q. QED BY <1>0, <1>1, <1>2, <1>3, <1>4, <1>5, <1>6, <1>7, <1>8, <1>9, <1>10, <1>11, <1>12, <1>13 DEF Next

LEMMA SentInit == ASSUME SendsReliable, Init PROVE SentInv
<1>1. ASSUME NEW j \in Jobs, j \notin Collected PROVE Covered(j)
  <2>1. queue[j].new = FirstSends /\ queue[j].again = 0 /\ unacked[j] = 0  BY <1>1 DEF Init
  <2>q. QED BY <2>1, ConstantsAssumption DEF Covered, SendsReliable
<1>2. ASSUME NEW j \in Jobs, j \in Collected PROVE Untouched(j)
  <2>1. row[j] = NewRow /\ Executors(j) = {} /\ \A c \in Callers : api[c] = NoRequest
    BY DEF Init, Executors
  <2>q. QED BY <1>2, <2>1 DEF Untouched, NewRow, NoRequest
<1>3. \A c \in Callers : api[c].op # "folder"  BY DEF Init, NoRequest
<1>q. QED BY <1>1, <1>2, <1>3 DEF SentInv

\* No job waits for a message nobody will send: whatever dies, is redelivered,
\* recovered, restarted or deleted, a started PENDING job has a message or
\* somebody is about to send one, if requests and recoveries get as far as
\* their send and no folder restart sends before it writes.
THEOREM PendingHasMessage == ASSUME SendsReliable PROVE Spec => []PendingIsQueued
<1>1. Init => SentInv  BY SentInit
<1>2. TypeOK /\ SentInv /\ [Next]_vars => SentInv'  BY SentStep
<1>3. TypeOK /\ SentInv => PendingIsQueued
  <2> SUFFICES ASSUME TypeOK, SentInv, NEW j \in Jobs, row[j].status = "PENDING", Started(j)
               PROVE  \/ queue[j].new + queue[j].again + unacked[j] > 0
                      \/ \E w \in Workers : up[w] = "send" /\ j \in hook[w]
                      \/ \E c \in Callers : Step(c) = "send" /\ j \in Recipients(c)
    BY DEF PendingIsQueued
  <2>1. Covered(j)  BY DEF SentInv, Untouched, Started
  <2>2. \A c \in Callers : api[c].op = "pending" \/ j \in api[c].targets => j \in Recipients(c)
    BY DEF Recipients
  <2>q. QED BY <2>1, <2>2 DEF Covered
<1>q. QED BY JobTypes, <1>1, <1>2, <1>3, PTL DEF Spec
=============================================================================
