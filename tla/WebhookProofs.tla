---------------------------- MODULE WebhookProofs ----------------------------
(***************************************************************************)
(* What WebhookDelivery promises for any number of deliveries, workers,    *)
(* attempts and faults.  That the receiver accepts an event once counts    *)
(* the chances: a queued message of a pending delivery is one, and so is   *)
(* an execution whose request may still be made or repeated.  A delivery   *)
(* starts with one; a death after the request adds one; nothing else does. *)
(***************************************************************************)
EXTENDS WebhookDelivery, FiniteSetTheorems, TLAPS

-----------------------------------------------------------------------------
(* The parts of the inductive invariant                                    *)

\* What an execution holds, by where it is.
ContextInv ==
  \A w \in Workers :
    /\ pc[w] \in {"idle", "loaded", "post"} => ctx[w].outcome = "none"
    /\ pc[w] = "resend" => ctx[w].outcome = "error"
    /\ ctx[w].loaded < MaxAttempts
    /\ pc[w] # "idle" => status[Delivery(w)] # "none"

\* A delivery has neither message nor execution before its message is sent.
RowInv ==
  \A d \in Senders :
    /\ status[d] \in {"none", "pending"} => attempts[d] < MaxAttempts
    /\ sender[d] \in {"start", "checked"} => status[d] = "none"
    /\ sender[d] \in {"start", "checked", "send"} => queue[d] = 0 /\ accepted[d] = 0 /\ Executing(d) = {}

Base == TypeOK /\ ContextInv /\ RowInv

\* SentWasAccepted, and what an execution knows of its own request.
SentInv ==
  /\ SentWasAccepted
  /\ \A w \in Workers : ctx[w].outcome = "accepted" => accepted[Delivery(w)] > 0

\* PendingIsQueued without the executions that are about to acknowledge.
QueuedInv ==
  \A d \in Pending :
    \/ queue[d] > 0
    \/ \E w \in Workers : pc[w] \notin {"idle", "return"} /\ Delivery(w) = d
    \/ sender[d] \in {"send", "dead"}

\* The chances that the receiver accepts d once more.
Waiting(d) == IF status[d] = "pending" THEN queue[d] ELSE 0
Trying(d) ==
  {w \in Workers :
     /\ Delivery(w) = d
     /\ \/ pc[w] \in {"loaded", "post"}
        \/ /\ status[d] = "pending" /\ pc[w] \in {"write", "raised", "resend"}
           /\ ctx[w].outcome # "accepted"}
Chances(d) == Waiting(d) + Cardinality(Trying(d))

ChancesInv ==
  /\ \A w \in Workers : pc[w] = "return" /\ ~Requested(w) => status[Delivery(w)] # "pending"
  /\ \A d \in Senders : accepted[d] + Chances(d) <= 1 + deaths[d]

\* While no execution died with its request made there is one chain of attempts,
\* a message or an execution, and it counts its requests.
Active(d) ==
  {w \in Workers :
     /\ Delivery(w) = d
     /\ \/ pc[w] \in {"loaded", "post"}
        \/ status[d] = "pending" /\ pc[w] \in {"write", "raised", "resend"}}

Counted(w, d) ==
  /\ status[d] = "pending"
  /\ \/ posts[d] = attempts[d]
     \/ pc[w] \in {"write", "raised"} /\ Requested(w) /\ posts[d] = attempts[d] + 1
  /\ pc[w] = "write" /\ Requested(w) => posts[d] = attempts[d] + 1
  /\ pc[w] \in {"loaded", "post", "write"} => ctx[w].loaded = attempts[d]

OneChain(d) ==
  /\ posts[d] <= MaxAttempts
  /\ status[d] = "pending" => queue[d] = 0 \/ (queue[d] = 1 /\ Active(d) = {})
  /\ \A v, w \in Active(d) : v = w
  /\ status[d] = "none" \/ (status[d] = "pending" /\ Active(d) = {}) => posts[d] = attempts[d]
  /\ \A w \in Active(d) : Counted(w, d)

PostsInv == \A d \in Senders : deaths[d] = 0 => OneChain(d)

-----------------------------------------------------------------------------
(* Types                                                                   *)

LEMMA NothingTyped == Nothing \in Context /\ Nothing.outcome = "none" /\ Nothing.loaded = 0
<1>1. (CHOOSE d \in Senders : TRUE) \in Senders  BY ConstantsAssumption
<1>q. QED BY <1>1 DEF Nothing, Context, Outcomes

LEMMA InitBase == Init => Base
<1> SUFFICES ASSUME Init PROVE Base  OBVIOUS
<1>1. TypeOK  BY NothingTyped, ConstantsAssumption DEF Init, TypeOK
<1>2. ContextInv /\ RowInv
  BY NothingTyped, ConstantsAssumption DEF Init, ContextInv, RowInv, Executing
<1>q. QED BY <1>1, <1>2 DEF Base

USE ConstantsAssumption

\* The steps of a sender, of the user, and the configuration.
LEMMA SendersBase ==
  ASSUME Base, NEW d \in Senders, Send(d) \/ SenderDies(d) \/ DeleteSubject(d) \/ ChangeConnection
  PROVE  Base'
<1> USE DEF Base, TypeOK, ContextInv, RowInv, Executing, Delivery, rowVars, confVars, execVars, history
<1>1. CASE CheckCap(d)       BY <1>1 DEF CheckCap
<1>2. CASE CreateDelivery(d)
  <2>1. \/ /\ status' = [status EXCEPT ![d] = "pending"]
           /\ sender' = [sender EXCEPT ![d] = "send"]
        \/ status' = status /\ sender' = [sender EXCEPT ![d] = "done"]
    BY <1>2 DEF CreateDelivery, Set
  <2>2. sender[d] = "checked" /\ UNCHANGED <<attempts, confVars, execVars, queue, history, faults>>
    BY <1>2 DEF CreateDelivery
  <2>3. TypeOK'  BY <2>1, <2>2
  <2>4. ContextInv'
    BY <2>1, <2>2 DEF Context
  <2>5. RowInv'  BY <2>1, <2>2
  <2>q. QED BY <2>3, <2>4, <2>5
<1>3. CASE SendMessage(d)    BY <1>3 DEF SendMessage, Enqueue
<1>4. CASE SenderDies(d)     BY <1>4 DEF SenderDies, Fault
<1>5. CASE DeleteSubject(d)  BY <1>5 DEF DeleteSubject, Fault
<1>6. CASE ChangeConnection  BY <1>6 DEF ChangeConnection, Fault
<1>q. QED BY <1>1, <1>2, <1>3, <1>4, <1>5, <1>6 DEF Send

\* What every step of an execution leaves alone, and what it may change.
LEMMA TakeBase ==
  ASSUME Base, NEW d \in Senders, NEW w \in Workers, TakeMessage(w, d)
  PROVE  Base'
<1> USE DEF Base, rowVars, confVars, execVars, history
<1>1. queue' = [queue EXCEPT ![d] = @ - 1] /\ queue[d] \in Nat /\ queue[d] > 0
  BY DEF TakeMessage, TypeOK
<1>2. sender[d] \notin {"start", "checked", "send"}
  BY <1>1 DEF RowInv
<1>3. CASE ~IsPending(d)
  BY <1>1, <1>2, <1>3 DEF TakeMessage, TypeOK, ContextInv, RowInv, Executing, Delivery
<1>4. CASE IsPending(d)
  <2> DEFINE new == [Nothing EXCEPT !.delivery = d, !.loaded = attempts[d]]
  <2>1. /\ pc' = [pc EXCEPT ![w] = "loaded"] /\ ctx' = [ctx EXCEPT ![w] = new]
        /\ UNCHANGED <<rowVars, confVars, sender, history, faults>>
    BY <1>4 DEF TakeMessage, Goto
  <2>2. attempts[d] \in Nat /\ attempts[d] < MaxAttempts /\ status[d] = "pending"
    BY <1>4 DEF IsPending, RowInv, TypeOK
  <2>3. new \in Context /\ new.outcome = "none" /\ new.loaded = attempts[d] /\ new.delivery = d
    BY <2>2, NothingTyped DEF Context
  <2> HIDE DEF new
  <2>4. TypeOK'
    BY <1>1, <2>1, <2>3 DEF TypeOK
  <2>5. ContextInv'
    BY <2>1, <2>2, <2>3 DEF ContextInv, Delivery, TypeOK
  <2>6. RowInv'
    BY <1>1, <1>2, <2>1, <2>3 DEF RowInv, Executing, Delivery, TypeOK
  <2>q. QED BY <2>4, <2>5, <2>6
<1>q. QED BY <1>3, <1>4

\* An execution loaded its delivery, which is not new any more.
LEMMA ExecutionTyped ==
  ASSUME Base, NEW w \in Workers
  PROVE  /\ Delivery(w) \in Senders /\ ctx[w] \in Context
         /\ ctx[w].outcome \in Outcomes /\ ctx[w].loaded \in Nat /\ Attempt(w) \in 1..MaxAttempts
         /\ pc[w] # "idle" => w \in Executing(Delivery(w))
         /\ pc[w] # "idle" => sender[Delivery(w)] \notin {"start", "checked", "send"}
BY DEF Base, TypeOK, ContextInv, RowInv, Context, Delivery, Attempt, Executing

LEMMA ExecutionBase ==
  ASSUME Base, NEW w \in Workers, Execute(w) \/ Raise(w) \/ WorkerDies(w)
  PROVE  Base'
<1> USE ExecutionTyped DEF Base, rowVars, confVars, execVars, history
<1>0. pc[w] # "idle" /\ status[Delivery(w)] # "none"
  BY DEF Execute, CheckTarget, PostRequest, RecordAttempt, SendRetry, FailDelivery, Acknowledge,
         Raise, WorkerDies, ContextInv
<1>1. CASE CheckTarget(w)
  BY <1>0, <1>1 DEF CheckTarget, Goto, TypeOK, ContextInv, RowInv, Executing, Delivery, Context, Outcomes
<1>2. CASE PostRequest(w)
  <2>1. PICK outcome \in {"accepted", "rejected", "error"} :
          /\ ctx' = [ctx EXCEPT ![w].outcome = outcome]
          /\ accepted' = IF outcome = "accepted" THEN [accepted EXCEPT ![Delivery(w)] = @ + 1]
                         ELSE accepted
    BY <1>2 DEF PostRequest
  <2>q. QED
    BY <1>0, <1>2, <2>1 DEF PostRequest, Goto, TypeOK, ContextInv, RowInv, Executing, Delivery,
                            Context, Outcomes
<1>3. CASE RecordAttempt(w)
  <2>1. Verdict(w) \in {"pending", "sent", "failed"}
    BY DEF Verdict
  <2>2. Verdict(w) = "pending" => ctx[w].outcome = "error" /\ Attempt(w) < MaxAttempts
    BY DEF Verdict, Exhausted
  <2>3. attempts' \in [Senders -> 0..MaxAttempts]
        /\ \A d \in Senders : d # Delivery(w) => attempts'[d] = attempts[d]
    BY <1>3 DEF RecordAttempt, TypeOK
  <2>4. CASE Verdict(w) = "pending"
    <3>1. pc' = [pc EXCEPT ![w] = "resend"] /\ status' = status
          /\ UNCHANGED <<confVars, sender, ctx, queue, history, faults>>
      BY <1>3, <2>4 DEF RecordAttempt, Goto
    <3>2. attempts'[Delivery(w)] = Attempt(w)
      BY <1>3, <2>2, <2>4 DEF RecordAttempt, Requested, TypeOK
    <3>3. TypeOK'  BY <2>3, <3>1 DEF TypeOK
    <3>4. ContextInv'  BY <1>0, <2>2, <2>4, <3>1 DEF ContextInv, Delivery, TypeOK
    <3>5. RowInv'
      BY <1>0, <2>2, <2>3, <2>4, <3>1, <3>2 DEF RowInv, Executing, Delivery, TypeOK
    <3>q. QED BY <3>3, <3>4, <3>5
  <2>5. CASE Verdict(w) # "pending"
    <3>1. /\ pc' = [pc EXCEPT ![w] = "return"]
          /\ status' = [status EXCEPT ![Delivery(w)] = Verdict(w)]
          /\ UNCHANGED <<confVars, sender, ctx, queue, history, faults>>
      BY <1>3, <2>5 DEF RecordAttempt, Goto, Set
    <3>3. TypeOK'  BY <2>1, <2>3, <3>1 DEF TypeOK
    <3>4. ContextInv'  BY <1>0, <2>1, <3>1 DEF ContextInv, Delivery, TypeOK
    <3>5. RowInv'
      BY <1>0, <2>1, <2>3, <2>5, <3>1 DEF RowInv, Executing, Delivery, TypeOK
    <3>q. QED BY <3>3, <3>4, <3>5
  <2>q. QED BY <2>4, <2>5
<1>4. CASE SendRetry(w)
  BY <1>0, <1>4 DEF SendRetry, Resent, Enqueue, Goto, TypeOK, ContextInv, RowInv, Executing, Delivery
<1>5. CASE FailDelivery(w)
  BY <1>0, <1>5 DEF FailDelivery, Set, Goto, TypeOK, ContextInv, RowInv, Executing, Delivery
<1>6. CASE Acknowledge(w)
  BY <1>6, NothingTyped DEF Acknowledge, Ack, Goto, TypeOK, ContextInv, RowInv, Executing, Delivery
<1>7. CASE Raise(w)
  BY <1>0, <1>7 DEF Raise, Fault, Goto, TypeOK, ContextInv, RowInv, Executing, Delivery
<1>8. CASE WorkerDies(w)
  <2>1. /\ pc' = [pc EXCEPT ![w] = "idle"] /\ ctx' = [ctx EXCEPT ![w] = Nothing]
        /\ queue' = [queue EXCEPT ![Delivery(w)] = @ + 1] /\ deaths' \in [Senders -> Nat]
        /\ faults' \in Nat /\ UNCHANGED <<rowVars, confVars, sender, posts, accepted>>
    BY <1>8 DEF WorkerDies, Ack, Goto, Enqueue, Fault, TypeOK
  <2>q. QED
    BY <1>0, <2>1, NothingTyped DEF TypeOK, ContextInv, RowInv, Executing, Delivery
<1>q. QED BY <1>1, <1>2, <1>3, <1>4, <1>5, <1>6, <1>7, <1>8 DEF Execute

\* The check of the target moves on and marks at most its own execution invalid.
LEMMA CheckedTarget ==
  ASSUME Base, NEW w \in Workers, CheckTarget(w)
  PROVE  /\ UNCHANGED <<status, attempts, sender, queue, accepted, posts, deaths>>
         /\ pc[w] = "loaded" /\ pc'[w] \in {"post", "write"}
         /\ ctx'[w].loaded = ctx[w].loaded /\ ctx'[w].delivery = ctx[w].delivery
         /\ ctx'[w].outcome = IF pc'[w] = "post" THEN "none" ELSE "invalid"
         /\ \A v \in Workers : v # w => ctx'[v] = ctx[v] /\ pc'[v] = pc[v]
<1>1. ctx[w].outcome = "none"
  BY DEF CheckTarget, Base, ContextInv
<1>q. QED
  BY <1>1, ExecutionTyped DEF CheckTarget, Goto, Base, TypeOK, Context, rowVars, confVars, history

LEMMA StutterBase == Base /\ UNCHANGED vars => Base'
BY DEF Base, TypeOK, ContextInv, RowInv, Executing, Delivery, vars, rowVars, confVars, execVars, history

LEMMA NextBase == Base /\ [Next]_vars => Base'
<1>0. Senders # {}  BY ConstantsAssumption
<1>q. QED
  BY <1>0, SendersBase, TakeBase, ExecutionBase, StutterBase DEF Next, Receive

\* The rows, the executions and the queue have their types
\* (webhook_tasks.py:103-243).
THEOREM Types == Spec => []TypeOK
<1>1. Spec => []Base  BY InitBase, NextBase, PTL DEF Spec
<1>q. QED BY <1>1, PTL DEF Base

-----------------------------------------------------------------------------
(* Sent means accepted                                                     *)

LEMMA NextSent == Base /\ SentInv /\ [Next]_vars => SentInv'
<1> SUFFICES ASSUME Base, SentInv, [Next]_vars PROVE SentInv'  OBVIOUS
<1> USE DEF SentInv, SentWasAccepted, Delivery, rowVars, confVars, execVars, history
<1>0. TypeOK  BY DEF Base
<1>1. ASSUME NEW d \in Senders, Send(d) PROVE SentInv'
  BY <1>0, <1>1 DEF Send, CheckCap, CreateDelivery, SendMessage, Set, TypeOK
<1>2. ASSUME NEW d \in Senders, SenderDies(d) \/ DeleteSubject(d) \/ ChangeConnection PROVE SentInv'
  BY <1>2 DEF SenderDies, DeleteSubject, ChangeConnection
<1>3. ASSUME NEW d \in Senders, NEW w \in Workers, TakeMessage(w, d) PROVE SentInv'
  <2>1. ctx' = ctx \/ ctx' = [ctx EXCEPT ![w] = [Nothing EXCEPT !.delivery = d, !.loaded = attempts[d]]]
    BY <1>3 DEF TakeMessage
  <2>2. [Nothing EXCEPT !.delivery = d, !.loaded = attempts[d]].outcome = "none"
    BY NothingTyped DEF Context
  <2>3. \A v \in Workers : ctx'[v] = ctx[v] \/ ctx'[v].outcome = "none"
    BY <1>0, <2>1, <2>2 DEF TypeOK
  <2>q. QED BY <1>3, <2>3 DEF TakeMessage
<1>4. ASSUME NEW w \in Workers, Execute(w) \/ Raise(w) \/ WorkerDies(w) PROVE SentInv'
  <2> USE ExecutionTyped, <1>0
  <2>1. CASE CheckTarget(w)
    BY <2>1, CheckedTarget, ExecutionTyped
  <2>2. CASE PostRequest(w)
    <3>1. PICK outcome \in {"accepted", "rejected", "error"} :
            /\ ctx' = [ctx EXCEPT ![w].outcome = outcome]
            /\ accepted' = IF outcome = "accepted" THEN [accepted EXCEPT ![Delivery(w)] = @ + 1]
                           ELSE accepted
      BY <2>2 DEF PostRequest
    <3>q. QED BY <2>2, <3>1 DEF PostRequest, TypeOK, Context
  <2>3. CASE RecordAttempt(w)
    <3>1. UNCHANGED <<ctx, accepted>>  BY <2>3 DEF RecordAttempt
    <3>2. Verdict(w) = "sent" => ctx[w].outcome = "accepted"  BY DEF Verdict
    <3>3. \A d \in Senders : status'[d] = "sent" => status[d] = "sent" \/ accepted[d] > 0
      <4>1. CASE Verdict(w) = "pending"  BY <2>3, <4>1 DEF RecordAttempt
      <4>2. CASE Verdict(w) # "pending"
        <5>1. status' = [status EXCEPT ![Delivery(w)] = Verdict(w)]
          BY <2>3, <4>2 DEF RecordAttempt, Set
        <5>q. QED BY <3>2, <5>1 DEF TypeOK
      <4>q. QED BY <4>1, <4>2
    <3>q. QED BY <3>1, <3>3
  <2>4. CASE SendRetry(w) \/ Raise(w)  BY <2>4 DEF SendRetry, Raise
  <2>5. CASE FailDelivery(w)  BY <2>5 DEF FailDelivery, Set, TypeOK
  <2>6. CASE Acknowledge(w) \/ WorkerDies(w)
    <3>1. ctx' = [ctx EXCEPT ![w] = Nothing] /\ UNCHANGED <<status, accepted>>
      BY <2>6 DEF Acknowledge, WorkerDies, Ack
    <3>q. QED BY <3>1, NothingTyped DEF TypeOK
  <2>q. QED BY <1>4, <2>1, <2>2, <2>3, <2>4, <2>5, <2>6 DEF Execute
<1>5. CASE UNCHANGED vars  BY <1>5 DEF vars
<1>6. Senders # {}  BY ConstantsAssumption
<1>q. QED BY <1>1, <1>2, <1>3, <1>4, <1>5, <1>6 DEF Next, Receive

\* A delivery is shown as sent only if the receiver accepted a request for it
\* (webhook_tasks.py:167-216).
THEOREM SentMeansAccepted == Spec => []SentWasAccepted
<1>1. Init => SentInv
  BY NothingTyped DEF Init, SentInv, SentWasAccepted
<1>2. Spec => [](Base /\ SentInv)
  BY <1>1, InitBase, NextBase, NextSent, PTL DEF Spec
<1>q. QED BY <1>2, PTL DEF SentInv

-----------------------------------------------------------------------------
(* Nothing pending is forgotten                                            *)

LEMMA NextQueued == Base /\ QueuedInv /\ [Next]_vars => QueuedInv'
<1> SUFFICES ASSUME Base, QueuedInv, [Next]_vars PROVE QueuedInv'  OBVIOUS
<1> USE DEF QueuedInv, Pending, Delivery, rowVars, confVars, execVars, history
<1>0. TypeOK  BY DEF Base
<1>1. ASSUME NEW d \in Senders, Send(d) PROVE QueuedInv'
  <2>1. CASE CheckCap(d)  BY <1>0, <2>1 DEF Base, RowInv, CheckCap, TypeOK
  <2>2. CASE CreateDelivery(d)  BY <1>0, <2>2 DEF Base, RowInv, CreateDelivery, Set, TypeOK
  <2>3. CASE SendMessage(d)  BY <1>0, <2>3 DEF SendMessage, Enqueue, TypeOK
  <2>q. QED BY <1>1, <2>1, <2>2, <2>3 DEF Send
<1>2. ASSUME NEW d \in Senders, SenderDies(d) \/ DeleteSubject(d) \/ ChangeConnection PROVE QueuedInv'
  BY <1>0, <1>2 DEF SenderDies, DeleteSubject, ChangeConnection, TypeOK
<1>3. ASSUME NEW d \in Senders, NEW w \in Workers, TakeMessage(w, d) PROVE QueuedInv'
  <2>1. /\ pc[w] = "idle" /\ queue' = [queue EXCEPT ![d] = @ - 1]
        /\ UNCHANGED <<rowVars, sender>>
    BY <1>3 DEF TakeMessage
  <2>2. CASE ~IsPending(d)
    BY <1>0, <1>3, <2>1, <2>2 DEF TakeMessage, IsPending, TypeOK
  <2>3. CASE IsPending(d)
    <3>1. pc' = [pc EXCEPT ![w] = "loaded"]
          /\ ctx' = [ctx EXCEPT ![w] = [Nothing EXCEPT !.delivery = d, !.loaded = attempts[d]]]
      BY <1>3, <2>3 DEF TakeMessage, Goto
    <3>2. [Nothing EXCEPT !.delivery = d, !.loaded = attempts[d]].delivery = d
      BY NothingTyped DEF Context
    <3>3. ctx'[w].delivery = d /\ pc'[w] = "loaded"
          /\ \A v \in Workers : v # w => ctx'[v] = ctx[v] /\ pc'[v] = pc[v]
      BY <1>0, <3>1, <3>2 DEF TypeOK
    <3>q. QED BY <1>0, <2>1, <3>3 DEF TypeOK
  <2>q. QED BY <2>2, <2>3
<1>4. ASSUME NEW w \in Workers, Execute(w) \/ Raise(w) \/ WorkerDies(w) PROVE QueuedInv'
  <2> USE ExecutionTyped, <1>0
  <2>1. CASE CheckTarget(w)
    BY <2>1, CheckedTarget DEF TypeOK
  <2>2. CASE PostRequest(w)
    <3>1. pc' = [pc EXCEPT ![w] = "write"] /\ UNCHANGED <<rowVars, sender, queue>>
          /\ \E outcome \in Outcomes : ctx' = [ctx EXCEPT ![w].outcome = outcome]
      BY <2>2 DEF PostRequest, Goto, Outcomes
    <3>q. QED BY <3>1 DEF TypeOK
  <2>3. CASE RecordAttempt(w)
    <3>1. UNCHANGED <<sender, ctx, queue>>  BY <2>3 DEF RecordAttempt
    <3>2. CASE Verdict(w) = "pending"
      BY <2>3, <3>1, <3>2 DEF RecordAttempt, Goto, TypeOK
    <3>3. CASE Verdict(w) # "pending"
      <4>1. pc' = [pc EXCEPT ![w] = "return"] /\ status' = [status EXCEPT ![Delivery(w)] = Verdict(w)]
        BY <2>3, <3>3 DEF RecordAttempt, Goto, Set
      <4>q. QED BY <3>1, <3>3, <4>1 DEF TypeOK
    <3>q. QED BY <3>2, <3>3
  <2>4. CASE SendRetry(w)  BY <2>4 DEF SendRetry, Resent, Enqueue, Goto, TypeOK
  <2>5. CASE FailDelivery(w)  BY <2>5 DEF FailDelivery, Set, Goto, TypeOK
  <2>6. CASE Acknowledge(w)  BY <2>6 DEF Acknowledge, Ack, Goto, TypeOK
  <2>7. CASE Raise(w)
    <3>1. pc' = [pc EXCEPT ![w] = "raised"] /\ UNCHANGED <<rowVars, sender, ctx, queue>>
      BY <2>7 DEF Raise, Goto
    <3>q. QED BY <3>1 DEF TypeOK
  <2>8. CASE WorkerDies(w)
    <3>1. /\ pc' = [pc EXCEPT ![w] = "idle"] /\ ctx' = [ctx EXCEPT ![w] = Nothing]
          /\ queue' = [queue EXCEPT ![Delivery(w)] = @ + 1] /\ UNCHANGED <<rowVars, sender>>
      BY <2>8 DEF WorkerDies, Ack, Goto, Enqueue
    <3>q. QED BY <3>1 DEF TypeOK
  <2>q. QED BY <1>4, <2>1, <2>2, <2>3, <2>4, <2>5, <2>6, <2>7, <2>8 DEF Execute
<1>5. CASE UNCHANGED vars  BY <1>5 DEF vars
<1>6. Senders # {}  BY ConstantsAssumption
<1>q. QED BY <1>1, <1>2, <1>3, <1>4, <1>5, <1>6 DEF Next, Receive

\* A pending delivery has a message, an execution or a sender about to send one;
\* only its sender's death between commit and send strands it
\* (webhook_tasks.py:287-291).
THEOREM NothingIsForgotten == Spec => []PendingIsQueued
<1>1. Init => QueuedInv
  BY DEF Init, QueuedInv, Pending
<1>2. QueuedInv => PendingIsQueued
  BY DEF QueuedInv, PendingIsQueued, Executing, Delivery
<1>3. Spec => [](Base /\ QueuedInv)
  BY <1>1, InitBase, NextBase, NextQueued, PTL DEF Spec
<1>q. QED BY <1>2, <1>3, PTL

-----------------------------------------------------------------------------
(* Accepted once                                                           *)

\* Sets of executions are counted by the one that moves.
LEMMA Recount ==
  ASSUME NEW S \in SUBSET Workers, NEW T \in SUBSET Workers, NEW w \in Workers,
         T \ {w} \subseteq S \ {w}
  PROVE  /\ Cardinality(S) \in Nat /\ Cardinality(T) \in Nat
         /\ Cardinality(T) <= Cardinality(S) + 1
         /\ w \notin T \/ w \in S => Cardinality(T) <= Cardinality(S)
         /\ w \in S /\ w \notin T => Cardinality(T) + 1 <= Cardinality(S)
<1>1. IsFiniteSet(S) /\ IsFiniteSet(T)
  BY FS_Subset
<1>2. Cardinality(S) \in Nat /\ Cardinality(T) \in Nat
  BY <1>1, FS_CardinalityType
<1>3. IsFiniteSet(S \cup {w}) /\ Cardinality(S \cup {w}) <= Cardinality(S) + 1
  <2>1. /\ IsFiniteSet(S \cup {w})
        /\ Cardinality(S \cup {w}) = IF w \in S THEN Cardinality(S) ELSE Cardinality(S) + 1
    BY <1>1, FS_AddElement, Zenon
  <2>q. QED BY <1>2, <2>1
<1>4. T \in SUBSET (S \cup {w})
  OBVIOUS
<1>5. Cardinality(T) <= Cardinality(S \cup {w}) /\ Cardinality(S \cup {w}) \in Nat
  BY <1>3, <1>4, FS_Subset, FS_CardinalityType
<1>6. ASSUME w \notin T \/ w \in S PROVE Cardinality(T) <= Cardinality(S)
  <2>1. T \in SUBSET S  BY <1>6
  <2>q. QED BY <1>1, <2>1, FS_Subset
<1>7. ASSUME w \in S, w \notin T PROVE Cardinality(T) + 1 <= Cardinality(S)
  <2>1. IsFiniteSet(S \ {w}) /\ Cardinality(S \ {w}) = Cardinality(S) - 1
    BY <1>1, <1>7, FS_RemoveElement
  <2>2. T \in SUBSET (S \ {w})  BY <1>7
  <2>3. Cardinality(T) <= Cardinality(S \ {w})
    BY <2>1, <2>2, FS_Subset
  <2>q. QED BY <1>2, <2>1, <2>3
<1>q. QED BY <1>2, <1>3, <1>5, <1>6, <1>7

\* Nobody executes a delivery whose sender is not done.
LEMMA NoneTries ==
  ASSUME Base, NEW d \in Senders, sender[d] \in {"start", "checked", "send"}
  PROVE  Trying(d) = {} /\ accepted[d] = 0 /\ queue[d] = 0
BY DEF Base, RowInv, Executing, Trying, Delivery

\* A step of the execution w changes who tries by w at most.
LEMMA Retry ==
  ASSUME NEW w \in Workers, NEW e \in Senders,
         \A v \in Workers : v # w => ctx'[v] = ctx[v] /\ pc'[v] = pc[v],
         status'[e] = status[e] \/ status'[e] # "pending"
  PROVE  /\ Cardinality(Trying(e)) \in Nat /\ Cardinality(Trying(e)') \in Nat
         /\ Cardinality(Trying(e)') <= Cardinality(Trying(e)) + 1
         /\ w \notin Trying(e)' \/ w \in Trying(e) => Cardinality(Trying(e)') <= Cardinality(Trying(e))
         /\ w \in Trying(e) /\ w \notin Trying(e)' => Cardinality(Trying(e)') + 1 <= Cardinality(Trying(e))
<1>1. Trying(e) \in SUBSET Workers /\ Trying(e)' \in SUBSET Workers
  BY DEF Trying
<1>2. Trying(e)' \ {w} \subseteq Trying(e) \ {w}
  BY DEF Trying, Delivery
<1>q. QED BY <1>1, <1>2, Recount

\* What the executions do to a delivery, by the moves of one of them.
LEMMA ExecutionChances ==
  ASSUME Base, ChancesInv, NEW w \in Workers, Execute(w) \/ Raise(w) \/ WorkerDies(w)
  PROVE  ChancesInv'
<1> USE ExecutionTyped DEF rowVars, confVars, execVars, history
<1> DEFINE d == Delivery(w)
<1>0. TypeOK /\ ContextInv /\ d \in Senders  BY DEF Base
<1>a. ctx[w].outcome = "accepted" \/ Requested(w) \/ ctx[w].outcome \in {"none", "invalid"}
  BY DEF Requested, Outcomes
<1>b. \A e \in Senders : accepted[e] + Chances(e) <= 1 + deaths[e]
  BY DEF ChancesInv
<1>c. \A e \in Senders : accepted[e] \in Nat /\ queue[e] \in Nat /\ deaths[e] \in Nat
  BY <1>0 DEF TypeOK
<1> HIDE DEF d
<1>1. CASE CheckTarget(w)
  <2>1. \A e \in Senders : w \notin Trying(e)' \/ w \in Trying(e)
    BY <1>1, CheckedTarget DEF Trying, Delivery
  <2>2. \A e \in Senders : Chances(e)' <= Chances(e) /\ Chances(e)' \in Nat /\ Chances(e) \in Nat
    BY <1>1, <1>c, <2>1, CheckedTarget, Retry DEF Chances, Waiting
  <2>q. QED
    BY <1>1, <1>b, <1>c, <2>2, CheckedTarget DEF ChancesInv, Requested, Delivery
<1>2. CASE PostRequest(w)
  <2>1. PICK outcome \in {"accepted", "rejected", "error"} :
          /\ ctx' = [ctx EXCEPT ![w].outcome = outcome]
          /\ accepted' = IF outcome = "accepted" THEN [accepted EXCEPT ![d] = @ + 1] ELSE accepted
    BY <1>2 DEF PostRequest, d
  <2>2. /\ pc[w] = "post" /\ pc' = [pc EXCEPT ![w] = "write"]
        /\ UNCHANGED <<status, queue, deaths>>
    BY <1>2 DEF PostRequest, Goto
  <2>3. /\ pc'[w] = "write" /\ ctx'[w].outcome = outcome /\ ctx'[w].delivery = d
        /\ \A v \in Workers : v # w => ctx'[v] = ctx[v] /\ pc'[v] = pc[v]
    BY <1>0, <2>1, <2>2 DEF TypeOK, Context, d, Delivery
  <2>4. w \in Trying(d) /\ \A e \in Senders : e # d => w \notin Trying(e)'
    BY <2>2, <2>3 DEF Trying, Delivery, d
  <2>5. \A e \in Senders : outcome = "accepted" => w \notin Trying(e)'
    BY <2>3 DEF Trying
  <2>6. ASSUME NEW e \in Senders
        PROVE  accepted'[e] + Chances(e)' <= accepted[e] + Chances(e)
    <3>1. Waiting(e)' = Waiting(e) /\ Waiting(e) \in Nat
      BY <1>c, <2>2 DEF Waiting
    <3>2. w \notin Trying(e)' \/ w \in Trying(e)
      BY <2>4
    <3>3. CASE e = d /\ outcome = "accepted"
      <4>1. accepted'[e] = accepted[e] + 1
        BY <1>0, <2>1, <3>3 DEF TypeOK
      <4>2. Cardinality(Trying(e)') + 1 <= Cardinality(Trying(e))
            /\ Cardinality(Trying(e)) \in Nat /\ Cardinality(Trying(e)') \in Nat
        <5>1. w \in Trying(e) /\ w \notin Trying(e)'
          BY <2>4, <2>5, <3>3
        <5>2. status'[e] = status[e] \/ status'[e] # "pending"
          BY <2>2
        <5>q. QED BY <2>3, <5>1, <5>2, Retry
      <4>q. QED BY <1>c, <3>1, <4>1, <4>2 DEF Chances
    <3>4. CASE ~(e = d /\ outcome = "accepted")
      <4>1. accepted'[e] = accepted[e]
        BY <1>0, <2>1, <3>4 DEF TypeOK
      <4>2. Cardinality(Trying(e)') <= Cardinality(Trying(e))
            /\ Cardinality(Trying(e)) \in Nat /\ Cardinality(Trying(e)') \in Nat
        BY <2>2, <2>3, <3>2, Retry
      <4>q. QED BY <1>c, <3>1, <4>1, <4>2 DEF Chances
    <3>q. QED BY <3>3, <3>4
  <2>7. \A e \in Senders : Chances(e) \in Nat /\ Chances(e)' \in Nat /\ accepted'[e] \in Nat
    BY <1>0, <1>c, <2>1, <2>2, <2>3, Retry DEF Chances, Waiting, TypeOK
  <2>q. QED
    BY <1>b, <1>c, <2>2, <2>3, <2>6, <2>7 DEF ChancesInv, Requested, Delivery
<1>3. CASE RecordAttempt(w)
  <2>1. pc[w] = "write" /\ UNCHANGED <<ctx, queue, accepted, deaths>>
    BY <1>3 DEF RecordAttempt
  <2>2. /\ pc'[w] = IF Verdict(w) = "pending" THEN "resend" ELSE "return"
        /\ \A v \in Workers : v # w => ctx'[v] = ctx[v] /\ pc'[v] = pc[v]
    BY <1>0, <1>3, <2>1 DEF RecordAttempt, Goto, TypeOK
  <2>3. status' = IF Verdict(w) = "pending" THEN status ELSE [status EXCEPT ![d] = Verdict(w)]
    BY <1>3 DEF RecordAttempt, Set, d
  <2>4. Verdict(w) = "pending" => ctx[w].outcome = "error"
    BY DEF Verdict
  <2>5. \A e \in Senders : status'[e] = status[e] \/ status'[e] # "pending"
    BY <1>0, <2>3 DEF TypeOK
  <2>6. \A e \in Senders : w \notin Trying(e)' \/ w \in Trying(e)
    BY <2>1, <2>2, <2>4, <2>5 DEF Trying, Delivery
  <2>7. \A e \in Senders : Chances(e)' <= Chances(e) /\ Chances(e)' \in Nat /\ Chances(e) \in Nat
    BY <1>c, <2>1, <2>2, <2>5, <2>6, Retry DEF Chances, Waiting
  <2>8. \A v \in Workers : pc'[v] = "return" /\ ~Requested(v)' => status'[Delivery(v)'] # "pending"
    <3>1. Verdict(w) # "pending" => status'[d] # "pending"
      BY <1>0, <2>3 DEF TypeOK
    <3>2. TypeOK'  BY ExecutionBase DEF Base
    <3>q. QED BY <2>1, <2>2, <2>5, <3>1, <3>2 DEF ChancesInv, Requested, Delivery, d, TypeOK, Context
  <2>q. QED
    BY <1>b, <1>c, <2>1, <2>7, <2>8 DEF ChancesInv
<1>4. CASE SendRetry(w)
  <2>1. /\ pc[w] = "resend" /\ pc' = [pc EXCEPT ![w] = "return"]
        /\ queue' = [queue EXCEPT ![d] = @ + 1]
        /\ UNCHANGED <<status, ctx, accepted, deaths>>
    BY <1>4 DEF SendRetry, Resent, Enqueue, Goto, d
  <2>2. /\ pc'[w] = "return" /\ ctx[w].outcome = "error"
        /\ \A v \in Workers : v # w => ctx'[v] = ctx[v] /\ pc'[v] = pc[v]
    BY <1>0, <2>1 DEF TypeOK, ContextInv
  <2>3. \A e \in Senders : w \notin Trying(e)'
    BY <2>2 DEF Trying
  <2>4. status[d] = "pending" => w \in Trying(d)
    BY <2>1, <2>2 DEF Trying, d
  <2>5. \A e \in Senders : Chances(e)' <= Chances(e) /\ Chances(e)' \in Nat /\ Chances(e) \in Nat
    BY <1>0, <1>c, <2>1, <2>2, <2>3, <2>4, Retry DEF Chances, Waiting, TypeOK
  <2>q. QED
    BY <1>b, <1>c, <2>1, <2>2, <2>5 DEF ChancesInv, Requested, Delivery
<1>5. CASE FailDelivery(w)
  <2>1. /\ pc' = [pc EXCEPT ![w] = "return"] /\ status' = [status EXCEPT ![d] = "failed"]
        /\ UNCHANGED <<ctx, queue, accepted, deaths>>
    BY <1>5 DEF FailDelivery, Set, Goto, d
  <2>2. /\ pc'[w] = "return" /\ status'[d] = "failed"
        /\ \A v \in Workers : v # w => ctx'[v] = ctx[v] /\ pc'[v] = pc[v]
        /\ \A e \in Senders : status'[e] = status[e] \/ status'[e] # "pending"
    BY <1>0, <2>1 DEF TypeOK
  <2>3. \A e \in Senders : w \notin Trying(e)'
    BY <2>2 DEF Trying
  <2>4. \A e \in Senders : Chances(e)' <= Chances(e) /\ Chances(e)' \in Nat /\ Chances(e) \in Nat
    BY <1>c, <2>1, <2>2, <2>3, Retry DEF Chances, Waiting
  <2>5. \A v \in Workers : pc'[v] = "return" /\ ~Requested(v)' => status'[Delivery(v)'] # "pending"
    <3>1. TypeOK'  BY ExecutionBase DEF Base
    <3>q. QED BY <2>1, <2>2, <3>1 DEF ChancesInv, Requested, Delivery, d, TypeOK, Context
  <2>q. QED BY <1>b, <1>c, <2>1, <2>4, <2>5 DEF ChancesInv
<1>6. CASE Acknowledge(w)
  <2>1. /\ pc' = [pc EXCEPT ![w] = "idle"] /\ ctx' = [ctx EXCEPT ![w] = Nothing]
        /\ UNCHANGED <<status, queue, accepted, deaths>>
    BY <1>6 DEF Acknowledge, Ack, Goto
  <2>2. /\ pc'[w] = "idle" /\ \A v \in Workers : v # w => ctx'[v] = ctx[v] /\ pc'[v] = pc[v]
    BY <1>0, <2>1 DEF TypeOK
  <2>3. \A e \in Senders : w \notin Trying(e)'
    BY <2>2 DEF Trying
  <2>4. \A e \in Senders : Chances(e)' <= Chances(e) /\ Chances(e)' \in Nat /\ Chances(e) \in Nat
    BY <1>c, <2>1, <2>2, <2>3, Retry DEF Chances, Waiting
  <2>q. QED
    BY <1>b, <1>c, <2>1, <2>2, <2>4 DEF ChancesInv, Requested, Delivery
<1>7. CASE Raise(w)
  <2>1. /\ pc[w] \in {"loaded", "write", "resend"} /\ pc' = [pc EXCEPT ![w] = "raised"]
        /\ UNCHANGED <<status, ctx, queue, accepted, deaths>>
    BY <1>7 DEF Raise, Goto
  <2>2. /\ pc'[w] = "raised" /\ \A v \in Workers : v # w => ctx'[v] = ctx[v] /\ pc'[v] = pc[v]
    BY <1>0, <2>1 DEF TypeOK
  <2>3. \A e \in Senders : w \notin Trying(e)' \/ w \in Trying(e)
    BY <2>1, <2>2 DEF Trying, Delivery
  <2>4. \A e \in Senders : Chances(e)' <= Chances(e) /\ Chances(e)' \in Nat /\ Chances(e) \in Nat
    BY <1>c, <2>1, <2>2, <2>3, Retry DEF Chances, Waiting
  <2>q. QED
    BY <1>b, <1>c, <2>1, <2>2, <2>4 DEF ChancesInv, Requested, Delivery
<1>8. CASE WorkerDies(w)
  <2>1. /\ pc[w] # "idle" /\ pc' = [pc EXCEPT ![w] = "idle"] /\ ctx' = [ctx EXCEPT ![w] = Nothing]
        /\ queue' = [queue EXCEPT ![d] = @ + 1] /\ UNCHANGED <<status, accepted>>
        /\ deaths' = IF Requested(w) /\ status[d] = "pending"
                     THEN [deaths EXCEPT ![d] = @ + 1] ELSE deaths
    BY <1>0, <1>8 DEF WorkerDies, Ack, Goto, Enqueue, Pending, d
  <2>2. /\ pc'[w] = "idle" /\ \A v \in Workers : v # w => ctx'[v] = ctx[v] /\ pc'[v] = pc[v]
    BY <1>0, <2>1 DEF TypeOK
  <2>3. \A e \in Senders : w \notin Trying(e)'
    BY <2>2 DEF Trying
  <2>4. status[d] = "pending" /\ ~Requested(w) => w \in Trying(d)
    BY <1>0, <1>a, <2>1 DEF Trying, d, TypeOK, ChancesInv, Requested
  <2>5. \A e \in Senders : /\ Chances(e)' + deaths[e] <= Chances(e) + deaths'[e]
                           /\ Chances(e)' \in Nat /\ Chances(e) \in Nat /\ deaths'[e] \in Nat
    BY <1>0, <1>c, <2>1, <2>2, <2>3, <2>4, Retry DEF Chances, Waiting, TypeOK
  <2>q. QED
    BY <1>b, <1>c, <2>1, <2>2, <2>5 DEF ChancesInv, Requested, Delivery
<1>q. QED BY <1>1, <1>2, <1>3, <1>4, <1>5, <1>6, <1>7, <1>8 DEF Execute

LEMMA TakeChances ==
  ASSUME Base, ChancesInv, NEW d \in Senders, NEW w \in Workers, TakeMessage(w, d)
  PROVE  ChancesInv'
<1> USE DEF rowVars, confVars, execVars, history
<1>0. TypeOK /\ ContextInv  BY DEF Base
<1>1. /\ pc[w] = "idle" /\ queue[d] > 0 /\ queue' = [queue EXCEPT ![d] = @ - 1]
      /\ UNCHANGED <<status, accepted, deaths>>
  BY DEF TakeMessage
<1>2. \A e \in Senders : accepted[e] \in Nat /\ queue[e] \in Nat /\ deaths[e] \in Nat /\ queue'[e] \in Nat
  BY <1>0, <1>1 DEF TypeOK
<1>3. \A e \in Senders : queue'[e] = IF e = d THEN queue[e] - 1 ELSE queue[e]
  BY <1>0, <1>1 DEF TypeOK
<1>4. /\ \A v \in Workers : v # w => ctx'[v] = ctx[v] /\ pc'[v] = pc[v]
      /\ IF IsPending(d) THEN pc'[w] = "loaded" /\ ctx'[w].delivery = d
         ELSE pc'[w] = "idle"
  <2>1. [Nothing EXCEPT !.delivery = d, !.loaded = attempts[d]].delivery = d
    BY NothingTyped DEF Context
  <2>2. IF IsPending(d) THEN pc' = [pc EXCEPT ![w] = "loaded"]
                             /\ ctx' = [ctx EXCEPT ![w] = [Nothing EXCEPT !.delivery = d, !.loaded = attempts[d]]]
        ELSE pc' = pc /\ ctx' = ctx
    BY DEF TakeMessage, Goto
  <2>3. \A v \in Workers : v # w => ctx'[v] = ctx[v] /\ pc'[v] = pc[v]
    BY <1>0, <2>2 DEF TypeOK
  <2>4. CASE IsPending(d)
    <3>1. pc'[w] = "loaded" /\ ctx'[w] = [Nothing EXCEPT !.delivery = d, !.loaded = attempts[d]]
      BY <1>0, <2>2, <2>4 DEF TypeOK
    <3>q. QED BY <2>1, <2>3, <2>4, <3>1
  <2>5. CASE ~IsPending(d)
    BY <1>1, <2>2, <2>3, <2>5
  <2>q. QED BY <2>4, <2>5
<1>5. ASSUME NEW e \in Senders
      PROVE  accepted'[e] + Chances(e)' <= 1 + deaths'[e]
  <2>1. /\ Cardinality(Trying(e)) \in Nat /\ Cardinality(Trying(e)') \in Nat
        /\ Cardinality(Trying(e)') <= Cardinality(Trying(e)) + 1
        /\ w \notin Trying(e)' => Cardinality(Trying(e)') <= Cardinality(Trying(e))
    <3>1. status'[e] = status[e] \/ status'[e] # "pending"
      BY <1>1
    <3>q. QED BY <1>4, <3>1, Retry
  <2>2. accepted[e] + Chances(e) <= 1 + deaths[e]
    BY DEF ChancesInv
  <2>3. CASE e = d /\ IsPending(d)
    <3>1. Waiting(e)' = Waiting(e) - 1 /\ Waiting(e) \in Nat
      BY <1>1, <1>2, <1>3, <2>3 DEF Waiting, IsPending
    <3>q. QED BY <1>1, <1>2, <2>1, <2>2, <3>1 DEF Chances
  <2>4. CASE e # d \/ ~IsPending(d)
    <3>1. w \notin Trying(e)'
      BY <1>4, <2>4 DEF Trying, Delivery
    <3>2. Waiting(e)' = Waiting(e) /\ Waiting(e) \in Nat
      BY <1>1, <1>2, <1>3, <2>4 DEF Waiting, IsPending
    <3>q. QED BY <1>1, <1>2, <2>1, <2>2, <3>1, <3>2 DEF Chances
  <2>q. QED BY <2>3, <2>4
<1>6. \A v \in Workers : pc'[v] = "return" /\ ~Requested(v)' => status'[Delivery(v)'] # "pending"
  BY <1>1, <1>4 DEF ChancesInv, Requested, Delivery
<1>q. QED BY <1>5, <1>6 DEF ChancesInv

\* A sender brings one chance, its message.
LEMMA SendersChances ==
  ASSUME Base, ChancesInv, NEW d \in Senders,
         Send(d) \/ SenderDies(d) \/ DeleteSubject(d) \/ ChangeConnection
  PROVE  ChancesInv'
<1> USE DEF rowVars, confVars, execVars, history
<1>0. TypeOK /\ RowInv  BY DEF Base
<1>1. CASE CheckCap(d) \/ SenderDies(d) \/ DeleteSubject(d) \/ ChangeConnection
  <2>1. UNCHANGED <<status, queue, pc, ctx, accepted, deaths>>
    BY <1>1 DEF CheckCap, SenderDies, DeleteSubject, ChangeConnection
  <2>2. \A e \in Senders : Trying(e)' = Trying(e)
    BY <2>1 DEF Trying, Delivery
  <2>q. QED BY <2>1, <2>2 DEF ChancesInv, Chances, Waiting, Requested, Delivery
<1>2. CASE CreateDelivery(d)
  <2>1. sender[d] = "checked" /\ UNCHANGED <<queue, pc, ctx, accepted, deaths>>
    BY <1>2 DEF CreateDelivery
  <2>2. Trying(d) = {} /\ accepted[d] = 0 /\ queue[d] = 0
    BY <2>1, NoneTries
  <2>3. \A e \in Senders : e # d => status'[e] = status[e]
    BY <1>0, <1>2 DEF CreateDelivery, Set, TypeOK
  <2>4. \A w \in Workers : pc[w] # "idle" => Delivery(w) # d
    BY <1>0, <2>1 DEF RowInv, Executing
  <2>5. Trying(d)' = {}
    BY <2>1, <2>4 DEF Trying, Delivery
  <2>6. \A e \in Senders : e # d => Trying(e)' = Trying(e)
    BY <2>1, <2>3 DEF Trying, Delivery
  <2>7. accepted'[d] + Chances(d)' <= 1 + deaths'[d]
    <3>1. Cardinality(Trying(d)') = 0  BY <2>5, FS_EmptySet
    <3>2. Waiting(d)' = 0  BY <2>1, <2>2 DEF Waiting
    <3>3. deaths'[d] \in Nat /\ accepted'[d] = 0  BY <1>0, <2>1, <2>2 DEF TypeOK
    <3>q. QED BY <3>1, <3>2, <3>3 DEF Chances
  <2>8. \A e \in Senders : e # d => accepted'[e] + Chances(e)' <= 1 + deaths'[e]
    BY <2>1, <2>3, <2>6 DEF ChancesInv, Chances, Waiting
  <2>9. \A w \in Workers : pc'[w] = "return" /\ ~Requested(w)' => status'[Delivery(w)'] # "pending"
    BY <1>0, <2>1, <2>3, <2>4 DEF ChancesInv, Requested, Delivery, TypeOK, Context
  <2>q. QED BY <2>7, <2>8, <2>9 DEF ChancesInv
<1>3. CASE SendMessage(d)
  <2>1. /\ sender[d] = "send" /\ queue' = [queue EXCEPT ![d] = @ + 1]
        /\ UNCHANGED <<status, pc, ctx, accepted, deaths>>
    BY <1>3 DEF SendMessage, Enqueue
  <2>2. Trying(d) = {} /\ accepted[d] = 0 /\ queue[d] = 0
    BY <2>1, NoneTries
  <2>3. \A e \in Senders : Trying(e)' = Trying(e)
    BY <2>1 DEF Trying, Delivery
  <2>4. accepted'[d] + Chances(d)' <= 1 + deaths'[d]
    <3>1. Cardinality(Trying(d)') = 0  BY <2>2, <2>3, FS_EmptySet
    <3>2. Waiting(d)' \in 0..1  BY <1>0, <2>1, <2>2 DEF Waiting, TypeOK
    <3>3. deaths'[d] \in Nat /\ accepted'[d] = 0  BY <1>0, <2>1, <2>2 DEF TypeOK
    <3>q. QED BY <3>1, <3>2, <3>3 DEF Chances
  <2>5. \A e \in Senders : e # d => accepted'[e] + Chances(e)' <= 1 + deaths'[e]
    BY <1>0, <2>1, <2>3 DEF ChancesInv, Chances, Waiting, TypeOK
  <2>q. QED BY <2>1, <2>4, <2>5 DEF ChancesInv, Requested, Delivery
<1>q. QED BY <1>1, <1>2, <1>3 DEF Send

LEMMA NextChances == Base /\ ChancesInv /\ [Next]_vars => ChancesInv'
<1>1. Senders # {}  BY ConstantsAssumption
<1>2. Base /\ ChancesInv /\ UNCHANGED vars => ChancesInv'
  <2> SUFFICES ASSUME ChancesInv, UNCHANGED vars PROVE ChancesInv'  OBVIOUS
  <2>1. UNCHANGED <<status, queue, pc, ctx, accepted, deaths>>
    BY DEF vars, rowVars, execVars, history
  <2>2. \A e \in Senders : Trying(e)' = Trying(e)
    BY <2>1 DEF Trying, Delivery
  <2>q. QED BY <2>1, <2>2 DEF ChancesInv, Chances, Waiting, Requested, Delivery
<1>q. QED
  BY <1>1, <1>2, SendersChances, TakeChances, ExecutionChances DEF Next, Receive

LEMMA InitChances == Init => ChancesInv
<1> SUFFICES ASSUME Init PROVE ChancesInv  OBVIOUS
<1>1. \A d \in Senders : Trying(d) = {}
  BY DEF Init, Trying
<1>2. \A d \in Senders : Chances(d) = 0
  BY <1>1, FS_EmptySet DEF Init, Chances, Waiting
<1>q. QED BY <1>2 DEF Init, ChancesInv

\* The receiver accepts an event once, and once more for each death of an execution
\* with its request made (webhook_tasks.py:103-243).
THEOREM AcceptsOnce == Spec => []AcceptedOnce
<1>2. TypeOK /\ ChancesInv => AcceptedOnce
  <2> SUFFICES ASSUME TypeOK, ChancesInv, NEW d \in Senders PROVE accepted[d] <= 1 + deaths[d]
    BY DEF AcceptedOnce
  <2>1. Trying(d) \in SUBSET Workers  BY DEF Trying
  <2>2. Cardinality(Trying(d)) \in Nat
    BY <2>1, FS_Subset, FS_CardinalityType
  <2>3. Waiting(d) \in Nat /\ accepted[d] \in Nat /\ deaths[d] \in Nat
    BY DEF Waiting, TypeOK
  <2>q. QED BY <2>2, <2>3 DEF ChancesInv, Chances
<1>3. Spec => [](Base /\ ChancesInv)
  BY InitChances, InitBase, NextBase, NextChances, PTL DEF Spec
<1>q. QED BY <1>2, <1>3, PTL DEF Base

-----------------------------------------------------------------------------
(* At most MaxAttempts requests                                            *)

\* A step that leaves a delivery and its executions alone.
LEMMA ChainUntouched ==
  ASSUME NEW e \in Senders, OneChain(e),
         UNCHANGED <<status[e], attempts[e], queue[e], posts[e]>>,
         Active(e)' = Active(e),
         \A v \in Active(e) : pc'[v] = pc[v] /\ ctx'[v] = ctx[v]
  PROVE  OneChain(e)'
BY DEF OneChain, Counted, Requested

\* Nobody is active on a delivery whose sender is not done.
LEMMA NoneActive ==
  ASSUME Base, NEW d \in Senders, sender[d] \in {"start", "checked", "send"}
  PROVE  \A w \in Workers : pc[w] # "idle" => Delivery(w) # d
BY DEF Base, RowInv, Executing

LEMMA SendersPosts ==
  ASSUME Base, PostsInv, NEW d \in Senders,
         Send(d) \/ SenderDies(d) \/ DeleteSubject(d) \/ ChangeConnection
  PROVE  PostsInv'
<1> USE DEF rowVars, confVars, execVars, history
<1>0. TypeOK /\ RowInv  BY DEF Base
<1>1. CASE CheckCap(d) \/ SenderDies(d) \/ DeleteSubject(d) \/ ChangeConnection
  <2>1. UNCHANGED <<status, attempts, queue, posts, pc, ctx, deaths>>
    BY <1>1 DEF CheckCap, SenderDies, DeleteSubject, ChangeConnection
  <2>2. \A e \in Senders : Active(e)' = Active(e)
    BY <2>1 DEF Active, Delivery
  <2>q. QED BY <2>1, <2>2, ChainUntouched DEF PostsInv
<1>2. CASE CreateDelivery(d) \/ SendMessage(d)
  <2>1. sender[d] \in {"checked", "send"} /\ UNCHANGED <<attempts, posts, pc, ctx, deaths>>
    BY <1>2 DEF CreateDelivery, SendMessage
  <2>2. \A e \in Senders : e # d => status'[e] = status[e] /\ queue'[e] = queue[e]
    BY <1>0, <1>2 DEF CreateDelivery, SendMessage, Set, Enqueue, TypeOK
  <2>3. Active(d) = {} /\ Active(d)' = {}
    BY <2>1, NoneActive DEF Active, Delivery
  <2>4. queue[d] = 0
    BY <1>0, <2>1 DEF RowInv
  <2>5. queue'[d] \in {0, 1}
    BY <1>0, <1>2, <2>4 DEF CreateDelivery, SendMessage, Enqueue, TypeOK
  <2>6. status[d] = "none" \/ status'[d] = status[d]
    BY <1>0, <1>2, <2>1 DEF CreateDelivery, SendMessage, RowInv
  <2>7. \A e \in Senders : e # d => Active(e)' = Active(e)
    BY <2>1, <2>2 DEF Active, Delivery
  <2>8. ASSUME NEW e \in Senders, deaths'[e] = 0 PROVE OneChain(e)'
    <3>1. OneChain(e)  BY <2>1, <2>8 DEF PostsInv
    <3>2. CASE e # d
      BY <2>1, <2>2, <2>7, <3>1, <3>2, ChainUntouched
    <3>3. CASE e = d
      BY <2>1, <2>3, <2>5, <2>6, <3>1, <3>3 DEF OneChain
    <3>q. QED BY <3>2, <3>3
  <2>q. QED BY <2>8 DEF PostsInv
<1>q. QED BY <1>1, <1>2 DEF Send

LEMMA TakePosts ==
  ASSUME Base, PostsInv, NEW d \in Senders, NEW w \in Workers, TakeMessage(w, d)
  PROVE  PostsInv'
<1> USE DEF rowVars, confVars, execVars, history
<1>0. TypeOK  BY DEF Base
<1>1. /\ pc[w] = "idle" /\ queue[d] > 0 /\ queue' = [queue EXCEPT ![d] = @ - 1]
      /\ UNCHANGED <<status, attempts, posts, deaths>>
  BY DEF TakeMessage
<1>2. /\ \A v \in Workers : v # w => ctx'[v] = ctx[v] /\ pc'[v] = pc[v]
      /\ IF IsPending(d) THEN pc'[w] = "loaded" /\ ctx'[w].delivery = d /\ ctx'[w].loaded = attempts[d]
         ELSE pc'[w] = "idle"
  <2> DEFINE new == [Nothing EXCEPT !.delivery = d, !.loaded = attempts[d]]
  <2>1. new.delivery = d /\ new.loaded = attempts[d]
    BY NothingTyped DEF Context
  <2>2. IF IsPending(d) THEN pc' = [pc EXCEPT ![w] = "loaded"] /\ ctx' = [ctx EXCEPT ![w] = new]
        ELSE pc' = pc /\ ctx' = ctx
    BY DEF TakeMessage, Goto
  <2> HIDE DEF new
  <2>q. QED BY <1>0, <1>1, <2>1, <2>2 DEF TypeOK
<1>3. ASSUME NEW e \in Senders, deaths'[e] = 0 PROVE OneChain(e)'
  <2>0. OneChain(e) /\ w \notin Active(e)
    BY <1>1, <1>3 DEF PostsInv, Active
  <2>1. CASE e # d \/ ~IsPending(d)
    <3>1. Active(e)' = Active(e)
      BY <1>1, <1>2, <2>1 DEF Active, Delivery
    <3>2. \A v \in Active(e) : pc'[v] = pc[v] /\ ctx'[v] = ctx[v]
      BY <1>2, <2>0 DEF Active
    <3>3. CASE e # d
      <4>1. queue'[e] = queue[e]  BY <1>0, <1>1, <3>3 DEF TypeOK
      <4>q. QED BY <1>1, <2>0, <3>1, <3>2, <4>1, ChainUntouched
    <3>4. CASE e = d /\ ~IsPending(d)
      BY <1>1, <2>0, <3>1, <3>2, <3>4 DEF OneChain, Counted, Requested, IsPending
    <3>q. QED BY <2>1, <3>3, <3>4
  <2>2. CASE e = d /\ IsPending(d)
    <3>1. status[e] = "pending" /\ queue[e] = 1 /\ Active(e) = {} /\ posts[e] = attempts[e]
      BY <1>0, <1>1, <2>0, <2>2 DEF OneChain, IsPending, TypeOK
    <3>2. queue'[e] = 0  BY <1>0, <1>1, <2>2, <3>1 DEF TypeOK
    <3>3. Active(e)' = {w}
      BY <1>1, <1>2, <2>2, <3>1 DEF Active, Delivery
    <3>4. Counted(w, e)'
      BY <1>1, <1>2, <2>2, <3>1 DEF Counted
    <3>q. QED BY <1>1, <2>0, <3>1, <3>2, <3>3, <3>4 DEF OneChain
  <2>q. QED BY <2>1, <2>2
<1>q. QED BY <1>3 DEF PostsInv

LEMMA ExecutionPosts ==
  ASSUME Base, ChancesInv, PostsInv, NEW w \in Workers, Execute(w) \/ Raise(w) \/ WorkerDies(w)
  PROVE  PostsInv'
<1> USE ExecutionTyped DEF rowVars, confVars, execVars, history
<1>0. TypeOK /\ ContextInv /\ RowInv /\ Delivery(w) \in Senders  BY DEF Base
<1>1. PICK d \in Senders : d = Delivery(w)  BY <1>0
<1>2. /\ pc[w] # "idle"
      /\ \A v \in Workers : v # w => ctx'[v] = ctx[v] /\ pc'[v] = pc[v]
      /\ \A e \in Senders : e # d => UNCHANGED <<status[e], attempts[e], queue[e], posts[e], deaths[e]>>
      /\ pc'[w] # "idle" => ctx'[w].delivery = d
  <2>1. CASE CheckTarget(w)  BY <1>1, <2>1, CheckedTarget DEF Delivery
  <2>2. CASE PostRequest(w)
    <3>1. PICK outcome \in {"accepted", "rejected", "error"} : ctx' = [ctx EXCEPT ![w].outcome = outcome]
      BY <2>2 DEF PostRequest
    <3>q. QED BY <1>0, <1>1, <2>2, <3>1 DEF PostRequest, Goto, TypeOK, Delivery, Context
  <2>3. CASE RecordAttempt(w)
    BY <1>0, <1>1, <2>3 DEF RecordAttempt, Goto, Set, TypeOK, Delivery
  <2>4. CASE SendRetry(w)
    BY <1>0, <1>1, <2>4 DEF SendRetry, Resent, Enqueue, Goto, TypeOK, Delivery
  <2>5. CASE FailDelivery(w)
    BY <1>0, <1>1, <2>5 DEF FailDelivery, Set, Goto, TypeOK, Delivery
  <2>6. CASE Acknowledge(w)
    BY <1>0, <1>1, <2>6 DEF Acknowledge, Ack, Goto, TypeOK
  <2>7. CASE Raise(w)
    BY <1>0, <1>1, <2>7 DEF Raise, Goto, TypeOK, Delivery
  <2>8. CASE WorkerDies(w)
    BY <1>0, <1>1, <2>8 DEF WorkerDies, Ack, Goto, Enqueue, TypeOK
  <2>q. QED BY <2>1, <2>2, <2>3, <2>4, <2>5, <2>6, <2>7, <2>8 DEF Execute
<1>3. ASSUME NEW e \in Senders, e # d, deaths'[e] = 0 PROVE OneChain(e)'
  <2>1. OneChain(e) /\ w \notin Active(e)
    BY <1>1, <1>2, <1>3 DEF PostsInv, Active
  <2>2. Active(e)' = Active(e)
    BY <1>1, <1>2, <1>3, <2>1 DEF Active, Delivery
  <2>3. \A v \in Active(e) : pc'[v] = pc[v] /\ ctx'[v] = ctx[v]
    BY <1>2, <2>1 DEF Active
  <2>q. QED BY <1>2, <1>3, <2>1, <2>2, <2>3, ChainUntouched
<1>4. ASSUME deaths'[d] = 0 PROVE OneChain(d)'
  <2>1. deaths[d] = 0
    BY <1>0, <1>4, CheckedTarget
       DEF Execute, PostRequest, RecordAttempt, SendRetry, FailDelivery, Acknowledge, Raise, WorkerDies, TypeOK
  <2>2. OneChain(d)
    BY <2>1 DEF PostsInv
  <2>3. \A v \in Active(d)' : v # w => v \in Active(d) \/ status'[d] # status[d]
    BY <1>2 DEF Active, Delivery
  <2>4. pc[w] \in {"loaded", "post"} \/ (status[d] = "pending" /\ pc[w] \in {"write", "raised", "resend"})
        <=> w \in Active(d)
    BY <1>1 DEF Active
  <2>5. w \in Active(d) => Active(d) = {w} /\ Counted(w, d) /\ queue[d] = 0 /\ status[d] = "pending"
    BY <2>2 DEF OneChain, Counted
  <2>6. attempts[d] \in Nat /\ (status[d] = "pending" => attempts[d] < MaxAttempts)
    BY <1>0 DEF RowInv, TypeOK
  <2> USE DEF OneChain, Counted
  <2>10. CASE CheckTarget(w)
    <3>1. w \in Active(d)  BY <2>4, <2>10, CheckedTarget
    <3>2. Active(d)' \subseteq {w}
      BY <1>2, <2>5, <2>10, <3>1, CheckedTarget DEF Active, Delivery
    <3>3. w \in Active(d)'
      BY <1>1, <2>5, <2>10, <3>1, CheckedTarget DEF Active, Delivery
    <3>4. Counted(w, d)'
      BY <2>5, <2>10, <3>1, CheckedTarget DEF Requested
    <3>q. QED BY <2>2, <2>5, <2>10, <3>1, <3>2, <3>3, <3>4, CheckedTarget
  <2>11. CASE PostRequest(w)
    <3>1. w \in Active(d) /\ pc[w] = "post"  BY <2>4, <2>11 DEF PostRequest
    <3>2. PICK outcome \in {"accepted", "rejected", "error"} : ctx' = [ctx EXCEPT ![w].outcome = outcome]
      BY <2>11 DEF PostRequest
    <3>3. /\ pc'[w] = "write" /\ Requested(w)' /\ ctx'[w].loaded = ctx[w].loaded /\ ctx'[w].delivery = d
          /\ posts'[d] = posts[d] + 1 /\ UNCHANGED <<status, attempts, queue>>
      BY <1>0, <1>1, <2>11, <3>2 DEF PostRequest, Goto, Requested, TypeOK, Context, Delivery
    <3>4. Active(d)' = {w}
      BY <1>2, <2>5, <3>1, <3>3 DEF Active, Delivery
    <3>5. posts[d] = attempts[d]  BY <2>5, <3>1
    <3>6. Counted(w, d)'
      BY <2>5, <3>1, <3>3, <3>5
    <3>q. QED BY <2>5, <2>6, <3>1, <3>3, <3>4, <3>5, <3>6
  <2>12. CASE RecordAttempt(w)
    <3>1. pc[w] = "write" /\ UNCHANGED <<ctx, queue, posts>>  BY <2>12 DEF RecordAttempt
    <3>2. attempts'[d] = IF Requested(w) THEN Attempt(w) ELSE attempts[d]
      BY <1>0, <1>1, <2>12 DEF RecordAttempt, TypeOK
    <3>3. CASE Verdict(w) = "pending"
      <4>1. UNCHANGED status /\ pc'[w] = "resend" /\ ctx[w].outcome = "error"
        BY <1>0, <2>12, <3>3 DEF RecordAttempt, Goto, TypeOK, Verdict
      <4>2. CASE w \in Active(d)
        <5>1. posts[d] = attempts[d] + 1 /\ ctx[w].loaded = attempts[d]
          BY <2>5, <3>1, <4>1, <4>2 DEF Requested
        <5>2. attempts'[d] = posts[d]
          BY <3>2, <4>1, <5>1 DEF Attempt, Requested
        <5>3. Active(d)' = {w}
          BY <1>1, <1>2, <2>5, <3>1, <4>1, <4>2 DEF Active, Delivery
        <5>4. Counted(w, d)'
          BY <2>5, <3>1, <4>1, <4>2, <5>2
        <5>q. QED BY <2>2, <2>5, <3>1, <4>1, <4>2, <5>2, <5>3, <5>4
      <4>3. CASE w \notin Active(d)
        <5>1. status[d] # "pending"  BY <2>4, <3>1, <4>3
        <5>2. Active(d) = {}  BY <2>2, <5>1
        <5>3. Active(d)' = {}
          BY <1>2, <3>1, <4>1, <5>1, <5>2 DEF Active, Delivery
        <5>4. status[d] # "none"  BY <1>0, <1>1, <1>2 DEF ContextInv
        <5>q. QED BY <2>2, <3>1, <4>1, <5>1, <5>3, <5>4
      <4>q. QED BY <4>2, <4>3
    <3>4. CASE Verdict(w) # "pending"
      <4>1. status'[d] \in {"sent", "failed"} /\ pc'[w] = "return"
        BY <1>0, <1>1, <2>12, <3>4 DEF RecordAttempt, Goto, Set, TypeOK, Verdict
      <4>2. Active(d)' = {}
        <5>1. \A v \in Active(d) : v # w => pc[v] \notin {"loaded", "post"}
          <6>1. ASSUME NEW v \in Active(d), v # w PROVE FALSE
            <7>1. status[d] = "pending"  BY <2>2, <6>1
            <7>2. w \in Active(d)  BY <2>4, <3>1, <7>1
            <7>q. QED BY <2>5, <6>1, <7>2
          <6>q. QED BY <6>1
        <5>q. QED BY <1>2, <3>1, <4>1, <5>1 DEF Active, Delivery
      <4>q. QED BY <2>2, <3>1, <4>1, <4>2
    <3>q. QED BY <3>3, <3>4
  <2>13. CASE SendRetry(w)
    <3>1. /\ pc[w] = "resend" /\ pc'[w] = "return" /\ UNCHANGED <<status, attempts, posts, ctx>>
          /\ queue'[d] = queue[d] + 1
      BY <1>0, <1>1, <2>13 DEF SendRetry, Resent, Enqueue, Goto, TypeOK
    <3>2. Active(d)' = Active(d) \ {w}
      BY <1>2, <3>1 DEF Active, Delivery
    <3>3. CASE w \in Active(d)
      BY <2>2, <2>5, <3>1, <3>2, <3>3
    <3>4. CASE w \notin Active(d)
      <4>1. status[d] # "pending"  BY <2>4, <3>1, <3>4
      <4>q. QED BY <2>2, <3>1, <3>2, <4>1
    <3>q. QED BY <3>3, <3>4
  <2>14. CASE FailDelivery(w)
    <3>1. /\ pc[w] = "raised" /\ pc'[w] = "return" /\ UNCHANGED <<attempts, posts, ctx, queue>>
          /\ status'[d] = "failed"
      BY <1>0, <1>1, <2>14 DEF FailDelivery, Set, Goto, TypeOK
    <3>2. Active(d)' = {}
      <4>1. \A v \in Active(d) : v = w
        <5>1. ASSUME NEW v \in Active(d) PROVE v = w
          <6>1. status[d] = "pending"  BY <2>2, <5>1
          <6>2. w \in Active(d)  BY <2>4, <3>1, <6>1
          <6>q. QED BY <2>5, <5>1, <6>2
        <5>q. QED BY <5>1
      <4>q. QED BY <1>2, <3>1, <4>1 DEF Active, Delivery
    <3>q. QED BY <2>2, <3>1, <3>2
  <2>15. CASE Acknowledge(w)
    <3>1. pc[w] = "return" /\ pc'[w] = "idle" /\ UNCHANGED <<status, attempts, posts, queue>>
      BY <1>0, <2>15 DEF Acknowledge, Ack, Goto, TypeOK
    <3>2. Active(d)' = Active(d) /\ w \notin Active(d)
      BY <1>2, <3>1 DEF Active, Delivery
    <3>q. QED BY <1>2, <2>2, <3>1, <3>2, ChainUntouched DEF Active
  <2>16. CASE Raise(w)
    <3>1. /\ pc[w] \in {"loaded", "write", "resend"} /\ pc'[w] = "raised"
          /\ UNCHANGED <<status, attempts, posts, queue, ctx>>
      BY <1>0, <2>16 DEF Raise, Goto, TypeOK
    <3>2. CASE w \in Active(d)
      <4>1. Active(d)' = {w}
        BY <1>1, <1>2, <2>5, <3>1, <3>2 DEF Active, Delivery
      <4>2. Counted(w, d)'
        BY <2>5, <3>1, <3>2 DEF Requested
      <4>q. QED BY <2>2, <2>5, <3>1, <3>2, <4>1, <4>2
    <3>3. CASE w \notin Active(d)
      <4>1. Active(d)' = Active(d)
        BY <1>2, <2>4, <3>1, <3>3 DEF Active, Delivery
      <4>q. QED BY <1>2, <2>2, <3>1, <3>3, <4>1, ChainUntouched DEF Active
    <3>q. QED BY <3>2, <3>3
  <2>17. CASE WorkerDies(w)
    <3>1. /\ pc'[w] = "idle" /\ UNCHANGED <<status, attempts, posts>> /\ queue'[d] = queue[d] + 1
          /\ ~Requested(w) \/ status[d] # "pending"
      BY <1>0, <1>1, <1>4, <2>1, <2>17 DEF WorkerDies, Ack, Goto, Enqueue, Pending, TypeOK
    <3>2. Active(d)' = Active(d) \ {w}
      BY <1>2, <3>1 DEF Active, Delivery
    <3>3. CASE w \in Active(d)
      BY <2>2, <2>5, <3>1, <3>2, <3>3
    <3>4. CASE w \notin Active(d)
      <4>1. status[d] # "pending"
        BY <1>0, <1>1, <1>2, <2>4, <3>1, <3>4 DEF ChancesInv, TypeOK
      <4>q. QED BY <1>0, <1>1, <1>2, <2>2, <3>1, <3>2, <3>4, <4>1 DEF ContextInv
    <3>q. QED BY <3>3, <3>4
  <2>q. QED BY <2>10, <2>11, <2>12, <2>13, <2>14, <2>15, <2>16, <2>17 DEF Execute
<1>q. QED BY <1>3, <1>4 DEF PostsInv

LEMMA NextPosts == Base /\ ChancesInv /\ PostsInv /\ [Next]_vars => PostsInv'
<1>1. Senders # {}  BY ConstantsAssumption
<1>2. PostsInv /\ UNCHANGED vars => PostsInv'
  <2> SUFFICES ASSUME PostsInv, UNCHANGED vars PROVE PostsInv'  OBVIOUS
  <2>1. UNCHANGED <<status, attempts, queue, posts, pc, ctx, deaths>>
    BY DEF vars, rowVars, execVars, history
  <2>2. \A e \in Senders : Active(e)' = Active(e)
    BY <2>1 DEF Active, Delivery
  <2>q. QED BY <2>1, <2>2, ChainUntouched DEF PostsInv
<1>q. QED
  BY <1>1, <1>2, SendersPosts, TakePosts, ExecutionPosts DEF Next, Receive

LEMMA InitPosts == Init => PostsInv
<1> SUFFICES ASSUME Init PROVE PostsInv  OBVIOUS
<1>1. \A d \in Senders : Active(d) = {}
  BY DEF Init, Active
<1>q. QED BY <1>1 DEF Init, PostsInv, OneChain

\* Without such a death there are at most MaxAttempts requests for a delivery,
\* whatever messages are repeated (webhook_tasks.py:37-40, 103-243).
THEOREM RequestsAreBounded == Spec => []PostsBounded
<1>1. PostsInv => PostsBounded
  BY DEF PostsInv, OneChain, PostsBounded
<1>2. Spec => [](Base /\ ChancesInv /\ PostsInv)
  BY InitChances, InitPosts, InitBase, NextBase, NextChances, NextPosts, PTL DEF Spec
<1>q. QED BY <1>1, <1>2, PTL

\* A receiver accepts a delivery once, or once more for each death, and is asked
\* MaxAttempts times at most without one (webhook_tasks.py:76-187).
THEOREM ReceiversAreSpared == Spec => []ReceiverIsSpared
BY AcceptsOnce, RequestsAreBounded, PTL DEF ReceiverIsSpared
=============================================================================
