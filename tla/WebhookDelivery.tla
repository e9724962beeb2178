-------------------------- MODULE WebhookDelivery --------------------------
(***************************************************************************)
(* Webhook deliveries of one user: the completion hooks and the request    *)
(* POST /webhooks/send that create them, and the Celery task               *)
(* `deliver_webhook` that posts them with retries                          *)
(* (src/backend/app/workers/webhook_tasks.py, api/webhook_routes.py).      *)
(*                                                                         *)
(* A delivery has no claim: it is pending until an execution makes it sent *)
(* or failed, and every message for it starts an execution.  Retries are   *)
(* new messages the execution sends itself.                                *)
(*                                                                         *)
(* Abstractions.  A sender creates at most one delivery, so both have one  *)
(* name.  All deliveries use one connection, and each has a subject of its *)
(* own (a job or a run).  The backoff of a retry is left open: a message   *)
(* may be taken at any time.                                               *)
(***************************************************************************)
EXTENDS Naturals, FiniteSets

CONSTANTS
  Senders,      \* completion hooks and requests, and the deliveries they create
  Workers,      \* worker processes
  MaxAttempts,  \* _MAX_ATTEMPTS
  Cap,          \* settings.webhook_max_pending_deliveries_per_user
  Faults,       \* kinds of faults this instance considers
  MaxFaults     \* bound on the number of faults in one behaviour

FaultKinds == {"worker", "sender", "exception", "configuration"}

ASSUME ConstantsAssumption ==
  /\ IsFiniteSet(Senders) /\ Senders # {} /\ IsFiniteSet(Workers)
  /\ MaxAttempts \in Nat \ {0} /\ Cap \in Nat \ {0}
  /\ Faults \subseteq FaultKinds /\ MaxFaults \in Nat

VARIABLES
  status, attempts,  \* the webhook_deliveries rows
  connection,        \* the connection they were configured with
  deleted,           \* subjects that were deleted
  sender,            \* where each sender is
  pc, ctx,           \* executions of deliver_webhook: where, and what they hold
  queue,             \* queued messages of each delivery
  posts, accepted,   \* what the receiver saw: requests, and those it accepted
  deaths,            \* executions that died with their request made, the delivery pending
  faults

rowVars  == <<status, attempts>>
confVars == <<connection, deleted>>
execVars == <<pc, ctx>>
history  == <<posts, accepted, deaths>>
vars     == <<rowVars, confVars, sender, execVars, queue, history, faults>>

\* What an execution loaded, and how the request it made ended.
Outcomes == {"none", "accepted", "rejected", "error", "invalid"}
Context  == [delivery : Senders, loaded : Nat, outcome : Outcomes]
Nothing  == [delivery |-> CHOOSE d \in Senders : TRUE, loaded |-> 0, outcome |-> "none"]

TypeOK ==
  /\ status \in [Senders -> {"none", "pending", "sent", "failed"}]
  /\ attempts \in [Senders -> 0..MaxAttempts]
  /\ connection \in {"enabled", "disabled", "deleted"}
  /\ deleted \subseteq Senders
  /\ sender \in [Senders -> {"start", "checked", "send", "done", "dead"}]
  /\ pc \in [Workers -> {"idle", "loaded", "post", "write", "resend", "raised", "return"}]
  /\ ctx \in [Workers -> Context]
  /\ queue \in [Senders -> Nat]
  /\ posts \in [Senders -> Nat] /\ accepted \in [Senders -> Nat]
  /\ deaths \in [Senders -> Nat]
  /\ faults \in Nat

Init ==
  /\ status = [d \in Senders |-> "none"] /\ attempts = [d \in Senders |-> 0]
  /\ connection = "enabled" /\ deleted = {}
  /\ sender = [d \in Senders |-> "start"]
  /\ pc = [w \in Workers |-> "idle"] /\ ctx = [w \in Workers |-> Nothing]
  /\ queue = [d \in Senders |-> 0]
  /\ posts = [d \in Senders |-> 0] /\ accepted = [d \in Senders |-> 0]
  /\ deaths = [d \in Senders |-> 0]
  /\ faults = 0

-----------------------------------------------------------------------------
(* Helpers                                                                 *)

Fault(kind) ==
  /\ kind \in Faults /\ faults < MaxFaults
  /\ faults' = faults + 1

Pending       == {d \in Senders : status[d] = "pending"}
Enqueue(d)    == queue' = [queue EXCEPT ![d] = @ + 1]
Goto(w, p)    == pc' = [pc EXCEPT ![w] = p]
Ack(w)        == Goto(w, "idle") /\ ctx' = [ctx EXCEPT ![w] = Nothing]
Delivery(w)   == ctx[w].delivery
Requested(w)  == ctx[w].outcome \in {"accepted", "rejected", "error"}
Set(d, value) == status' = [status EXCEPT ![d] = value]

-----------------------------------------------------------------------------
(* Senders: _dispatch and send_webhook                                     *)

\* Nothing is created for a disabled connection, or above the cap.
BelowCap == Cardinality(Pending) < Cap

CheckCap(d) ==
  /\ sender[d] = "start"
  /\ sender' = [sender EXCEPT ![d] = IF connection = "enabled" /\ d \notin deleted /\ BelowCap
                                     THEN "checked" ELSE "done"]
  /\ UNCHANGED <<rowVars, confVars, execVars, queue, history, faults>>

\* The INSERT raises if a row the delivery refers to is gone by now.
CreateDelivery(d) ==
  /\ sender[d] = "checked"
  /\ IF connection # "deleted" /\ d \notin deleted
     THEN Set(d, "pending") /\ sender' = [sender EXCEPT ![d] = "send"]
     ELSE sender' = [sender EXCEPT ![d] = "done"] /\ UNCHANGED status
  /\ UNCHANGED <<attempts, confVars, execVars, queue, history, faults>>

SendMessage(d) ==
  /\ sender[d] = "send"
  /\ Enqueue(d)
  /\ sender' = [sender EXCEPT ![d] = "done"]
  /\ UNCHANGED <<rowVars, confVars, execVars, history, faults>>

SenderDies(d) ==
  /\ sender[d] \in {"checked", "send"} /\ Fault("sender")
  /\ sender' = [sender EXCEPT ![d] = "dead"]
  /\ UNCHANGED <<rowVars, confVars, execVars, queue, history>>

-----------------------------------------------------------------------------
(* deliver_webhook                                                         *)

\* Mutants: a delivery that is not pending any more is delivered again; only a
\* delivery without an attempt counts as pending.
IsPending_Always(d)    == TRUE
IsPending_Untouched(d) == status[d] = "pending" /\ attempts[d] = 0
IsPending(d) == status[d] = "pending"

TakeMessage(w, d) ==
  /\ pc[w] = "idle" /\ queue[d] > 0
  /\ queue' = [queue EXCEPT ![d] = @ - 1]
  /\ IF IsPending(d)
     THEN /\ Goto(w, "loaded")
          /\ ctx' = [ctx EXCEPT ![w] = [Nothing EXCEPT !.delivery = d, !.loaded = attempts[d]]]
     ELSE UNCHANGED execVars
  /\ UNCHANGED <<rowVars, confVars, sender, history, faults>>

\* A connection or subject that cannot be used ends the delivery.
CheckTarget(w) ==
  /\ pc[w] = "loaded"
  /\ IF connection = "enabled" /\ Delivery(w) \notin deleted
     THEN Goto(w, "post") /\ UNCHANGED ctx
     ELSE Goto(w, "write") /\ ctx' = [ctx EXCEPT ![w].outcome = "invalid"]
  /\ UNCHANGED <<rowVars, confVars, sender, queue, history, faults>>

\* The receiver accepts (2xx), rejects for good (4xx), or there is an error
\* that may go away (5xx, redirects, transport).
PostRequest(w) ==
  /\ pc[w] = "post"
  /\ posts' = [posts EXCEPT ![Delivery(w)] = @ + 1]
  /\ \E outcome \in {"accepted", "rejected", "error"} :
       /\ ctx' = [ctx EXCEPT ![w].outcome = outcome]
       /\ accepted' = IF outcome = "accepted" THEN [accepted EXCEPT ![Delivery(w)] = @ + 1]
                      ELSE accepted
  /\ Goto(w, "write")
  /\ UNCHANGED <<rowVars, confVars, sender, queue, deaths, faults>>

\* The attempt that is being counted.  Mutant: retries are not counted.
Attempt_NotCounted(w) == 1
Attempt(w) == ctx[w].loaded + 1

\* Mutant: retries go on for ever.
Exhausted_Never(w) == FALSE
Exhausted(w) == Attempt(w) >= MaxAttempts

\* The end of a delivery after this execution, "pending" if it is retried.
\* Mutant: an error that cannot be retried any more counts as accepted.
Verdict_ErrorIsSent(w) ==
  IF ctx[w].outcome = "error" /\ ~Exhausted(w) THEN "pending"
  ELSE IF Requested(w) /\ ctx[w].outcome # "rejected" THEN "sent" ELSE "failed"
Verdict(w) ==
  CASE ctx[w].outcome = "accepted"                   -> "sent"
    [] ctx[w].outcome = "error" /\ ~Exhausted(w)     -> "pending"
    [] OTHER                                         -> "failed"

\* The commit writes the columns whose value is not the loaded one: status only
\* if the delivery ends, attempts only if there was a request.
RecordAttempt(w) ==
  /\ pc[w] = "write"
  /\ attempts' = IF Requested(w) THEN [attempts EXCEPT ![Delivery(w)] = Attempt(w)]
                 ELSE attempts
  /\ IF Verdict(w) = "pending"
     THEN Goto(w, "resend") /\ UNCHANGED status
     ELSE Goto(w, "return") /\ Set(Delivery(w), Verdict(w))
  /\ UNCHANGED <<confVars, sender, ctx, queue, history, faults>>

\* Mutant: the retry is not sent.
Resent_Forgotten(d) == UNCHANGED queue
Resent(d) == Enqueue(d)

SendRetry(w) ==
  /\ pc[w] = "resend"
  /\ Resent(Delivery(w)) /\ Goto(w, "return")
  /\ UNCHANGED <<rowVars, confVars, sender, ctx, history, faults>>

\* Any exception, the send of the retry included: the delivery fails, as it is.
Raise(w) ==
  /\ pc[w] \in {"loaded", "write", "resend"} /\ Fault("exception")
  /\ Goto(w, "raised")
  /\ UNCHANGED <<rowVars, confVars, sender, ctx, queue, history>>

FailDelivery(w) ==
  /\ pc[w] = "raised"
  /\ Set(Delivery(w), "failed") /\ Goto(w, "return")
  /\ UNCHANGED <<attempts, confVars, sender, ctx, queue, history, faults>>

\* The task returned: its message is acknowledged (acks_late).
Acknowledge(w) ==
  /\ pc[w] = "return" /\ Ack(w)
  /\ UNCHANGED <<rowVars, confVars, sender, queue, history, faults>>

\* The message of an execution that dies is delivered again.
WorkerDies(w) ==
  /\ pc[w] # "idle" /\ Fault("worker")
  /\ Enqueue(Delivery(w))
  /\ deaths' = IF Requested(w) /\ Delivery(w) \in Pending
               THEN [deaths EXCEPT ![Delivery(w)] = @ + 1] ELSE deaths
  /\ Ack(w)
  /\ UNCHANGED <<rowVars, confVars, sender, posts, accepted>>

-----------------------------------------------------------------------------
(* What the user does meanwhile                                            *)

ChangeConnection ==
  /\ connection # "deleted" /\ Fault("configuration")
  /\ connection' \in {"enabled", "disabled", "deleted"} \ {connection}
  /\ UNCHANGED <<rowVars, deleted, sender, execVars, queue, history>>

DeleteSubject(d) ==
  /\ d \notin deleted /\ Fault("configuration")
  /\ deleted' = deleted \cup {d}
  /\ UNCHANGED <<rowVars, connection, sender, execVars, queue, history>>

-----------------------------------------------------------------------------
(* The specification                                                       *)

Send(d)    == CheckCap(d) \/ CreateDelivery(d) \/ SendMessage(d)
Receive(d) == \E w \in Workers : TakeMessage(w, d)
Execute(w) == \/ CheckTarget(w) \/ PostRequest(w) \/ RecordAttempt(w) \/ SendRetry(w)
              \/ FailDelivery(w) \/ Acknowledge(w)

Next ==
  \/ \E d \in Senders : Send(d) \/ Receive(d) \/ SenderDies(d) \/ DeleteSubject(d)
  \/ \E w \in Workers : Execute(w) \/ Raise(w) \/ WorkerDies(w)
  \/ ChangeConnection

Spec == Init /\ [][Next]_vars

\* Messages are taken in order, so none is overtaken for ever; an execution
\* goes on, the request it makes has a timeout.
FairSpec ==
  /\ Spec
  /\ \A d \in Senders : WF_vars(Send(d)) /\ SF_vars(Receive(d))
  /\ \A w \in Workers : WF_vars(Execute(w))

-----------------------------------------------------------------------------
(* Properties                                                              *)

Executing(d) == {w \in Workers : pc[w] # "idle" /\ Delivery(w) = d}

\* A pending delivery, which counts against the cap of its owner, has a message
\* or somebody who is about to send one; only the death of its sender between
\* the commit and the send strands it.
PendingIsQueued ==
  \A d \in Pending : queue[d] > 0 \/ Executing(d) # {} \/ sender[d] \in {"send", "dead"}

\* A delivery is shown as sent only if the receiver accepted a request for it.
SentWasAccepted == \A d \in Senders : status[d] = "sent" => accepted[d] > 0

\* The receiver accepts an event once, and again only if an execution died
\* between its request and the record of it: no retry and no repeated message
\* makes it accept an event twice.
AcceptedOnce == \A d \in Senders : accepted[d] <= 1 + deaths[d]

\* There are at most MaxAttempts requests for a delivery, whatever messages are
\* repeated.  After such a death there may be more: the redelivered message and
\* the retry are two chains, which overwrite each other's count.
PostsBounded == \A d \in Senders : deaths[d] = 0 => posts[d] <= MaxAttempts

\* What a receiver sees of one delivery, however its chains of messages overlap
\* (deliver_webhook makes no claim before it posts).
ReceiverIsSpared == AcceptedOnce /\ PostsBounded

\* A delivery that was queued is sent or failed at last, also if executions die.
EventuallyDelivered ==
  \A d \in Senders : status[d] = "pending" /\ sender[d] = "done" ~> status[d] \in {"sent", "failed"}
=============================================================================
