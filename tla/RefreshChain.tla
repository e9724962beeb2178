---------------------------- MODULE RefreshChain ----------------------------
(***************************************************************************)
(* The schedule of Confluence refreshes: there is no Celery beat, so the   *)
(* task `confluence_refresh_tick` sends itself again                       *)
(* (src/backend/app/workers/refresh_tasks.py).  A worker that becomes      *)
(* ready sends a first message without a token (workers/tasks.py); the     *)
(* execution that wins a Redis lock starts a chain with a token of its     *)
(* own, each later execution renews the lock with that token, and one      *)
(* that cannot stands down.                                                *)
(*                                                                         *)
(* Abstractions.  Time is counted in tick intervals and passes when no     *)
(* execution is under way and no idle worker has a message to take: a tick *)
(* takes seconds, the interval minutes.  A worker has one slot             *)
(* (worker_concurrency is 1 by default) and holds the messages it has      *)
(* reserved until their countdown ends.  The crawl of a run is one step;   *)
(* see ImportRun.                                                          *)
(***************************************************************************)
EXTENDS Naturals, FiniteSets

CONSTANTS
  Workers,    \* worker processes
  Tokens,     \* the uuids that are drawn
  Sources,    \* import sources with refresh_enabled and a finished run
  Ttl,        \* time to live of the lock, in tick intervals
  Broker,     \* holder of a message no worker has reserved
  Lost,       \* holder of a message whose worker was killed
  Nobody,     \* no token; no worker
  Faults,     \* kinds of faults this instance considers
  MaxFaults   \* bound on the number of faults in one behaviour

\* Faults the chain survives, and those after which it may be gone.
Survived   == {"blip", "child", "exception"}
Fatal      == {"first", "worker", "lapse", "unsent", "busy", "recovery"}
FaultKinds == Survived \cup Fatal

ASSUME ConstantsAssumption ==
  /\ IsFiniteSet(Tokens) /\ Nobody \notin Tokens \cup Workers
  /\ Broker \notin Workers /\ Lost \notin Workers /\ Broker # Lost
  /\ Ttl \in Nat \ {0}
  /\ Faults \subseteq FaultKinds /\ MaxFaults \in Nat

VARIABLES
  lock, ttl,      \* value of the lock worker:confluence-refresh:tick-lock, and its expiry
  recovery,       \* holder of the lock worker:recovery:startup-lock
  messages,       \* how many of each message there are
  pc, ctx,        \* the worker processes: where they are, what they hold
  due,            \* sources whose interval has elapsed
  runs, unsent,   \* active runs of each source, and those without a message
  splits,         \* executions that died after they had sent the next tick
  faults, fatal   \* how many faults there were, and whether one may end the chain

lockVars == <<lock, ttl>>
execVars == <<pc, ctx>>
runVars  == <<due, runs, unsent>>
faultVars == <<faults, fatal>>
vars     == <<lockVars, recovery, messages, execVars, runVars, splits, faultVars>>

\* A message has the token as its argument; it is held by the broker, by the
\* worker that has reserved it, or by nobody who lives; and it may have to wait
\* for its countdown.
Args    == Tokens \cup {Nobody}
Message == [arg : Args, holder : Workers \cup {Broker, Lost}, waits : BOOLEAN]

\* The argument of the message an execution took, the token it goes on with,
\* and the sources it has still to look at.
Context == [arg : Args, token : Args, todo : SUBSET Sources, source : Sources]
Empty   == [arg |-> Nobody, token |-> Nobody, todo |-> {}, source |-> CHOOSE s \in Sources : TRUE]

TypeOK ==
  /\ lock \in Args /\ ttl \in 0..Ttl
  /\ recovery \in Workers \cup {Nobody}
  /\ messages \in [Message -> Nat]
  /\ pc \in [Workers -> {"down", "recover", "kick", "idle", "busy", "acquire", "renew",
                         "scan", "start", "sendrun", "next", "retry", "ack"}]
  /\ ctx \in [Workers -> Context]
  /\ due \subseteq Sources
  /\ runs \in [Sources -> Nat] /\ unsent \in [Sources -> Nat]
  /\ splits \in Nat /\ faults \in Nat /\ fatal \in BOOLEAN

Init ==
  /\ lock = Nobody /\ ttl = 0 /\ recovery = Nobody
  /\ messages = [m \in Message |-> 0]
  /\ pc = [w \in Workers |-> "down"] /\ ctx = [w \in Workers |-> Empty]
  /\ due = {} /\ runs = [s \in Sources |-> 0] /\ unsent = [s \in Sources |-> 0]
  /\ splits = 0 /\ faults = 0 /\ fatal = FALSE

-----------------------------------------------------------------------------
(* Helpers                                                                 *)

Fault(kind) ==
  /\ kind \in Faults /\ faults < MaxFaults
  /\ faults' = faults + 1 /\ fatal' = (fatal \/ kind \in Fatal)

Goto(w, p) == pc' = [pc EXCEPT ![w] = p]

NewMessage(a, waits) == [arg |-> a, holder |-> Broker, waits |-> waits]
Send(a, waits) == messages' = [messages EXCEPT ![NewMessage(a, waits)] = @ + 1]

Queued == {m \in Message : messages[m] > 0}

\* An execution that holds its token carries the chain until it has sent the
\* next tick, as a message with the token does.
Carriers(t) == {w \in Workers : ctx[w].token = t /\ pc[w] \in {"scan", "start", "sendrun", "next"}}
Takers(t)   == {w \in Workers : ctx[w].arg = t /\ pc[w] \in {"renew", "retry"}}
Alive(t)    == Carriers(t) \cup Takers(t) # {} \/ \E m \in Queued : m.arg = t /\ m.holder # Lost

\* A uuid nobody has.
Fresh == {t \in Tokens : /\ t # lock
                         /\ \A m \in Queued : m.arg # t
                         /\ \A w \in Workers : t \notin {ctx[w].arg, ctx[w].token}}

-----------------------------------------------------------------------------
(* A worker becomes ready: _recover_jobs_on_worker_ready                   *)

\* Who finds the recovery lock taken returns at once.
Boot(w) ==
  /\ pc[w] = "down"
  /\ IF recovery = Nobody
     THEN recovery' = w /\ Goto(w, "recover")
     ELSE Goto(w, "idle") /\ UNCHANGED recovery
  /\ UNCHANGED <<lockVars, messages, ctx, runVars, splits, faultVars>>

Recover(w) ==
  /\ pc[w] = "recover"
  /\ recovery' = Nobody /\ Goto(w, "kick")
  /\ UNCHANGED <<lockVars, messages, ctx, runVars, splits, faultVars>>

Kick(w) ==
  /\ pc[w] = "kick"
  /\ Send(Nobody, FALSE) /\ Goto(w, "idle")
  /\ UNCHANGED <<lockVars, recovery, ctx, runVars, splits, faultVars>>

\* The lock of a holder that was killed expires.
RecoveryLockExpires ==
  /\ recovery # Nobody /\ pc[recovery] # "recover"
  /\ recovery' = Nobody
  /\ UNCHANGED <<lockVars, messages, execVars, runVars, splits, faultVars>>

-----------------------------------------------------------------------------
(* The broker                                                              *)

\* A worker fetches a message with a countdown and keeps it.
Reserve(w, m) ==
  /\ pc[w] = "idle" /\ m \in Queued /\ m.holder = Broker /\ m.waits
  /\ messages' = [messages EXCEPT ![m] = @ - 1, ![[m EXCEPT !.holder = w]] = @ + 1]
  /\ UNCHANGED <<lockVars, recovery, execVars, runVars, splits, faultVars>>

Ready(w, m) == pc[w] = "idle" /\ m \in Queued /\ m.holder \in {w, Broker} /\ ~m.waits

Take(w, m) ==
  /\ Ready(w, m)
  /\ messages' = [messages EXCEPT ![m] = @ - 1]
  /\ ctx' = [ctx EXCEPT ![w] = [Empty EXCEPT !.arg = m.arg]]
  /\ Goto(w, IF m.arg = Nobody THEN "acquire" ELSE "renew")
  /\ UNCHANGED <<lockVars, recovery, runVars, splits, faultVars>>

\* The visibility timeout of a message whose worker was killed.  It is longer
\* than the lock lives, so that the lock is free or somebody else renewed it.
Restore(m) ==
  /\ m \in Queued /\ m.holder = Lost
  /\ lock = Nobody \/ Alive(lock)
  /\ messages' = [messages EXCEPT ![m] = @ - 1, ![NewMessage(m.arg, FALSE)] = @ + 1]
  /\ UNCHANGED <<lockVars, recovery, execVars, runVars, splits, faultVars>>

\* Messages the worker holds: the one it executes and those it reserved.
Executing(w) == pc[w] \in {"acquire", "renew", "scan", "start", "sendrun", "next", "retry", "ack"}
LoseMessages(w) ==
  [m \in Message |->
     CASE m.holder = w                  -> 0
       [] m.holder = Lost /\ ~m.waits   ->
            messages[m] + messages[[m EXCEPT !.holder = w]]
                        + messages[[m EXCEPT !.holder = w, !.waits = TRUE]]
                        + (IF Executing(w) /\ m.arg = ctx[w].arg THEN 1 ELSE 0)
       [] OTHER                         -> messages[m]]

Quiet == \A w \in Workers :
  /\ pc[w] \in {"idle", "busy", "down"}
  /\ pc[w] = "idle" => \A m \in Queued : m.holder # Broker /\ (m.holder = w => m.waits)

\* One tick interval passes.
TimePasses ==
  /\ Quiet /\ \E w \in Workers : pc[w] # "down"
  /\ ttl' = IF ttl = 0 THEN 0 ELSE ttl - 1
  /\ lock' = IF ttl <= 1 THEN Nobody ELSE lock
  /\ messages' = [m \in Message |-> IF m.waits THEN 0
                                    ELSE messages[m] + messages[[m EXCEPT !.waits = TRUE]]]
  /\ \E D \in SUBSET Sources : due' = due \cup D
  /\ UNCHANGED <<recovery, execVars, runs, unsent, splits, faultVars>>

-----------------------------------------------------------------------------
(* confluence_refresh_tick                                                 *)

StandDown(w) == Goto(w, "ack") /\ UNCHANGED ctx
GoOn(w, t) ==
  /\ Goto(w, "scan")
  /\ ctx' = [ctx EXCEPT ![w] = [@ EXCEPT !.token = t, !.todo = Sources]]

\* SET NX EX.
MayAcquire == lock = Nobody

Acquire(w) ==
  /\ pc[w] = "acquire"
  /\ IF MayAcquire
     THEN \E t \in Fresh : lock' = t /\ ttl' = Ttl /\ GoOn(w, t)
     ELSE StandDown(w) /\ UNCHANGED lockVars
  /\ UNCHANGED <<recovery, messages, runVars, splits, faultVars>>

\* GET, and EXPIRE if it is the token.  Mutant: the token is not compared.
IsHolder_Anybody(w) == TRUE
IsHolder(w) == lock = ctx[w].arg

Extended == Ttl

Renew(w) ==
  /\ pc[w] = "renew"
  /\ IF IsHolder(w)
     THEN GoOn(w, ctx[w].arg) /\ ttl' = Extended
     ELSE StandDown(w) /\ UNCHANGED ttl
  /\ UNCHANGED <<lock, recovery, messages, runVars, splits, faultVars>>

\* Redis fails the acquisition or the renewal: the same message is sent again.
\* It does not help if the lock lapses before the next tick.
Blip(w) ==
  /\ pc[w] \in {"acquire", "renew"}
  /\ Fault(IF pc[w] = "renew" /\ ttl <= 1 THEN "lapse" ELSE "blip")
  /\ Goto(w, "retry")
  /\ UNCHANGED <<lockVars, recovery, messages, ctx, runVars, splits>>

\* Mutant: the return after the send is missing.
AfterRetry_GoesOn(w) == GoOn(w, ctx[w].arg)
AfterRetry(w) == StandDown(w)

SendSame(w) ==
  /\ pc[w] = "retry"
  /\ Send(ctx[w].arg, TRUE) /\ AfterRetry(w)
  /\ UNCHANGED <<lockVars, recovery, runVars, splits, faultVars>>

\* Mutants: an active run is no reason not to start another one; a run that
\* ended counts as active.
HasActiveRun_Never(s) == FALSE
HasActiveRun_Ended(s) == TRUE
HasActiveRun(s) == runs[s] > 0

Skip(w, s) == [ctx EXCEPT ![w].todo = @ \ {s}]

CheckSource(w) ==
  /\ pc[w] = "scan"
  /\ \E s \in ctx[w].todo :
       IF s \in due /\ ~HasActiveRun(s)
       THEN Goto(w, "start") /\ ctx' = [ctx EXCEPT ![w].source = s]
       ELSE ctx' = Skip(w, s) /\ UNCHANGED pc
  /\ UNCHANGED <<lockVars, recovery, messages, runVars, splits, faultVars>>

EndScan(w) ==
  /\ pc[w] = "scan" /\ ctx[w].todo = {}
  /\ Goto(w, "next")
  /\ UNCHANGED <<lockVars, recovery, messages, ctx, runVars, splits, faultVars>>

StartRun(w) ==
  /\ pc[w] = "start"
  /\ runs' = [runs EXCEPT ![ctx[w].source] = @ + 1]
  /\ unsent' = [unsent EXCEPT ![ctx[w].source] = @ + 1]
  /\ Goto(w, "sendrun")
  /\ UNCHANGED <<lockVars, recovery, messages, ctx, due, splits, faultVars>>

SendRun(w) ==
  /\ pc[w] = "sendrun"
  /\ unsent' = [unsent EXCEPT ![ctx[w].source] = @ - 1]
  /\ ctx' = Skip(w, ctx[w].source) /\ Goto(w, "scan")
  /\ UNCHANGED <<lockVars, recovery, messages, due, runs, splits, faultVars>>

\* An exception in the start of a run, the send included, goes to the next
\* source; one elsewhere ends the scan.
StartFails(w) ==
  /\ pc[w] \in {"start", "sendrun"} /\ Fault("exception")
  /\ ctx' = Skip(w, ctx[w].source) /\ Goto(w, "scan")
  /\ UNCHANGED <<lockVars, recovery, messages, runVars, splits>>

ScanFails(w) ==
  /\ pc[w] = "scan" /\ Fault("exception")
  /\ Goto(w, "next")
  /\ UNCHANGED <<lockVars, recovery, messages, ctx, runVars, splits>>

\* Mutant: the next tick is sent without the token.
NextArg_NoToken(w) == Nobody
NextArg(w) == ctx[w].token

SendNext(w) ==
  /\ pc[w] = "next"
  /\ Send(NextArg(w), TRUE) /\ Goto(w, "ack")
  /\ UNCHANGED <<lockVars, recovery, ctx, runVars, splits, faultVars>>

\* The send in the finally block fails: the task raised, its message is
\* acknowledged.
SendNextFails(w) ==
  /\ pc[w] = "next" /\ Fault("unsent")
  /\ Goto(w, "ack")
  /\ UNCHANGED <<lockVars, recovery, messages, ctx, runVars, splits>>

Acknowledge(w) ==
  /\ pc[w] = "ack"
  /\ Goto(w, "idle") /\ ctx' = [ctx EXCEPT ![w] = Empty]
  /\ UNCHANGED <<lockVars, recovery, messages, runVars, splits, faultVars>>

-----------------------------------------------------------------------------
(* Deaths, and what else the workers do                                    *)

\* The process of an execution dies: its message is redelivered at once.
ChildDies(w) ==
  /\ Executing(w) /\ Fault(IF ctx[w].arg = Nobody THEN "first" ELSE "child")
  /\ Send(ctx[w].arg, FALSE)
  /\ splits' = IF pc[w] = "ack" /\ ctx[w].arg # Nobody THEN splits + 1 ELSE splits
  /\ Goto(w, "idle") /\ ctx' = [ctx EXCEPT ![w] = Empty]
  /\ UNCHANGED <<lockVars, recovery, runVars>>

\* The container is killed: its messages come back after the visibility timeout.
WorkerKilled(w) ==
  /\ pc[w] # "down" /\ Fault(IF pc[w] = "recover" THEN "recovery" ELSE "worker")
  /\ messages' = LoseMessages(w)
  /\ splits' = IF pc[w] = "ack" /\ ctx[w].arg # Nobody THEN splits + 1 ELSE splits
  /\ Goto(w, "down") /\ ctx' = [ctx EXCEPT ![w] = Empty]
  /\ UNCHANGED <<lockVars, recovery, runVars>>

\* A conversion or a chunk of a crawl takes the only slot of a worker for
\* several tick intervals (celery_task_time_limit_seconds).
LongTask(w) ==
  /\ pc[w] = "idle" /\ Fault("busy")
  /\ Goto(w, "busy")
  /\ UNCHANGED <<lockVars, recovery, messages, ctx, runVars, splits>>

LongTaskEnds(w) ==
  /\ pc[w] = "busy" /\ Goto(w, "idle")
  /\ UNCHANGED <<lockVars, recovery, messages, ctx, runVars, splits, faultVars>>

\* A run ends; only one that finished moves last_refresh_at.
RunEnds(s) ==
  /\ runs[s] > unsent[s]
  /\ runs' = [runs EXCEPT ![s] = @ - 1]
  /\ \E done \in BOOLEAN : due' = IF done THEN due \ {s} ELSE due
  /\ UNCHANGED <<lockVars, recovery, messages, execVars, unsent, splits, faultVars>>

-----------------------------------------------------------------------------
(* The specification                                                       *)

Tick(w) == \/ \E m \in Message : Take(w, m)
           \/ Acquire(w) \/ Renew(w) \/ SendSame(w)
           \/ CheckSource(w) \/ EndScan(w) \/ StartRun(w) \/ SendRun(w)
           \/ SendNext(w) \/ Acknowledge(w)
Start(w) == Boot(w) \/ Recover(w) \/ Kick(w)
Fail(w)  == \/ Blip(w) \/ StartFails(w) \/ ScanFails(w) \/ SendNextFails(w)
            \/ ChildDies(w) \/ WorkerKilled(w) \/ LongTask(w)

Next ==
  \/ \E w \in Workers : Start(w) \/ Tick(w) \/ Fail(w) \/ LongTaskEnds(w)
  \/ \E w \in Workers, m \in Message : Reserve(w, m)
  \/ \E m \in Message : Restore(m)
  \/ \E s \in Sources : RunEnds(s)
  \/ RecoveryLockExpires \/ TimePasses

Spec == Init /\ [][Next]_vars

\* Workers are restarted, messages are taken, tasks and runs end, time goes on.
FairSpec ==
  /\ Spec
  /\ \A w \in Workers : WF_vars(Start(w)) /\ WF_vars(Tick(w)) /\ WF_vars(LongTaskEnds(w))
  /\ WF_vars(\E w \in Workers, m \in Message : Reserve(w, m))
  /\ SF_vars(\E m \in Message : Restore(m))
  /\ \A s \in Sources : WF_vars(RunEnds(s))
  /\ WF_vars(RecoveryLockExpires) /\ WF_vars(TimePasses)

-----------------------------------------------------------------------------
(* Properties                                                              *)

Scanning(w) == pc[w] \in {"scan", "start", "sendrun", "next"}

\* What goes on with a token: an execution, or one of the messages.
Links(t) == {<<w, 0>> : w \in Carriers(t) \cup Takers(t)}
            \cup UNION {{m} \X (1..messages[m]) : m \in {n \in Queued : n.arg = t}}

\* Whatever is redelivered, however many workers start at once and whenever
\* they restart, there is one chain: a token has one link that goes on, and one
\* more only for each execution that died after it had sent the next tick (the
\* redelivered message has the same token, and both renew the lock for ever).
OneChain == \A t \in Tokens : Cardinality(Links(t)) <= 1 + splits

\* Who looks for due sources holds the lock: of two chains, the one that lost
\* the lock never starts a run.
LeaderScans == \A w \in Workers : Scanning(w) => ctx[w].token = lock

\* A source has at most one active refresh run, if no chain was split.
NoDoubleRun == \A s \in Sources : splits = 0 => runs[s] <= 1

\* Whoever starts runs is alone in it, though it checks and inserts in separate
\* steps (_dispatch_due_refreshes).
StartsAlone == LeaderScans /\ NoDoubleRun

\* The schedule never stops: after a failure of Redis, an exception, or the
\* death of a process in a later tick, there is again an execution that looks
\* for due sources.
KeepsTicking == []<>(fatal \/ \E w \in Workers : pc[w] = "scan")

\* A due source gets a run.
RefreshStarted == \A s \in Sources : s \in due ~> (fatal \/ runs[s] > 0 \/ s \notin due)

\* The schedule goes on and does its work (confluence_refresh_tick).
KeepsRefreshing == KeepsTicking /\ RefreshStarted

\* The same without exception.  refresh_tasks.py:78-82: "a healthy chain's own
\* next renewal always lands well before expiry"; 261-264: redelivery "is exactly
\* what keeps the chain alive" across "a hard worker kill mid-tick"; tasks.py
\* 231-233: "the refresh chain must be revived by ANY future restart".
AlwaysTicks == []<>(\E w \in Workers : pc[w] = "scan")
=============================================================================
