--------------------------- MODULE RefreshProofs ---------------------------
(***************************************************************************)
(* Who looks for due sources is alone: it holds the lock, and unless a     *)
(* chain was split it is the only one of its chain, so that a source never *)
(* gets a second run though the check and the insertion are separate steps *)
(* (confluence_refresh_tick, _dispatch_due_refreshes).                     *)
(*                                                                         *)
(* LeaderScans rests on the lock alone. That one execution scans needs the *)
(* chain as well: of each token there is one link, a message or an         *)
(* execution, and one more for each split. Every step of a worker or of    *)
(* the broker replaces a link, drops one, or splits; where messages are    *)
(* merged, an injection counts them (TimeLinks, LostLinks).                *)
(***************************************************************************)
EXTENDS RefreshChain, FiniteSetTheorems, TLAPS

\* Types, as far as the argument needs them.
Held == [arg : Args, token : Args, todo : SUBSET Sources, source : Sources \cup {Empty.source}]

Shape ==
  /\ lock \in Args
  /\ messages \in [Message -> Nat]
  /\ pc \in [Workers -> {"down", "recover", "kick", "idle", "busy", "acquire", "renew",
                         "scan", "start", "sendrun", "next", "retry", "ack"}]
  /\ ctx \in [Workers -> Held]
  /\ runs \in [Sources -> Int]
  /\ splits \in Nat

\* What an execution may rely on at each point: the lock is its own while it
\* scans, and a token that came with its message is the one it goes on with.
Fit(w) ==
  /\ pc[w] = "acquire" => ctx[w].arg = Nobody
  /\ pc[w] = "renew" => ctx[w].arg \in Tokens
  /\ pc[w] \in {"start", "sendrun"} => ctx[w].source \in Sources
  /\ Scanning(w) => /\ ctx[w].token = lock /\ lock \in Tokens
                    /\ ctx[w].arg \in Tokens => ctx[w].arg = lock

Fits == \A w \in Workers : Fit(w)

\* The execution w goes on with the token t.
Goes(w, t) ==
  \/ Scanning(w) /\ ctx[w].token = t
  \/ pc[w] \in {"renew", "retry"} /\ ctx[w].arg = t

\* There are no more links than the splits allow.
Bounded(t) == IsFiniteSet(Links(t)) /\ Cardinality(Links(t)) <= 1 + splits

ChainInv == \A t \in Tokens : Bounded(t)

\* Nobody starts a run of the source that the scanning execution has looked at.
RunInv ==
  splits = 0 =>
    /\ \A s \in Sources : runs[s] <= 1
    /\ \A w \in Workers : pc[w] = "start" => runs[ctx[w].source] <= 0

AloneInv == Shape /\ Fits /\ ChainInv /\ RunInv

-----------------------------------------------------------------------------
(* Data                                                                    *)

LEMMA MessageParts ==
  ASSUME NEW m \in Message
  PROVE  /\ m.arg \in Args /\ m.holder \in Workers \cup {Broker, Lost} /\ m.waits \in BOOLEAN
         /\ [m EXCEPT !.waits = TRUE] \in Message
         /\ [m EXCEPT !.waits = TRUE].arg = m.arg
         /\ [m EXCEPT !.waits = TRUE].waits = TRUE
  BY DEF Message

LEMMA HeldBy ==
  ASSUME NEW m \in Message, NEW w \in Workers
  PROVE  /\ [m EXCEPT !.holder = w] \in Message
         /\ [m EXCEPT !.holder = w].arg = m.arg
         /\ [m EXCEPT !.holder = w].holder = w
         /\ [m EXCEPT !.holder = w, !.waits = TRUE] \in Message
         /\ [m EXCEPT !.holder = w, !.waits = TRUE].arg = m.arg
         /\ [m EXCEPT !.holder = w, !.waits = TRUE].holder = w
         /\ [m EXCEPT !.holder = w, !.waits = TRUE].waits = TRUE
  BY DEF Message

LEMMA NewMessageParts ==
  ASSUME NEW a \in Args, NEW b \in BOOLEAN
  PROVE  NewMessage(a, b) \in Message /\ NewMessage(a, b).arg = a
  BY DEF Message, NewMessage

LEMMA EmptyParts ==
  Empty \in Held /\ Empty.arg = Nobody /\ Empty.token = Nobody
  BY DEF Empty, Held, Args

-----------------------------------------------------------------------------
(* Types                                                                   *)

LEMMA InitShape == Init => Shape
  BY EmptyParts DEF Init, Shape, Args

LEMMA SendShape ==
  ASSUME Shape, NEW a \in Args, NEW b \in BOOLEAN, Send(a, b)
  PROVE  messages' \in [Message -> Nat]
  BY NewMessageParts DEF Send, Shape

LEMMA HeldParts ==
  ASSUME Shape, NEW w \in Workers
  PROVE  ctx[w] \in Held /\ ctx[w].arg \in Args /\ ctx[w].token \in Args
  BY DEF Shape, Held

LEMMA LoseShape ==
  ASSUME Shape, NEW w \in Workers
  PROVE  LoseMessages(w) \in [Message -> Nat]
<1> SUFFICES ASSUME NEW m \in Message PROVE LoseMessages(w)[m] \in Nat
  BY DEF LoseMessages
<1>1. messages[m] \in Nat /\ messages[[m EXCEPT !.holder = w]] \in Nat
      /\ messages[[m EXCEPT !.holder = w, !.waits = TRUE]] \in Nat
  <2>1. [m EXCEPT !.holder = w] \in Message /\ [m EXCEPT !.holder = w, !.waits = TRUE] \in Message
    BY HeldBy
  <2>q. QED BY <2>1 DEF Shape
<1>q. QED BY <1>1 DEF LoseMessages

\* A message goes from one holder to another.
Moved(m, n) ==
  /\ m \in Message /\ n \in Message /\ m # n /\ n.arg = m.arg
  /\ messages[m] > 0
  /\ messages' = [messages EXCEPT ![m] = @ - 1, ![n] = @ + 1]

LEMMA MovedShape ==
  ASSUME Shape, NEW m \in Message, NEW n \in Message, Moved(m, n)
  PROVE  messages' \in [Message -> Nat]
<1>1. messages \in [Message -> Nat] /\ messages[m] - 1 \in Nat /\ messages[n] + 1 \in Nat
  BY DEF Shape, Moved
<1>q. QED BY <1>1 DEF Moved

LEMMA ReserveMoves ==
  ASSUME Shape, NEW w \in Workers, NEW m \in Message, Reserve(w, m)
  PROVE  Moved(m, [m EXCEPT !.holder = w]) /\ messages' \in [Message -> Nat]
<1>1. [m EXCEPT !.holder = w] \in Message /\ [m EXCEPT !.holder = w].arg = m.arg
      /\ [m EXCEPT !.holder = w].holder = w
  BY HeldBy
<1>2. m.holder = Broker /\ Broker # w
  BY ConstantsAssumption DEF Reserve
<1>3. Moved(m, [m EXCEPT !.holder = w])
  BY <1>1, <1>2 DEF Moved, Reserve, Queued
<1>q. QED BY <1>1, <1>3, MovedShape

LEMMA RestoreMoves ==
  ASSUME Shape, NEW m \in Message, Restore(m)
  PROVE  Moved(m, NewMessage(m.arg, FALSE)) /\ messages' \in [Message -> Nat]
<1>1. m.arg \in Args
  BY MessageParts
<1>2. NewMessage(m.arg, FALSE) \in Message /\ NewMessage(m.arg, FALSE).arg = m.arg
      /\ NewMessage(m.arg, FALSE).holder = Broker
  BY <1>1 DEF NewMessage, Message
<1>3. m.holder = Lost /\ Lost # Broker
  BY ConstantsAssumption DEF Restore
<1>4. Moved(m, NewMessage(m.arg, FALSE))
  BY <1>2, <1>3 DEF Moved, Restore, Queued
<1>q. QED BY <1>2, <1>4, MovedShape

LEMMA StepShape == Shape /\ [Next]_vars => Shape'
<1> SUFFICES ASSUME Shape, [Next]_vars PROVE Shape'
  OBVIOUS
<1> USE DEF Shape, Goto, lockVars, execVars, runVars, faultVars
<1>1. ASSUME NEW w \in Workers, Start(w) \/ LongTaskEnds(w) PROVE Shape'
  <2>1. CASE Kick(w)
    BY <2>1, SendShape DEF Kick, Args
  <2>q. QED BY <1>1, <2>1 DEF Start, Boot, Recover, LongTaskEnds
<1>2. ASSUME NEW w \in Workers, Tick(w) PROVE Shape'
  <2>0. ctx[w] \in Held /\ ctx[w].arg \in Args /\ ctx[w].token \in Args
    BY HeldParts
  <2>1. ASSUME NEW m \in Message, Take(w, m) PROVE Shape'
    <3>1. messages' \in [Message -> Nat]
      BY <2>1 DEF Take, Ready, Queued
    <3>2. [Empty EXCEPT !.arg = m.arg] \in Held
      BY EmptyParts, MessageParts DEF Held
    <3>q. QED BY <2>1, <3>1, <3>2 DEF Take
  <2>2. CASE Acquire(w)
    <3>1. ASSUME NEW t \in Fresh PROVE [ctx[w] EXCEPT !.token = t, !.todo = Sources] \in Held
      BY <3>1, <2>0 DEF Fresh, Held, Args
    <3>2. \A t \in Fresh : t \in Args
      BY DEF Fresh, Args
    <3>q. QED BY <2>2, <3>1, <3>2 DEF Acquire, GoOn, StandDown
  <2>3. CASE Renew(w)
    <3>1. [ctx[w] EXCEPT !.token = ctx[w].arg, !.todo = Sources] \in Held
      BY <2>0 DEF Held
    <3>q. QED BY <2>3, <3>1 DEF Renew, GoOn, StandDown
  <2>4. CASE SendSame(w)
    BY <2>4, <2>0, SendShape DEF SendSame, AfterRetry, StandDown
  <2>5. CASE CheckSource(w)
    <3>1. ASSUME NEW s \in ctx[w].todo PROVE [ctx[w] EXCEPT !.source = s] \in Held /\ [ctx[w] EXCEPT !.todo = @ \ {s}] \in Held
      BY <3>1, <2>0 DEF Held
    <3>q. QED BY <2>5, <3>1 DEF CheckSource, Skip
  <2>6. CASE StartRun(w) \/ EndScan(w)
    BY <2>6 DEF StartRun, EndScan
  <2>7. CASE SendRun(w)
    <3>1. [ctx[w] EXCEPT !.todo = @ \ {ctx[w].source}] \in Held
      BY <2>0 DEF Held
    <3>q. QED BY <2>7, <3>1 DEF SendRun, Skip
  <2>8. CASE SendNext(w)
    BY <2>8, <2>0, SendShape DEF SendNext, NextArg
  <2>9. CASE Acknowledge(w)
    BY <2>9, EmptyParts DEF Acknowledge
  <2>q. QED BY <1>2, <2>1, <2>2, <2>3, <2>4, <2>5, <2>6, <2>7, <2>8, <2>9 DEF Tick
<1>3. ASSUME NEW w \in Workers, Fail(w) PROVE Shape'
  <2>0. ctx[w] \in Held /\ ctx[w].arg \in Args
    BY HeldParts
  <2>1. CASE StartFails(w)
    <3>1. [ctx[w] EXCEPT !.todo = @ \ {ctx[w].source}] \in Held
      BY <2>0 DEF Held
    <3>q. QED BY <2>1, <3>1 DEF StartFails, Skip
  <2>2. CASE ChildDies(w)
    <3>1. messages' \in [Message -> Nat]
      BY <2>2, <2>0, SendShape DEF ChildDies
    <3>2. splits' \in Nat
      BY <2>2 DEF ChildDies
    <3>q. QED BY <2>2, <3>1, <3>2, EmptyParts DEF ChildDies
  <2>3. CASE WorkerKilled(w)
    BY <2>3, LoseShape, EmptyParts DEF WorkerKilled
  <2>q. QED BY <1>3, <2>1, <2>2, <2>3 DEF Fail, Blip, ScanFails, SendNextFails, LongTask
<1>4. ASSUME NEW w \in Workers, NEW m \in Message, Reserve(w, m) PROVE Shape'
  BY <1>4, ReserveMoves DEF Reserve
<1>5. ASSUME NEW m \in Message, Restore(m) PROVE Shape'
  BY <1>5, RestoreMoves DEF Restore
<1>6. CASE TimePasses
  <2>1. ASSUME NEW m \in Message PROVE messages[m] \in Nat /\ messages[[m EXCEPT !.waits = TRUE]] \in Nat
    <3>1. [m EXCEPT !.waits = TRUE] \in Message
      BY MessageParts
    <3>q. QED BY <3>1
  <2>q. QED BY <1>6, <2>1 DEF TimePasses, Args
<1>7. ASSUME NEW s \in Sources, RunEnds(s) PROVE Shape'
  BY <1>7 DEF RunEnds
<1>8. CASE RecoveryLockExpires \/ UNCHANGED vars
  BY <1>8 DEF RecoveryLockExpires, vars
<1>q. QED BY <1>1, <1>2, <1>3, <1>4, <1>5, <1>6, <1>7, <1>8 DEF Next

-----------------------------------------------------------------------------
(* Whose lock it is                                                        *)

Of(w) == Start(w) \/ Tick(w) \/ Fail(w) \/ LongTaskEnds(w)

\* A step of one worker leaves the others where they are.
Apart(w) == \A v \in Workers \ {w} : pc'[v] = pc[v] /\ ctx'[v] = ctx[v]

LEMMA StepsApart ==
  ASSUME Shape, NEW w \in Workers, Of(w)
  PROVE  Apart(w)
<1> USE DEF Shape, Goto, Apart, execVars
<1>1. CASE Start(w) \/ LongTaskEnds(w)
  BY <1>1 DEF Start, Boot, Recover, Kick, LongTaskEnds
<1>2. CASE Tick(w)
  <2>1. ASSUME NEW m \in Message, Take(w, m) PROVE Apart(w)
    BY <2>1 DEF Take
  <2>2. CASE Acquire(w) \/ Renew(w)
    BY <2>2 DEF Acquire, Renew, GoOn, StandDown
  <2>3. CASE SendSame(w) \/ CheckSource(w) \/ EndScan(w)
    BY <2>3 DEF SendSame, AfterRetry, StandDown, CheckSource, EndScan, Skip
  <2>4. CASE StartRun(w) \/ SendRun(w) \/ SendNext(w) \/ Acknowledge(w)
    BY <2>4 DEF StartRun, SendRun, SendNext, Acknowledge, Skip
  <2>q. QED BY <1>2, <2>1, <2>2, <2>3, <2>4 DEF Tick
<1>3. CASE Fail(w)
  BY <1>3 DEF Fail, Blip, StartFails, ScanFails, SendNextFails, ChildDies, WorkerKilled, LongTask, Skip
<1>q. QED BY <1>1, <1>2, <1>3 DEF Of

LEMMA InitFits == Init => Fits
  BY DEF Init, Fits, Fit, Scanning

LEMMA FitsAlone ==
  ASSUME Fits, NEW w \in Workers, Apart(w), lock' = lock \/ (lock = Nobody /\ lock' \in Args), Fit(w)'
  PROVE  Fits'
<1> SUFFICES ASSUME NEW v \in Workers, v # w PROVE Fit(v)'
  BY DEF Fits
<1>1. pc'[v] = pc[v] /\ ctx'[v] = ctx[v] /\ Fit(v)
  BY DEF Apart, Fits
<1>2. Scanning(v) => lock' = lock
  BY <1>1, ConstantsAssumption DEF Fit
<1>q. QED BY <1>1, <1>2 DEF Fit, Scanning

LEMMA StepFits == Shape /\ Fits /\ [Next]_vars => Fits'
<1> SUFFICES ASSUME Shape, Fits, [Next]_vars PROVE Fits'
  OBVIOUS
<1>1. ASSUME NEW w \in Workers, Of(w) PROVE Fits'
  <2>0. Apart(w) /\ Fit(w) /\ ctx[w] \in Held
    BY <1>1, StepsApart, HeldParts DEF Fits, Shape
  <2>f. (lock' = lock \/ (lock = Nobody /\ lock' \in Args)) /\ Fit(w)' => Fits'
    BY <2>0, FitsAlone
  <2> USE DEF Fit, Goto, Scanning, lockVars, execVars
  <2>1. CASE Start(w) \/ LongTaskEnds(w)
    BY <2>1, <2>0, <2>f DEF Start, Boot, Recover, Kick, LongTaskEnds, Shape
  <2>2. ASSUME NEW m \in Message, Take(w, m) PROVE Fits'
    <3>1. ctx'[w].arg = m.arg /\ m.arg \in Args /\ lock' = lock
          /\ pc'[w] = (IF m.arg = Nobody THEN "acquire" ELSE "renew")
      BY <2>2, MessageParts, EmptyParts DEF Take, Shape, Held
    <3>q. QED BY <3>1, <2>f DEF Args
  <2>3. CASE Acquire(w)
    <3>1. CASE MayAcquire
      <4>1. PICK t \in Fresh : lock' = t /\ GoOn(w, t)
        BY <2>3, <3>1 DEF Acquire
      <4>2. pc'[w] = "scan" /\ ctx'[w].token = t /\ ctx'[w].arg = Nobody /\ t \in Tokens
        BY <4>1, <2>0, <2>3 DEF GoOn, Shape, Held, Fresh, Acquire
      <4>q. QED BY <4>1, <4>2, <3>1, <2>f, ConstantsAssumption DEF MayAcquire, Args
    <3>2. CASE ~MayAcquire
      BY <2>3, <3>2, <2>f DEF Acquire, StandDown, Shape
    <3>q. QED BY <3>1, <3>2
  <2>4. CASE Renew(w)
    <3>1. CASE IsHolder(w)
      <4>0. GoOn(w, ctx[w].arg) /\ lock' = lock
        BY <2>4, <3>1 DEF Renew
      <4>1. pc'[w] = "scan" /\ ctx'[w].token = ctx[w].arg /\ ctx'[w].arg = ctx[w].arg
        BY <4>0, <2>0 DEF GoOn, Shape, Held
      <4>q. QED BY <4>0, <4>1, <3>1, <2>0, <2>4, <2>f DEF IsHolder, Renew
    <3>2. CASE ~IsHolder(w)
      BY <2>4, <3>2, <2>f DEF Renew, StandDown, Shape
    <3>q. QED BY <3>1, <3>2
  <2>5. CASE CheckSource(w)
    <3>1. PICK s \in ctx[w].todo :
            IF s \in due /\ ~HasActiveRun(s)
            THEN Goto(w, "start") /\ ctx' = [ctx EXCEPT ![w].source = s]
            ELSE ctx' = Skip(w, s) /\ UNCHANGED pc
      BY <2>5 DEF CheckSource
    <3>2. s \in Sources /\ lock' = lock /\ ctx'[w].token = ctx[w].token /\ ctx'[w].arg = ctx[w].arg
      BY <3>1, <2>5, <2>0 DEF CheckSource, Skip, Shape, Held
    <3>3. pc'[w] = "scan" \/ (pc'[w] = "start" /\ ctx'[w].source = s)
      BY <3>1, <2>5, <2>0 DEF CheckSource, Shape, Held
    <3>q. QED BY <3>2, <3>3, <2>0, <2>5, <2>f DEF CheckSource
  <2>6. CASE SendRun(w) \/ StartFails(w)
    <3>1. pc'[w] = "scan" /\ lock' = lock /\ ctx'[w].token = ctx[w].token /\ ctx'[w].arg = ctx[w].arg
      BY <2>6, <2>0 DEF SendRun, StartFails, Skip, Shape, Held
    <3>q. QED BY <3>1, <2>0, <2>6, <2>f DEF SendRun, StartFails
  <2>7. CASE EndScan(w) \/ StartRun(w) \/ ScanFails(w) \/ Blip(w) \/ LongTask(w)
    <3>1. ctx' = ctx /\ lock' = lock
      BY <2>7 DEF EndScan, StartRun, ScanFails, Blip, LongTask
    <3>2. \/ pc[w] = "scan" /\ pc'[w] = "next"
          \/ pc[w] = "start" /\ pc'[w] = "sendrun"
          \/ pc'[w] \in {"retry", "busy"}
      BY <2>7 DEF EndScan, StartRun, ScanFails, Blip, LongTask, Shape
    <3>q. QED BY <3>1, <3>2, <2>0, <2>f
  <2>8. CASE SendSame(w) \/ SendNext(w) \/ SendNextFails(w) \/ Acknowledge(w) \/ ChildDies(w) \/ WorkerKilled(w)
    <3>1. lock' = lock /\ pc'[w] \in {"ack", "idle", "down"}
      BY <2>8 DEF SendSame, SendNext, SendNextFails, Acknowledge, ChildDies, WorkerKilled, AfterRetry, StandDown, Shape
    <3>q. QED BY <3>1, <2>f
  <2>q. QED BY <1>1, <2>1, <2>2, <2>3, <2>4, <2>5, <2>6, <2>7, <2>8 DEF Of, Tick, Fail
<1>2. CASE TimePasses
  <2>1. \A w \in Workers : pc'[w] \in {"idle", "busy", "down"}
    BY <1>2 DEF TimePasses, Quiet, execVars
  <2>q. QED BY <2>1 DEF Fits, Fit, Scanning
<1>3. CASE UNCHANGED <<pc, ctx, lock>>
  BY <1>3 DEF Fits, Fit, Scanning
<1>4. ASSUME ~TimePasses, ~\E w \in Workers : Of(w) PROVE UNCHANGED <<pc, ctx, lock>>
  BY <1>4 DEF Next, Of, Reserve, Restore, RunEnds, RecoveryLockExpires, vars, execVars, lockVars
<1>q. QED BY <1>1, <1>2, <1>3, <1>4

-----------------------------------------------------------------------------
(* Counting                                                                *)

LEMMA Fewer ==
  ASSUME NEW S, NEW T, IsFiniteSet(S), T \subseteq S
  PROVE  IsFiniteSet(T) /\ Cardinality(T) <= Cardinality(S)
  BY FS_Subset

LEMMA Grown ==
  ASSUME NEW S, NEW T, NEW y, IsFiniteSet(S), T \subseteq S \cup {y}
  PROVE  IsFiniteSet(T) /\ Cardinality(T) <= Cardinality(S) + 1
<1>0. Cardinality(S) \in Nat
  BY FS_CardinalityType
<1>a. /\ IsFiniteSet(S \cup {y})
      /\ Cardinality(S \cup {y}) = IF y \in S THEN Cardinality(S) ELSE Cardinality(S) + 1
  BY FS_AddElement
<1>1. IsFiniteSet(S \cup {y}) /\ Cardinality(S \cup {y}) <= Cardinality(S) + 1
  BY <1>0, <1>a
<1>2. IsFiniteSet(T) /\ Cardinality(T) <= Cardinality(S \cup {y})
  BY <1>1, Fewer
<1>q. QED BY <1>1, <1>2, FS_CardinalityType

LEMMA Swapped ==
  ASSUME NEW S, NEW T, NEW x \in S, NEW y, IsFiniteSet(S), T \subseteq (S \ {x}) \cup {y}
  PROVE  IsFiniteSet(T) /\ Cardinality(T) <= Cardinality(S)
<1>1. IsFiniteSet(S \ {x}) /\ Cardinality(S \ {x}) = Cardinality(S) - 1
  BY FS_RemoveElement
<1>2. IsFiniteSet(T) /\ Cardinality(T) <= Cardinality(S \ {x}) + 1
  BY <1>1, Grown
<1>q. QED BY <1>1, <1>2, FS_CardinalityType

\* f gives every element of T one of S, no two the same.
LEMMA Injected ==
  ASSUME NEW S, NEW T, NEW f, IsFiniteSet(S), f \in [T -> S],
         \A k, l \in T : f[k] = f[l] => k = l
  PROVE  IsFiniteSet(T) /\ Cardinality(T) <= Cardinality(S)
<1>1. f \in Injection(T, S)
  BY DEF Injection, IsInjective
<1>q. QED BY <1>1, FS_Injection

-----------------------------------------------------------------------------
(* The links of a token                                                    *)

LEMMA LinkOf ==
  ASSUME Shape, NEW t
  PROVE  /\ \A w \in Workers : Goes(w, t) => <<w, 0>> \in Links(t)
         /\ \A m \in Message : m.arg = t => \A i \in 1..messages[m] : <<m, i>> \in Links(t)
         /\ \A l \in Links(t) :
              \/ \E w \in Workers : Goes(w, t) /\ l = <<w, 0>>
              \/ \E m \in Message : m.arg = t /\ \E i \in 1..messages[m] : l = <<m, i>>
<1>1. \A w \in Workers : Goes(w, t) <=> w \in Carriers(t) \cup Takers(t)
  BY DEF Goes, Scanning, Carriers, Takers
<1>2. Carriers(t) \cup Takers(t) \subseteq Workers
  BY DEF Carriers, Takers
<1>3. \A m \in Message : (1..messages[m] # {}) => m \in Queued
  BY DEF Queued, Shape
<1>q. QED BY <1>1, <1>2, <1>3 DEF Links, Queued

LEMMA LinkOfNext ==
  ASSUME Shape', NEW t
  PROVE  \A l \in Links(t)' :
           \/ \E w \in Workers : Goes(w, t)' /\ l = <<w, 0>>
           \/ \E m \in Message : m.arg = t /\ \E i \in 1..messages'[m] : l = <<m, i>>
<1>1. \A w \in Workers : Goes(w, t)' <=> w \in (Carriers(t) \cup Takers(t))'
  BY DEF Goes, Scanning, Carriers, Takers
<1>2. (Carriers(t) \cup Takers(t))' \subseteq Workers
  BY DEF Carriers, Takers
<1>q. QED BY <1>1, <1>2 DEF Links, Queued

LEMMA InitChain == Init => ChainInv
<1> SUFFICES ASSUME Init, NEW t \in Tokens PROVE Bounded(t)
  BY DEF ChainInv
<1>1. Carriers(t) = {} /\ Takers(t) = {}
  BY DEF Init, Carriers, Takers
<1>2. Queued = {}
  BY DEF Init, Queued
<1>3. Links(t) = {}
  BY <1>1, <1>2 DEF Links
<1>q. QED BY <1>3, FS_EmptySet DEF Bounded, Init

\* What a step does to the links of a token, in the terms of the lemmas above.
LEMMA FewerLinks ==
  ASSUME NEW t \in Tokens, Bounded(t), splits \in Nat, splits' \in Nat, splits' >= splits,
         \/ Links(t)' \subseteq Links(t)
         \/ \E x \in Links(t) : \E y : Links(t)' \subseteq (Links(t) \ {x}) \cup {y}
         \/ splits' = splits + 1 /\ \E y : Links(t)' \subseteq Links(t) \cup {y}
  PROVE  Bounded(t)'
<1>1. CASE Links(t)' \subseteq Links(t)
  <2>1. IsFiniteSet(Links(t)') /\ Cardinality(Links(t)') <= Cardinality(Links(t))
    BY <1>1, Fewer DEF Bounded
  <2>q. QED BY <2>1, FS_CardinalityType DEF Bounded
<1>2. CASE \E x \in Links(t) : \E y : Links(t)' \subseteq (Links(t) \ {x}) \cup {y}
  <2>1. IsFiniteSet(Links(t)') /\ Cardinality(Links(t)') <= Cardinality(Links(t))
    BY <1>2, Swapped DEF Bounded
  <2>q. QED BY <2>1, FS_CardinalityType DEF Bounded
<1>3. CASE splits' = splits + 1 /\ \E y : Links(t)' \subseteq Links(t) \cup {y}
  <2>1. IsFiniteSet(Links(t)') /\ Cardinality(Links(t)') <= Cardinality(Links(t)) + 1
    BY <1>3, Grown DEF Bounded
  <2>q. QED BY <1>3, <2>1, FS_CardinalityType DEF Bounded
<1>q. QED BY <1>1, <1>2, <1>3

\* The executions that go on are those that went on, and no message is new.
LEMMA KeepsLinks ==
  ASSUME Shape, Shape', NEW t \in Tokens, Bounded(t), splits' >= splits, messages' = messages,
         \A w \in Workers : Goes(w, t)' => Goes(w, t)
  PROVE  Bounded(t)'
<1>1. Links(t)' \subseteq Links(t)
  BY LinkOf, LinkOfNext
<1>q. QED BY <1>1, FewerLinks DEF Shape

\* The execution w ends and passes the token a on to a message.
LEMMA SendsLinks ==
  ASSUME Shape, Shape', NEW t \in Tokens, Bounded(t), NEW w \in Workers, Apart(w), splits' >= splits,
         NEW a \in Args, NEW b \in BOOLEAN, Send(a, b),
         a = t => Goes(w, a) \/ splits' = splits + 1, ~Goes(w, t)'
  PROVE  Bounded(t)'
<1> DEFINE n == NewMessage(a, b)
           y == <<n, messages[n] + 1>>
<1>1. n \in Message /\ n.arg = a
  BY NewMessageParts
<1> HIDE DEF n
<1>2. messages' = [messages EXCEPT ![n] = @ + 1]
  BY DEF Send, n
<1>3. \A v \in Workers : Goes(v, t)' => Goes(v, t) /\ v # w
  BY DEF Apart, Goes, Scanning
<1>4. \A m \in Message : \A i \in 1..messages'[m] : i \in 1..messages[m] \/ (m = n /\ i = messages[n] + 1)
  BY <1>1, <1>2 DEF Shape
<1>5. CASE a # t
  <2>1. \A m \in Message : m.arg = t => messages'[m] = messages[m]
    BY <1>1, <1>2, <1>5 DEF Shape
  <2>2. Links(t)' \subseteq Links(t)
    BY <1>3, <2>1, LinkOf, LinkOfNext
  <2>q. QED BY <2>2, FewerLinks DEF Shape
<1>6. CASE a = t
  <2>1. Links(t)' \subseteq (Links(t) \ {<<w, 0>>}) \cup {y}
    <3> SUFFICES ASSUME NEW l \in Links(t)' PROVE (l \in Links(t) /\ l # <<w, 0>>) \/ l = y
      OBVIOUS
    <3>1. CASE \E v \in Workers : Goes(v, t)' /\ l = <<v, 0>>
      BY <3>1, <1>3, LinkOf
    <3>2. CASE \E m \in Message : m.arg = t /\ \E i \in 1..messages'[m] : l = <<m, i>>
      <4>1. \A m \in Message : \A i \in 1..messages'[m] : i # 0
        BY DEF Shape
      <4>q. QED BY <3>2, <4>1, <1>4, LinkOf
    <3>q. QED BY <3>1, <3>2, LinkOfNext
  <2>2. Goes(w, t) => <<w, 0>> \in Links(t)
    BY LinkOf
  <2>q. QED BY <1>6, <2>1, <2>2, FewerLinks DEF Shape
<1>q. QED BY <1>5, <1>6

LEMMA MovedLinks ==
  ASSUME Shape, Shape', NEW t \in Tokens, Bounded(t), NEW m \in Message, NEW n \in Message, Moved(m, n),
         pc' = pc, ctx' = ctx, splits' = splits
  PROVE  Bounded(t)'
<1> DEFINE x == <<m, messages[m]>>
           y == <<n, messages[n] + 1>>
<1>1. \A w \in Workers : Goes(w, t)' => Goes(w, t)
  BY DEF Goes, Scanning
<1>2. CASE m.arg = t
  <2>1. messages[m] \in Nat /\ messages[m] > 0 /\ messages[m] \in 1..messages[m]
    BY DEF Moved, Shape
  <2>2. x \in Links(t)
    BY <1>2, <2>1, LinkOf
  <2>3. \A k \in Message : \A i \in 1..messages'[k] :
          (i \in 1..messages[k] /\ <<k, i>> # x) \/ (k = n /\ i = messages[n] + 1)
    BY <2>1 DEF Shape, Moved
  <2>4. Links(t)' \subseteq (Links(t) \ {x}) \cup {y}
    <3> SUFFICES ASSUME NEW l \in Links(t)' PROVE (l \in Links(t) /\ l # x) \/ l = y
      OBVIOUS
    <3>1. CASE \E v \in Workers : Goes(v, t)' /\ l = <<v, 0>>
      BY <3>1, <1>1, <2>1, LinkOf
    <3>2. CASE \E k \in Message : k.arg = t /\ \E i \in 1..messages'[k] : l = <<k, i>>
      BY <3>2, <2>3, LinkOf
    <3>q. QED BY <3>1, <3>2, LinkOfNext
  <2>q. QED BY <2>2, <2>4, FewerLinks DEF Shape
<1>3. CASE m.arg # t
  <2>1. \A k \in Message : k.arg = t => messages'[k] = messages[k]
    BY <1>3 DEF Moved, Shape
  <2>2. Links(t)' \subseteq Links(t)
    BY <1>1, <2>1, LinkOf, LinkOfNext
  <2>q. QED BY <2>2, FewerLinks DEF Shape
<1>q. QED BY <1>2, <1>3

LEMMA TakeLinks ==
  ASSUME Shape, Shape', NEW t \in Tokens, Bounded(t), NEW w \in Workers, Apart(w),
         NEW m \in Message, Take(w, m)
  PROVE  Bounded(t)'
<1>0. /\ pc[w] = "idle" /\ messages[m] > 0 /\ t # Nobody /\ splits' = splits
      /\ messages' = [messages EXCEPT ![m] = @ - 1]
  BY ConstantsAssumption DEF Take, Ready, Queued
<1>1. pc'[w] = (IF m.arg = Nobody THEN "acquire" ELSE "renew") /\ ctx'[w].arg = m.arg
  BY EmptyParts, MessageParts DEF Take, Shape, Goto, Held
<1>2. Goes(w, t)' <=> m.arg = t
  BY <1>0, <1>1 DEF Goes, Scanning
<1>4. \A v \in Workers : Goes(v, t)' => v = w \/ Goes(v, t)
  BY DEF Apart, Goes, Scanning
<1> DEFINE x == <<m, messages[m]>>
<1>5. CASE m.arg = t
  <2>1. messages[m] \in Nat /\ messages[m] \in 1..messages[m]
    BY <1>0 DEF Shape
  <2>2. x \in Links(t)
    BY <1>5, <2>1, LinkOf
  <2>3. \A k \in Message : \A i \in 1..messages'[k] : i \in 1..messages[k] /\ <<k, i>> # x
    BY <1>0, <2>1 DEF Shape
  <2>4. Links(t)' \subseteq (Links(t) \ {x}) \cup {<<w, 0>>}
    <3> SUFFICES ASSUME NEW l \in Links(t)' PROVE (l \in Links(t) /\ l # x) \/ l = <<w, 0>>
      OBVIOUS
    <3>1. CASE \E v \in Workers : Goes(v, t)' /\ l = <<v, 0>>
      BY <3>1, <1>0, <1>4, <2>1, LinkOf
    <3>2. CASE \E k \in Message : k.arg = t /\ \E i \in 1..messages'[k] : l = <<k, i>>
      BY <3>2, <2>3, LinkOf
    <3>q. QED BY <3>1, <3>2, LinkOfNext
  <2>q. QED BY <1>0, <2>2, <2>4, FewerLinks DEF Shape
<1>6. CASE m.arg # t
  <2>1. \A k \in Message : k.arg = t => messages'[k] = messages[k]
    BY <1>0, <1>6 DEF Shape
  <2>2. Links(t)' \subseteq Links(t)
    BY <1>2, <1>4, <1>6, <2>1, LinkOf, LinkOfNext
  <2>q. QED BY <1>0, <2>2, FewerLinks DEF Shape
<1>q. QED BY <1>5, <1>6

\* A new token is nobody's; an old one stays where it is.
LEMMA AcquireLinks ==
  ASSUME Shape, Shape', Fits, NEW t \in Tokens, Bounded(t), NEW w \in Workers, Apart(w), Acquire(w)
  PROVE  Bounded(t)'
<1>0. ctx[w] \in Held /\ messages' = messages /\ splits' = splits
  BY HeldParts DEF Acquire
<1>1. \A v \in Workers : Goes(v, t)' => v = w \/ Goes(v, t)
  BY DEF Apart, Goes, Scanning
<1>2. CASE MayAcquire
  <2>1. PICK u \in Fresh : GoOn(w, u)
    BY <1>2 DEF Acquire
  <2>2. pc'[w] = "scan" /\ ctx'[w].token = u
    BY <2>1, <1>0 DEF GoOn, Goto, Shape, Held
  <2>3. CASE t = u
    <3>1. \A m \in Message : m.arg = t => messages[m] = 0
      BY <2>3 DEF Fresh, Queued, Shape
    <3>2. \A v \in Workers : ~Goes(v, t)
      BY <2>3 DEF Fresh, Goes
    <3>3. Links(t)' \subseteq {<<w, 0>>}
      BY <1>0, <1>1, <3>1, <3>2, LinkOfNext
    <3>4. IsFiniteSet({<<w, 0>>}) /\ Cardinality({<<w, 0>>}) = 1
      BY FS_Singleton
    <3>5. IsFiniteSet(Links(t)') /\ Cardinality(Links(t)') <= 1
      BY <3>3, <3>4, Fewer
    <3>6. Cardinality(Links(t)') \in Nat
      BY <3>5, FS_CardinalityType
    <3>q. QED BY <3>5, <3>6 DEF Bounded, Shape
  <2>4. CASE t # u
    <3>1. ~Goes(w, t)'
      BY <2>2, <2>4 DEF Goes, Scanning
    <3>q. QED BY <1>0, <1>1, <3>1, KeepsLinks DEF Shape
  <2>q. QED BY <2>3, <2>4
<1>3. CASE ~MayAcquire
  <2>1. pc'[w] = "ack"
    BY <1>3 DEF Acquire, StandDown, Goto, Shape
  <2>2. ~Goes(w, t)'
    BY <2>1 DEF Goes, Scanning
  <2>q. QED BY <1>0, <1>1, <2>2, KeepsLinks DEF Shape
<1>q. QED BY <1>2, <1>3

\* A message that had to wait joins those that need not: each has its number
\* after theirs.
LEMMA TimeLinks ==
  ASSUME Shape, Shape', NEW t \in Tokens, Bounded(t), TimePasses
  PROVE  Bounded(t)'
<1> DEFINE late(m) == [m EXCEPT !.waits = TRUE]
           f == [l \in Links(t)' |-> IF l[2] <= messages[l[1]] THEN l
                                     ELSE <<late(l[1]), l[2] - messages[l[1]]>>]
<1>1. \A w \in Workers : ~Goes(w, t)'
  BY DEF TimePasses, Quiet, execVars, Goes, Scanning
<1>2. ASSUME NEW m \in Message
      PROVE  /\ late(m) \in Message /\ late(m).arg = m.arg /\ late(m).waits = TRUE
             /\ messages'[m] = IF m.waits THEN 0 ELSE messages[m] + messages[late(m)]
             /\ messages[m] \in Nat /\ messages[late(m)] \in Nat
  <2>1. late(m) \in Message /\ late(m).arg = m.arg /\ late(m).waits = TRUE
    BY MessageParts
  <2>q. QED BY <2>1 DEF TimePasses, Shape
<1>3. ASSUME NEW m \in Message, NEW n \in Message, ~m.waits, ~n.waits, late(m) = late(n)
      PROVE  m = n
  BY <1>3 DEF Message
<1> HIDE DEF late
<1>4. ASSUME NEW l \in Links(t)'
      PROVE  /\ l = <<l[1], l[2]>> /\ l[1] \in Message /\ l[1].arg = t /\ ~l[1].waits /\ l[2] \in Nat
             /\ l[2] \in 1..(messages[l[1]] + messages[late(l[1])])
  <2>1. PICK m \in Message : m.arg = t /\ \E i \in 1..messages'[m] : l = <<m, i>>
    BY <1>1, LinkOfNext
  <2>2. PICK i \in 1..messages'[m] : l = <<m, i>>
    BY <2>1
  <2>3. ~m.waits
    <3>1. messages'[m] # 0
      BY <2>2
    <3>q. QED BY <3>1, <1>2
  <2>4. i \in 1..(messages[m] + messages[late(m)]) /\ i \in Nat
    <3>1. messages'[m] = messages[m] + messages[late(m)]
      BY <1>2, <2>3
    <3>2. messages[m] + messages[late(m)] \in Nat
      <4>1. messages[m] \in Nat /\ messages[late(m)] \in Nat
        BY <1>2
      <4>q. QED BY <4>1
    <3>q. QED BY <2>2, <3>1, <3>2
  <2>q. QED BY <2>1, <2>2, <2>3, <2>4
<1>5. ASSUME NEW l \in Links(t)' PROVE f[l] \in Links(t)
  <2>a. l[1] \in Message /\ l[1].arg = t
    BY <1>4
  <2>0. /\ messages[l[1]] \in Nat /\ messages[late(l[1])] \in Nat /\ late(l[1]) \in Message
        /\ late(l[1]).arg = t
    BY <1>2, <2>a
  <2>1. CASE l[2] <= messages[l[1]]
    <3>1. f[l] = <<l[1], l[2]>> /\ l[2] \in 1..messages[l[1]]
      BY <2>0, <2>1, <1>4
    <3>q. QED BY <3>1, <1>4, LinkOf
  <2>2. CASE ~(l[2] <= messages[l[1]])
    <3>1. f[l] = <<late(l[1]), l[2] - messages[l[1]]>>
      BY <2>2
    <3>2. l[2] - messages[l[1]] \in 1..messages[late(l[1])]
      BY <2>0, <2>2, <1>4
    <3>q. QED BY <3>1, <3>2, <2>0, LinkOf
  <2>q. QED BY <2>1, <2>2
<1>6. ASSUME NEW k \in Links(t)', NEW l \in Links(t)', f[k] = f[l] PROVE k = l
  <2>0. /\ messages[k[1]] \in Nat /\ messages[l[1]] \in Nat
        /\ late(k[1]).waits = TRUE /\ late(l[1]).waits = TRUE
    BY <1>2, <1>4
  <2>1. CASE k[2] <= messages[k[1]] /\ l[2] <= messages[l[1]]
    BY <2>1, <1>6
  <2>2. CASE k[2] <= messages[k[1]] /\ ~(l[2] <= messages[l[1]])
    <3>1. f[k] = k /\ f[l] = <<late(l[1]), l[2] - messages[l[1]]>>
      BY <2>2
    <3>2. k[1] = late(l[1])
      BY <3>1, <1>6
    <3>q. QED BY <3>2, <2>0, <1>4
  <2>3. CASE ~(k[2] <= messages[k[1]]) /\ l[2] <= messages[l[1]]
    <3>1. f[l] = l /\ f[k] = <<late(k[1]), k[2] - messages[k[1]]>>
      BY <2>3
    <3>2. l[1] = late(k[1])
      BY <3>1, <1>6
    <3>q. QED BY <3>2, <2>0, <1>4
  <2>4. CASE ~(k[2] <= messages[k[1]]) /\ ~(l[2] <= messages[l[1]])
    <3>1. /\ f[l] = <<late(l[1]), l[2] - messages[l[1]]>>
          /\ f[k] = <<late(k[1]), k[2] - messages[k[1]]>>
      BY <2>4
    <3>2. late(k[1]) = late(l[1]) /\ k[2] - messages[k[1]] = l[2] - messages[l[1]]
      BY <3>1, <1>6
    <3>3. k[1] = l[1]
      BY <3>2, <1>3, <1>4
    <3>4. k[2] = l[2]
      BY <3>2, <3>3, <2>0, <1>4
    <3>5. k = <<k[1], k[2]>> /\ l = <<l[1], l[2]>>
      BY <1>4
    <3>q. QED BY <3>3, <3>4, <3>5
  <2>q. QED BY <2>1, <2>2, <2>3, <2>4
<1>7. f \in [Links(t)' -> Links(t)]
  BY <1>5
<1> HIDE DEF f
<1>8. IsFiniteSet(Links(t)') /\ Cardinality(Links(t)') <= Cardinality(Links(t))
  BY <1>6, <1>7, Injected DEF Bounded
<1>9. Cardinality(Links(t)) \in Nat /\ Cardinality(Links(t)') \in Nat
  BY <1>8, FS_CardinalityType DEF Bounded
<1>q. QED BY <1>8, <1>9 DEF Bounded, Shape, TimePasses

\* The messages a killed worker held join the lost ones, and so does the one it
\* executed; if its execution did not go on with the token any more, it had sent
\* the next tick, and is a split.
LEMMA LostLinks ==
  ASSUME Shape, Shape', Fits, NEW t \in Tokens, Bounded(t), NEW w \in Workers, WorkerKilled(w), Apart(w)
  PROVE  Bounded(t)'
<1> DEFINE gone == [arg |-> t, holder |-> Lost, waits |-> FALSE]
           own  == [gone EXCEPT !.holder = w]
           kept == [gone EXCEPT !.holder = w, !.waits = TRUE]
           a == messages[gone]
           b == messages[own]
           c == messages[kept]
           x == <<w, 0>>
           back == Executing(w) /\ t = ctx[w].arg
           f == [l \in Links(t)' |->
                   IF l[1] # gone \/ l[2] <= a THEN l
                   ELSE IF l[2] <= a + b       THEN <<own, l[2] - a>>
                   ELSE IF l[2] <= a + b + c   THEN <<kept, l[2] - (a + b)>>
                   ELSE x]
           g(y) == IF y = x                       THEN <<gone, a + b + c + 1>>
                   ELSE IF y[2] > 0 /\ y[1] = own  THEN <<gone, y[2] + a>>
                   ELSE IF y[2] > 0 /\ y[1] = kept THEN <<gone, y[2] + (a + b)>>
                   ELSE y
<1>0. w # Lost /\ t # Nobody /\ t \in Args
  BY ConstantsAssumption DEF Args
<1>1. pc'[w] = "down" /\ \A v \in Workers : Goes(v, t)' => v # w /\ Goes(v, t)
  BY DEF WorkerKilled, Goto, Shape, Apart, Goes, Scanning
<1>a. gone \in Message /\ gone.arg = t /\ gone.holder = Lost /\ gone.waits = FALSE
  BY <1>0 DEF Message
<1>b. /\ own.arg = t /\ own.holder = w /\ own.waits = FALSE
      /\ kept.arg = t /\ kept.holder = w /\ kept.waits = TRUE
  OBVIOUS
<1>2. gone \in Message /\ own \in Message /\ kept \in Message
  BY <1>a, HeldBy
<1>3. gone # own /\ gone # kept /\ own # kept
  BY <1>0, <1>a, <1>b
<1>4. a \in Nat /\ b \in Nat /\ c \in Nat
  BY <1>2 DEF Shape
<1>5. messages' = LoseMessages(w)
  BY DEF WorkerKilled
<1>6. ASSUME NEW m \in Message, m.arg = t, m # gone
      PROVE  messages'[m] = IF m.holder = w THEN 0 ELSE messages[m]
  <2>1. ~(m.holder = Lost /\ ~m.waits)
    BY <1>6 DEF Message
  <2>q. QED BY <1>5, <2>1 DEF LoseMessages
<1>7. messages'[gone] = a + b + c + (IF back THEN 1 ELSE 0)
  <2>1. LoseMessages(w)[gone] = messages[gone] + messages[[gone EXCEPT !.holder = w]]
                                + messages[[gone EXCEPT !.holder = w, !.waits = TRUE]]
                                + (IF Executing(w) /\ gone.arg = ctx[w].arg THEN 1 ELSE 0)
    <3> HIDE DEF gone
    <3>q. QED BY <1>0, <1>a DEF LoseMessages
  <2>q. QED BY <1>5, <2>1
<1>8. ASSUME NEW m \in Message, m.arg = t, m.holder = w PROVE m \in {own, kept}
  <2> HIDE DEF own, kept
  <2>1. m.waits \in BOOLEAN
    BY MessageParts
  <2>2. CASE m.waits = FALSE
    BY <1>2, <1>8, <1>b, <2>2 DEF Message
  <2>3. CASE m.waits = TRUE
    BY <1>2, <1>8, <1>b, <2>3 DEF Message
  <2>q. QED BY <2>1, <2>2, <2>3
<1>9. own.arg = t /\ kept.arg = t /\ gone.arg = t /\ own.holder = w /\ kept.holder = w
  BY <1>a, <1>b
<1>10. back => Goes(w, t) \/ splits' = splits + 1
  <2>1. Fit(w)
    BY DEF Fits
  <2>2. pc[w] = "ack" /\ ctx[w].arg # Nobody => splits' = splits + 1
    BY DEF WorkerKilled
  <2>3. back => Goes(w, t) \/ pc[w] = "ack"
    BY <1>0, <2>1 DEF Fit, Goes, Scanning, Executing
  <2>q. QED BY <1>0, <2>2, <2>3
<1> HIDE DEF gone, own, kept, back
<1>11. ASSUME NEW l \in Links(t)'
       PROVE  /\ l = <<l[1], l[2]>> /\ l[2] \in Nat
              /\ l[2] = 0 => l \in Links(t) /\ l[1] # w
              /\ l[2] > 0 => l[1] \in Message /\ l[1].arg = t /\ l[2] \in 1..messages'[l[1]]
  <2>1. CASE \E v \in Workers : Goes(v, t)' /\ l = <<v, 0>>
    <3>1. PICK v \in Workers : Goes(v, t)' /\ l = <<v, 0>>
      BY <2>1
    <3>2. v # w /\ l \in Links(t)
      BY <1>1, <3>1, LinkOf
    <3>q. QED BY <3>1, <3>2
  <2>2. CASE \E m \in Message : m.arg = t /\ \E i \in 1..messages'[m] : l = <<m, i>>
    <3>1. PICK m \in Message : m.arg = t /\ \E i \in 1..messages'[m] : l = <<m, i>>
      BY <2>2
    <3>2. PICK i \in 1..messages'[m] : l = <<m, i>>
      BY <3>1
    <3>3. i \in Nat /\ i > 0
      BY DEF Shape
    <3>q. QED BY <3>1, <3>2, <3>3
  <2>q. QED BY <2>1, <2>2, LinkOfNext
<1>12. ASSUME NEW l \in Links(t)'
       PROVE  \/ f[l] = l /\ l \in Links(t) /\ (l[2] > 0 => l[1] \notin {own, kept})
              \/ l[1] = gone /\ l[2] \in a+1..a+b /\ f[l] = <<own, l[2] - a>>
              \/ l[1] = gone /\ l[2] \in a+b+1..a+b+c /\ f[l] = <<kept, l[2] - (a + b)>>
              \/ l[1] = gone /\ l[2] = a + b + c + 1 /\ f[l] = x /\ back
  <2>1. CASE l[2] = 0
    <3>1. l[1] # gone \/ l[2] <= a
      BY <2>1, <1>4
    <3>2. f[l] = l
      BY <3>1
    <3>q. QED BY <2>1, <3>2, <1>11
  <2>2. CASE l[2] > 0 /\ l[1] # gone
    <3>1. f[l] = l
      BY <2>2
    <3>2. messages'[l[1]] = IF l[1].holder = w THEN 0 ELSE messages[l[1]]
      BY <1>6, <1>11, <2>2
    <3>3. l[1].holder # w /\ l[2] \in 1..messages[l[1]]
      BY <1>11, <2>2, <3>2
    <3>q. QED BY <1>9, <1>11, <2>2, <3>1, <3>3, LinkOf
  <2>3. CASE l[2] > 0 /\ l[1] = gone
    <3>1. l[2] \in 1..(a + b + c + (IF back THEN 1 ELSE 0))
      BY <1>7, <1>11, <2>3
    <3>2. CASE l[2] <= a
      <4>1. f[l] = l /\ l[2] \in 1..messages[gone]
        BY <1>11, <2>3, <3>2
      <4>q. QED BY <1>2, <1>3, <1>9, <1>11, <2>3, <4>1, LinkOf
    <3>3. CASE l[2] > a /\ l[2] <= a + b
      <4>1. f[l] = <<own, l[2] - a>>
        BY <1>4, <1>11, <2>3, <3>3
      <4>q. QED BY <1>4, <1>11, <2>3, <3>3, <4>1
    <3>4. CASE l[2] > a + b /\ l[2] <= a + b + c
      <4>1. f[l] = <<kept, l[2] - (a + b)>>
        BY <1>4, <1>11, <2>3, <3>4
      <4>q. QED BY <1>4, <1>11, <2>3, <3>4, <4>1
    <3>5. CASE l[2] > a + b + c
      <4>1. f[l] = x
        BY <1>4, <1>11, <2>3, <3>5
      <4>2. back /\ l[2] = a + b + c + 1
        BY <1>4, <1>11, <3>1, <3>5
      <4>q. QED BY <2>3, <4>1, <4>2
    <3>q. QED BY <1>4, <1>11, <3>2, <3>3, <3>4, <3>5
  <2>q. QED BY <1>11, <2>1, <2>2, <2>3
<1>13. ASSUME NEW l \in Links(t)' PROVE f[l] \in Links(t) \/ (f[l] = x /\ back)
  <2>1. \A i \in 1..b : <<own, i>> \in Links(t)
    BY <1>2, <1>9, LinkOf
  <2>2. \A i \in 1..c : <<kept, i>> \in Links(t)
    BY <1>2, <1>9, LinkOf
  <2> HIDE DEF a, b, c, f, x
  <2>3. CASE l[2] \in a+1..a+b /\ f[l] = <<own, l[2] - a>>
    <3>1. l[2] - a \in 1..b
      BY <1>4, <2>3
    <3>q. QED BY <2>1, <2>3, <3>1
  <2>4. CASE l[2] \in a+b+1..a+b+c /\ f[l] = <<kept, l[2] - (a + b)>>
    <3>1. l[2] - (a + b) \in 1..c
      BY <1>4, <2>4
    <3>q. QED BY <2>2, <2>4, <3>1
  <2>q. QED BY <1>12, <2>3, <2>4
<1>14. ASSUME NEW l \in Links(t)' PROVE g(f[l]) = l
  <2> HIDE DEF a, b, c, f
  <2>0. l = <<l[1], l[2]>> /\ l[2] \in Nat
    BY <1>11
  <2>1. CASE f[l] = l /\ l \in Links(t) /\ (l[2] > 0 => l[1] \notin {own, kept})
    <3>1. l # x
      BY <2>0, <1>11
    <3>q. QED BY <2>1, <3>1
  <2>2. CASE l[1] = gone /\ l[2] \in a+1..a+b /\ f[l] = <<own, l[2] - a>>
    <3>1. l[2] - a > 0 /\ (l[2] - a) + a = l[2] /\ l[2] - a # 0
      BY <1>4, <2>2
    <3>2. g(f[l]) = <<gone, (l[2] - a) + a>>
      BY <2>2, <3>1
    <3>q. QED BY <2>0, <2>2, <3>1, <3>2
  <2>3. CASE l[1] = gone /\ l[2] \in a+b+1..a+b+c /\ f[l] = <<kept, l[2] - (a + b)>>
    <3>1. l[2] - (a + b) > 0 /\ (l[2] - (a + b)) + (a + b) = l[2] /\ l[2] - (a + b) # 0
      BY <1>4, <2>3
    <3>2. g(f[l]) = <<gone, (l[2] - (a + b)) + (a + b)>>
      BY <1>3, <2>3, <3>1
    <3>q. QED BY <2>0, <2>3, <3>1, <3>2
  <2>4. CASE l[1] = gone /\ l[2] = a + b + c + 1 /\ f[l] = x
    <3>1. g(f[l]) = <<gone, a + b + c + 1>>
      BY <2>4
    <3>q. QED BY <2>0, <2>4, <3>1
  <2>q. QED BY <1>12, <2>1, <2>2, <2>3, <2>4
<1>15. \A k, l \in Links(t)' : f[k] = f[l] => k = l
  <2> SUFFICES ASSUME NEW k \in Links(t)', NEW l \in Links(t)', f[k] = f[l] PROVE k = l
    OBVIOUS
  <2>1. g(f[k]) = k /\ g(f[l]) = l
    BY <1>14
  <2> HIDE DEF f, g
  <2>q. QED BY <2>1
<1>16. f = [l \in Links(t)' |-> f[l]]
  OBVIOUS
<1> HIDE DEF f, g, x
<1>17. Cardinality(Links(t)) \in Nat /\ splits \in Nat /\ splits' \in {splits, splits + 1}
  BY FS_CardinalityType DEF Bounded, Shape, WorkerKilled
<1>18. CASE back /\ x \notin Links(t)
  <2>1. splits' = splits + 1
    BY <1>10, <1>18, LinkOf DEF x
  <2>2. IsFiniteSet(Links(t) \cup {x}) /\ Cardinality(Links(t) \cup {x}) = Cardinality(Links(t)) + 1
    BY <1>18, FS_AddElement DEF Bounded
  <2>3. f \in [Links(t)' -> Links(t) \cup {x}]
    BY <1>13, <1>16
  <2>4. IsFiniteSet(Links(t)') /\ Cardinality(Links(t)') <= Cardinality(Links(t)) + 1
    BY <1>15, <2>2, <2>3, Injected
  <2>5. Cardinality(Links(t)') \in Nat
    BY <2>4, FS_CardinalityType
  <2>q. QED BY <1>17, <2>1, <2>4, <2>5 DEF Bounded
<1>19. CASE ~back \/ x \in Links(t)
  <2>1. f \in [Links(t)' -> Links(t)]
    BY <1>13, <1>16, <1>19
  <2>2. IsFiniteSet(Links(t)') /\ Cardinality(Links(t)') <= Cardinality(Links(t))
    BY <1>15, <2>1, Injected DEF Bounded
  <2>3. Cardinality(Links(t)') \in Nat
    BY <2>2, FS_CardinalityType
  <2>q. QED BY <1>17, <2>2, <2>3 DEF Bounded
<1>q. QED BY <1>18, <1>19

\* The steps that neither send nor take a message.
Silent(w) ==
  \/ Boot(w) \/ Recover(w) \/ LongTaskEnds(w)
  \/ Renew(w) \/ CheckSource(w) \/ EndScan(w) \/ StartRun(w) \/ SendRun(w) \/ Acknowledge(w)
  \/ Blip(w) \/ StartFails(w) \/ ScanFails(w) \/ SendNextFails(w) \/ LongTask(w)

LEMMA SilentLinks ==
  ASSUME Shape, Shape', Fits, NEW t \in Tokens, Bounded(t), NEW w \in Workers, Apart(w), Silent(w)
  PROVE  Bounded(t)'
<1>0. ctx[w] \in Held /\ Fit(w) /\ t # Nobody
  BY HeldParts, ConstantsAssumption DEF Fits
<1>1. messages' = messages /\ splits' = splits
  BY DEF Silent, Boot, Recover, LongTaskEnds, Renew, CheckSource, EndScan, StartRun, SendRun,
         Acknowledge, Blip, StartFails, ScanFails, SendNextFails, LongTask
<1>2. Goes(w, t)' => Goes(w, t)
  <2> USE DEF Goes, Scanning, Goto, Shape
  <2>1. CASE Boot(w) \/ Recover(w) \/ LongTaskEnds(w) \/ Acknowledge(w) \/ LongTask(w) \/ SendNextFails(w)
    <3>1. pc'[w] \in {"recover", "idle", "kick", "busy", "ack"}
      BY <2>1 DEF Boot, Recover, LongTaskEnds, Acknowledge, LongTask, SendNextFails
    <3>q. QED BY <3>1
  <2>2. CASE Renew(w)
    <3>1. CASE IsHolder(w)
      <4>1. pc[w] = "renew" /\ GoOn(w, ctx[w].arg)
        BY <2>2, <3>1 DEF Renew
      <4>2. pc'[w] = "scan" /\ ctx'[w].token = ctx[w].arg
        BY <4>1, <1>0 DEF GoOn, Held
      <4>q. QED BY <4>1, <4>2
    <3>2. CASE ~IsHolder(w)
      <4>1. pc'[w] = "ack"
        BY <2>2, <3>2 DEF Renew, StandDown
      <4>q. QED BY <4>1
    <3>q. QED BY <3>1, <3>2
  <2>3. CASE Blip(w)
    <3>1. pc'[w] = "retry" /\ ctx' = ctx /\ pc[w] \in {"acquire", "renew"}
      BY <2>3 DEF Blip
    <3>q. QED BY <3>1, <1>0 DEF Fit
  <2>4. CASE CheckSource(w) \/ EndScan(w) \/ StartRun(w) \/ SendRun(w) \/ StartFails(w) \/ ScanFails(w)
    <3>1. Scanning(w) /\ ctx'[w].token = ctx[w].token
      BY <2>4, <1>0 DEF CheckSource, EndScan, StartRun, SendRun, StartFails, ScanFails, Skip, Held
    <3>2. pc'[w] \notin {"renew", "retry"}
      BY <2>4 DEF CheckSource, EndScan, StartRun, SendRun, StartFails, ScanFails
    <3>q. QED BY <3>1, <3>2
  <2>q. QED BY <2>1, <2>2, <2>3, <2>4 DEF Silent
<1>3. \A v \in Workers : Goes(v, t)' => Goes(v, t)
  BY <1>2 DEF Apart, Goes, Scanning
<1>q. QED BY <1>1, <1>3, KeepsLinks DEF Shape

LEMMA SendLinks ==
  ASSUME Shape, Shape', Fits, NEW t \in Tokens, Bounded(t), NEW w \in Workers, Apart(w),
         Kick(w) \/ SendSame(w) \/ SendNext(w) \/ ChildDies(w)
  PROVE  Bounded(t)'
<1>0. ctx[w].arg \in Args /\ ctx[w].token \in Args /\ Fit(w) /\ Nobody \in Args /\ Nobody \notin Tokens
      /\ pc'[w] \in {"idle", "ack"}
  BY HeldParts, ConstantsAssumption
     DEF Fits, Args, Kick, SendSame, SendNext, ChildDies, AfterRetry, StandDown, Goto, Shape
<1>1. ~Goes(w, t)'
  BY <1>0 DEF Goes, Scanning
<1>2. CASE Kick(w)
  <2>1. Send(Nobody, FALSE) /\ splits' = splits
    BY <1>2 DEF Kick, faultVars
  <2>2. splits' >= splits
    BY <2>1 DEF Shape
  <2>q. QED BY <1>0, <1>1, <2>1, <2>2, SendsLinks
<1>3. CASE SendSame(w)
  <2>1. Send(ctx[w].arg, TRUE) /\ Goes(w, ctx[w].arg) /\ splits' = splits
    BY <1>3 DEF SendSame, Goes
  <2>2. splits' >= splits
    BY <2>1 DEF Shape
  <2>q. QED BY <1>0, <1>1, <2>1, <2>2, SendsLinks
<1>4. CASE SendNext(w)
  <2>1. Send(ctx[w].token, TRUE) /\ Goes(w, ctx[w].token) /\ splits' = splits
    BY <1>4 DEF SendNext, NextArg, Goes, Scanning
  <2>2. splits' >= splits
    BY <2>1 DEF Shape
  <2>q. QED BY <1>0, <1>1, <2>1, <2>2, SendsLinks
<1>5. CASE ChildDies(w)
  <2>1. Send(ctx[w].arg, FALSE) /\ splits' \in {splits, splits + 1}
    BY <1>5 DEF ChildDies
  <2>2. pc[w] = "ack" /\ ctx[w].arg # Nobody => splits' = splits + 1
    BY <1>5 DEF ChildDies
  <2>3. ctx[w].arg = t => Goes(w, ctx[w].arg) \/ splits' = splits + 1
    BY <1>0, <1>5, <2>2 DEF ChildDies, Executing, Goes, Scanning, Fit
  <2>4. splits' >= splits
    BY <2>1 DEF Shape
  <2>q. QED BY <1>0, <1>1, <2>1, <2>3, <2>4, SendsLinks
<1>q. QED BY <1>2, <1>3, <1>4, <1>5

LEMMA SplitsGrow == Shape /\ [Next]_vars => splits' \in {splits, splits + 1}
<1> SUFFICES ASSUME Shape, [Next]_vars PROVE splits' \in {splits, splits + 1}
  OBVIOUS
<1>1. ASSUME NEW w \in Workers, Of(w) PROVE splits' \in {splits, splits + 1}
  <2>1. CASE ChildDies(w) \/ WorkerKilled(w)
    BY <2>1 DEF ChildDies, WorkerKilled
  <2>2. ASSUME NEW m \in Message, Take(w, m) PROVE splits' = splits
    BY <2>2 DEF Take
  <2>q. QED
    BY <1>1, <2>1, <2>2 DEF Of, Start, Tick, Fail, Boot, Recover, Kick, LongTaskEnds, Acquire, Renew,
       SendSame, CheckSource, EndScan, StartRun, SendRun, SendNext, Acknowledge,
       Blip, StartFails, ScanFails, SendNextFails, LongTask
<1>2. ASSUME ~\E w \in Workers : Of(w) PROVE splits' = splits
  BY <1>2 DEF Next, Of, Reserve, Restore, RunEnds, RecoveryLockExpires, TimePasses, vars
<1>q. QED BY <1>1, <1>2

LEMMA StepChain == Shape /\ Fits /\ ChainInv /\ [Next]_vars => ChainInv'
<1> SUFFICES ASSUME Shape, Fits, ChainInv, [Next]_vars, NEW t \in Tokens
             PROVE  Bounded(t)'
  BY DEF ChainInv
<1>0. Bounded(t) /\ Shape'
  BY StepShape DEF ChainInv
<1>1. ASSUME NEW w \in Workers, Of(w) PROVE Bounded(t)'
  <2>0. Apart(w)
    BY <1>1, StepsApart
  <2>1. ASSUME NEW m \in Message, Take(w, m) PROVE Bounded(t)'
    BY <2>0, <2>1, <1>0, TakeLinks
  <2>2. CASE Acquire(w)
    BY <2>0, <2>2, <1>0, AcquireLinks
  <2>3. CASE Kick(w) \/ SendSame(w) \/ SendNext(w) \/ ChildDies(w)
    BY <2>0, <2>3, <1>0, SendLinks
  <2>4. CASE WorkerKilled(w)
    BY <2>0, <2>4, <1>0, LostLinks
  <2>5. CASE Silent(w)
    BY <2>0, <2>5, <1>0, SilentLinks
  <2>q. QED BY <1>1, <2>1, <2>2, <2>3, <2>4, <2>5 DEF Of, Start, Tick, Fail, Silent
<1>2. ASSUME NEW w \in Workers, NEW m \in Message, Reserve(w, m) PROVE Bounded(t)'
  <2>1. Moved(m, [m EXCEPT !.holder = w]) /\ [m EXCEPT !.holder = w] \in Message
    BY <1>2, ReserveMoves DEF Moved
  <2>2. pc' = pc /\ ctx' = ctx /\ splits' = splits
    BY <1>2 DEF Reserve, execVars
  <2>q. QED BY <2>1, <2>2, <1>0, MovedLinks
<1>3. ASSUME NEW m \in Message, Restore(m) PROVE Bounded(t)'
  <2>1. Moved(m, NewMessage(m.arg, FALSE)) /\ NewMessage(m.arg, FALSE) \in Message
    BY <1>3, RestoreMoves DEF Moved
  <2>2. pc' = pc /\ ctx' = ctx /\ splits' = splits
    BY <1>3 DEF Restore, execVars
  <2>q. QED BY <2>1, <2>2, <1>0, MovedLinks
<1>4. CASE TimePasses
  BY <1>4, <1>0, TimeLinks
<1>5. CASE UNCHANGED <<pc, ctx, messages, splits>>
  <2>1. splits' >= splits /\ \A w \in Workers : Goes(w, t)' => Goes(w, t)
    BY <1>5 DEF Shape, Goes, Scanning
  <2>q. QED BY <1>0, <1>5, <2>1, KeepsLinks
<1>6. ASSUME NEW s \in Sources, RunEnds(s) PROVE UNCHANGED <<pc, ctx, messages, splits>>
  BY <1>6 DEF RunEnds, execVars
<1>7. CASE RecoveryLockExpires \/ UNCHANGED vars
  BY <1>7, <1>5 DEF RecoveryLockExpires, vars, execVars
<1>q. QED BY <1>1, <1>2, <1>3, <1>4, <1>5, <1>6, <1>7 DEF Next, Of

-----------------------------------------------------------------------------
(* Who looks for due sources is alone                                      *)

LEMMA OneScans ==
  ASSUME Shape, Fits, ChainInv, splits = 0, NEW v \in Workers, NEW w \in Workers, Scanning(v), Scanning(w)
  PROVE  v = w
<1>1. lock \in Tokens /\ Goes(v, lock) /\ Goes(w, lock)
  BY DEF Fits, Fit, Goes
<1>2. <<v, 0>> \in Links(lock) /\ <<w, 0>> \in Links(lock)
  BY <1>1, LinkOf
<1>3. IsFiniteSet(Links(lock)) /\ Cardinality(Links(lock)) <= 1 /\ Cardinality(Links(lock)) \in Nat
  BY <1>1, FS_CardinalityType DEF ChainInv, Bounded
<1>4. Links(lock) \ {<<v, 0>>} = {}
  <2>1. /\ IsFiniteSet(Links(lock) \ {<<v, 0>>})
        /\ Cardinality(Links(lock) \ {<<v, 0>>}) = Cardinality(Links(lock)) - 1
    BY <1>2, <1>3, FS_RemoveElement
  <2>2. Cardinality(Links(lock) \ {<<v, 0>>}) = 0
    BY <1>3, <2>1, FS_CardinalityType
  <2>q. QED BY <2>1, <2>2, FS_EmptySet
<1>q. QED BY <1>2, <1>4

LEMMA InitRuns == Init => RunInv
  BY DEF Init, RunInv

LEMMA StepRuns == Shape /\ Fits /\ ChainInv /\ RunInv /\ [Next]_vars => RunInv'
<1> SUFFICES ASSUME Shape, Fits, ChainInv, RunInv, [Next]_vars, splits' = 0 PROVE RunInv'
  BY DEF RunInv
<1>0. splits = 0
  BY SplitsGrow DEF Shape
<1>a. /\ \A s \in Sources : runs[s] <= 1
      /\ \A w \in Workers : pc[w] = "start" => runs[ctx[w].source] <= 0
  BY <1>0 DEF RunInv
<1>b. \A w \in Workers : pc[w] = "start" => ctx[w].source \in Sources
  BY DEF Fits, Fit
<1>1. ASSUME NEW w \in Workers, Of(w) PROVE RunInv'
  <2>0. Apart(w) /\ ctx[w] \in Held
    BY <1>1, StepsApart, HeldParts
  <2>1. CASE StartRun(w)
    <3>1. pc[w] = "start" /\ runs' = [runs EXCEPT ![ctx[w].source] = @ + 1] /\ pc'[w] = "sendrun"
      BY <2>1 DEF StartRun, Goto, Shape
    <3>2. \A s \in Sources : runs'[s] <= 1
      BY <1>a, <1>b, <3>1 DEF Shape
    <3>3. \A v \in Workers : pc'[v] # "start"
      BY <3>1, <2>0, <1>0, OneScans DEF Apart, Scanning
    <3>q. QED BY <3>2, <3>3 DEF RunInv
  <2>2. CASE CheckSource(w)
    <3>1. PICK s \in ctx[w].todo :
            IF s \in due /\ ~HasActiveRun(s)
            THEN Goto(w, "start") /\ ctx' = [ctx EXCEPT ![w].source = s]
            ELSE ctx' = Skip(w, s) /\ UNCHANGED pc
      BY <2>2 DEF CheckSource
    <3>2. s \in Sources /\ runs' = runs /\ pc[w] = "scan"
      BY <2>0, <2>2 DEF Held, CheckSource, runVars
    <3>3. pc'[w] = "start" => ctx'[w].source = s /\ ~HasActiveRun(s)
      BY <3>1, <3>2, <2>0 DEF Goto, Shape, Held
    <3>4. pc'[w] = "start" => runs[ctx'[w].source] <= 0
      BY <3>2, <3>3 DEF HasActiveRun, Shape
    <3>q. QED BY <1>a, <3>2, <3>4, <2>0 DEF RunInv, Apart
  <2>3. ASSUME ~StartRun(w), ~CheckSource(w) PROVE RunInv'
    <3>1. runs' = runs /\ pc'[w] # "start"
      <4>1. ASSUME NEW m \in Message, Take(w, m) PROVE runs' = runs /\ pc'[w] # "start"
        BY <4>1 DEF Take, Goto, Shape, runVars
      <4>2. CASE Acquire(w) \/ Renew(w) \/ SendSame(w) \/ EndScan(w) \/ SendRun(w) \/ SendNext(w) \/ Acknowledge(w)
        BY <4>2 DEF Acquire, Renew, GoOn, StandDown, SendSame, AfterRetry, EndScan, SendRun, SendNext,
                    Acknowledge, Goto, Shape, runVars
      <4>3. CASE Fail(w)
        BY <4>3 DEF Fail, Blip, StartFails, ScanFails, SendNextFails, ChildDies, WorkerKilled, LongTask,
                    Goto, Shape, runVars
      <4>4. CASE Start(w) \/ LongTaskEnds(w)
        BY <4>4 DEF Start, Boot, Recover, Kick, LongTaskEnds, Goto, Shape, runVars
      <4>q. QED BY <1>1, <2>3, <4>1, <4>2, <4>3, <4>4 DEF Of, Tick
    <3>q. QED BY <1>a, <3>1, <2>0 DEF RunInv, Apart
  <2>q. QED BY <2>1, <2>2, <2>3
<1>2. ASSUME NEW s \in Sources, RunEnds(s) PROVE RunInv'
  <2>1. pc' = pc /\ ctx' = ctx /\ \A r \in Sources : runs'[r] <= runs[r]
    BY <1>2 DEF RunEnds, execVars, Shape
  <2>2. runs' \in [Sources -> Int]
    BY <1>2 DEF RunEnds, Shape
  <2>3. \A r \in Sources : runs'[r] <= 1
    BY <2>1, <2>2, <1>a DEF Shape
  <2>4. \A w \in Workers : pc'[w] = "start" => runs'[ctx'[w].source] <= 0
    BY <2>1, <2>2, <1>a, <1>b DEF Shape
  <2>q. QED BY <2>3, <2>4 DEF RunInv
<1>3. CASE UNCHANGED <<pc, ctx, runs>>
  BY <1>3, <1>a DEF RunInv
<1>4. ASSUME ~\E w \in Workers : Of(w), ~\E s \in Sources : RunEnds(s) PROVE UNCHANGED <<pc, ctx, runs>>
  BY <1>4 DEF Next, Of, Reserve, Restore, RecoveryLockExpires, TimePasses, vars, execVars, runVars
<1>q. QED BY <1>1, <1>2, <1>3, <1>4

LEMMA AloneInvariant == Spec => []AloneInv
<1>1. Init => AloneInv
  BY InitShape, InitFits, InitChain, InitRuns DEF AloneInv
<1>2. AloneInv /\ [Next]_vars => AloneInv'
  BY StepShape, StepFits, StepChain, StepRuns DEF AloneInv
<1>q. QED BY <1>1, <1>2, PTL DEF Spec

\* However many workers start, die and restart and whatever is redelivered, a
\* token has one link that goes on, and one more only for each execution that
\* died after it had sent the next tick (confluence_refresh_tick).
THEOREM ChainsAreOne == Spec => []OneChain
<1>1. AloneInv => OneChain
  BY DEF AloneInv, ChainInv, Bounded, OneChain
<1>q. QED BY <1>1, AloneInvariant, PTL

(* Whatever dies and is redelivered, who starts runs holds the lock, and   *)
(* unless a chain was split no source gets a second active run             *)
(* (confluence_refresh_tick, _dispatch_due_refreshes).                     *)
THEOREM RunsStartAlone == Spec => []StartsAlone
<1>1. AloneInv => LeaderScans
  BY DEF AloneInv, Fits, Fit, LeaderScans
<1>2. AloneInv => NoDoubleRun
  BY DEF AloneInv, RunInv, NoDoubleRun
<1>q. QED BY <1>1, <1>2, AloneInvariant, PTL DEF StartsAlone
=============================================================================
