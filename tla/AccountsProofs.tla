--------------------------- MODULE AccountsProofs ----------------------------
(***************************************************************************)
(* What Accounts promises for any number of users, requests and days.      *)
(* Most of it rests on two facts: what a request keeps of an account or a  *)
(* session stays true of it unless the row has gone, and rows that have    *)
(* gone never come back under the same id.                                 *)
(***************************************************************************)
EXTENDS Accounts, FiniteSetTheorems, TLAPS

-----------------------------------------------------------------------------
(* Types, and what requests and sessions say of the accounts               *)

Anonymous == Stages \ {"session", "known", "provision"}

\* What a request at a stage relies on.
Fits(at, c) ==
  /\ at = "expire" => c.change \in Limited
  /\ at = "write" => c.user # 0 /\ c.change \in Changes
  /\ at \in Anonymous => c.via = NoOne
  /\ c.user # 0 => account[c.user].state # "none"
  /\ c.user \in Existing /\ c.via # NoOne => account[c.user].subject = c.via
  /\ at = "use" => c.session # 0
  /\ c.session # 0 => session[c.session].state # "none"
  /\ at \in {"use", "act"} /\ c.session # 0 =>
       clock < session[c.session].created + Cap /\ clock < session[c.session].expires

RequestInv == \A p \in Procs : Fits(pc[p], ctx[p])

SessionInv ==
  \A s \in SessionIds :
    /\ session[s].state = "live" =>
         /\ session[s].user \in Existing
         /\ session[s].via # NoOne => account[session[s].user].subject = session[s].via
    /\ session[s].state # "none" => session[s].expires <= session[s].created + Cap

Base == TypeOK /\ RequestInv /\ SessionInv

LEMMA Constants ==
  /\ Users \subseteq Nat /\ 0 \notin Users /\ 1 \in Users /\ NoOne \notin Subjects /\ NoOne \notin Procs
  /\ MaxFailed \in Nat \ {0} /\ TokenCap \in Nat \ {0} /\ Window \in Nat \ {0} /\ Cap \in Nat \ {0} /\ Window <= Cap
  /\ MaxRequests \in Nat /\ MaxDays \in Nat /\ MaxFaults \in Nat
  /\ SessionIds \subseteq Nat /\ 0 \notin SessionIds /\ 1 \in SessionIds
BY ConstantsAssumption DEF SessionIds

LEMMA BlankTyped ==
  /\ NoBrake \in Brake /\ NoSession \in Session /\ Nobody \in Account /\ Blank \in Context
  /\ Nobody.state = "none" /\ Nobody.subject = NoOne /\ ~Nobody.admin /\ NoSession.state = "none"
  /\ Blank.user = 0 /\ Blank.session = 0 /\ Blank.via = NoOne /\ Blank.row = Nobody
<1>1. PICK e : e \in Emails /\ Nobody = [state |-> "none", admin |-> FALSE, password |-> FALSE, subject |-> NoOne,
                                         linked |-> FALSE, email |-> e]
  BY ConstantsAssumption DEF Nobody
<1>2. Nobody \in Account /\ Nobody.state = "none" /\ Nobody.subject = NoOne /\ ~Nobody.admin
  BY <1>1 DEF Account
<1>3. NoBrake \in Brake /\ NoSession \in Session /\ NoSession.state = "none"
  BY DEF NoBrake, Brake, NoSession, Session
<1>4. Blank \in Context /\ Blank.user = 0 /\ Blank.session = 0 /\ Blank.via = NoOne /\ Blank.row = Nobody
  BY <1>2, <1>3 DEF Blank, Context
<1>q. QED BY <1>2, <1>3, <1>4

LEMMA RootTyped ==
  ASSUME NEW e \in Emails
  PROVE  Root(e) \in Account /\ Root(e).state = "active" /\ Root(e).admin /\ Root(e).subject = NoOne /\ Root(e).email = e
BY BlankTyped DEF Root, Account

LEMMA InitBase == Init => Base
<1> SUFFICES ASSUME Init PROVE Base  OBVIOUS
<1> USE Constants, BlankTyped
<1>1. PICK installed \in BOOLEAN, e \in Emails :
        /\ account = [u \in Users |-> IF installed /\ u = 1 THEN Root(e) ELSE Nobody]
        /\ session = [s \in SessionIds |-> IF installed /\ s = 1
                                           THEN [NoSession EXCEPT !.state = "live", !.user = 1, !.expires = Window]
                                           ELSE NoSession]
        /\ setups = IF installed THEN 1 ELSE 0
        /\ provider = IF installed THEN "enabled" ELSE "absent"
  BY DEF Init
<1>2. account \in [Users -> Account]
  BY <1>1, RootTyped
<1>3. [NoSession EXCEPT !.state = "live", !.user = 1, !.expires = Window] \in Session
  BY DEF NoSession, Session
<1>4. session \in [SessionIds -> Session]
  BY <1>1, <1>3
<1>5. brake \in [Users -> Brake] /\ tokens \in [Users -> Nat] /\ tries \in [Users -> Nat]
      /\ ctx \in [Procs -> Context]
  BY DEF Init
<1>6. pc \in [Procs -> Stages]
  BY DEF Init, Stages
<1>11. setupLock = NoOne /\ counter = 0 /\ ttl = FALSE /\ clock = 0 /\ started = 0 /\ faults = 0
       /\ raced = {} /\ contested = FALSE
  BY DEF Init
<1>12. provider \in {"enabled", "absent"} /\ setups \in Nat
  BY <1>1
<1>13. clock \in 0..MaxDays /\ started \in 0..MaxRequests /\ faults \in 0..MaxFaults
  BY <1>11
<1>7. TypeOK
  BY <1>2, <1>4, <1>5, <1>6, <1>11, <1>12, <1>13 DEF TypeOK
<1>8. RequestInv
  BY DEF Init, RequestInv, Fits, Existing
<1>9. \A s \in SessionIds : session[s].state # "none" =>
        session[s].user = 1 /\ session[s].via = NoOne /\ session[s].expires = Window /\ session[s].created = 0
        /\ account[1] = Root(e)
  BY <1>1 DEF NoSession
<1>10. SessionInv
  BY <1>9, RootTyped DEF SessionInv, Existing
<1>q. QED BY <1>7, <1>8, <1>10 DEF Base

-----------------------------------------------------------------------------
(* How rows change                                                         *)

\* An id keeps its person until its row has gone.
AccountsKept ==
  \A u \in Users : account[u].state # "none" =>
    /\ account'[u].state # "none"
    /\ account'[u].state \in {"active", "inactive"} =>
         account[u].state \in {"active", "inactive"} /\ account'[u].subject = account[u].subject

NobodyLeaves == \A u \in Existing : account'[u].state \in {"active", "inactive"} /\ account'[u].subject = account[u].subject

SessionsKept ==
  \A s \in SessionIds : session[s].state # "none" =>
    /\ session'[s].state # "none" /\ session'[s].created = session[s].created
    /\ clock < session[s].expires /\ clock < session[s].created + Cap => clock < session'[s].expires

Others(p) == \A q \in Procs : q # p => pc'[q] = pc[q] /\ ctx'[q] = ctx[q]

\* A request that moves leaves the others what they rely on.
LEMMA OneMoves ==
  ASSUME Base, NEW p \in Procs, Others(p), Fits(pc[p], ctx[p])', AccountsKept, SessionsKept, clock' = clock
  PROVE  RequestInv'
<1> SUFFICES ASSUME NEW q \in Procs, q # p PROVE Fits(pc[q], ctx[q])'
  BY DEF RequestInv
<1>1. Fits(pc[q], ctx[q]) /\ ctx[q] \in Context /\ pc'[q] = pc[q] /\ ctx'[q] = ctx[q]
  BY DEF Base, RequestInv, TypeOK, Others
<1>2. ctx[q].user \in Users \cup {0} /\ ctx[q].session \in SessionIds \cup {0}
  BY <1>1 DEF Context
<1> DEFINE c == ctx[q]
           u == c.user
           s == c.session
<1>3. u # 0 => account'[u].state # "none"
  BY <1>1, <1>2 DEF Fits, AccountsKept
<1>4. u \in Existing' /\ c.via # NoOne => account'[u].subject = c.via
  BY <1>1, <1>2, Constants DEF Fits, AccountsKept, Existing
<1>5. s # 0 => session'[s].state # "none"
  BY <1>1, <1>2 DEF Fits, SessionsKept
<1>6. pc[q] \in {"use", "act"} /\ s # 0 => clock < session'[s].created + Cap /\ clock < session'[s].expires
  BY <1>1, <1>2 DEF Fits, SessionsKept
<1>q. QED BY <1>1, <1>3, <1>4, <1>5, <1>6 DEF Fits

\* Sessions that nobody touches still belong to somebody.
LEMMA SessionsStand ==
  ASSUME Base, session' = session, NobodyLeaves
  PROVE  SessionInv' /\ SessionsKept
<1>1. SessionInv /\ session \in [SessionIds -> Session]
  BY DEF Base, TypeOK
<1>2. \A u \in Existing : u \in Existing' /\ account'[u].subject = account[u].subject
  BY DEF NobodyLeaves, Existing
<1>q. QED BY <1>1, <1>2 DEF SessionInv, SessionsKept

LEMMA AccountsStand ==
  ASSUME Base, account' = account
  PROVE  AccountsKept /\ NobodyLeaves
BY DEF AccountsKept, NobodyLeaves, Existing

\* A row for somebody new.
LEMMA AccountMade ==
  ASSUME Base, Free # {}, NEW a \in Account, a.state = "active", account' = [account EXCEPT ![FreshUser] = a]
  PROVE  /\ account' \in [Users -> Account] /\ AccountsKept /\ NobodyLeaves
         /\ FreshUser \in Users /\ account[FreshUser].state = "none" /\ account'[FreshUser] = a
         /\ \A u \in Users : u # FreshUser => account'[u] = account[u]
<1>1. FreshUser \in Users /\ account[FreshUser].state = "none"
  BY DEF FreshUser, Free
<1>2. account \in [Users -> Account]
  BY DEF Base, TypeOK
<1>3. account' \in [Users -> Account] /\ account'[FreshUser] = a /\ \A u \in Users : u # FreshUser => account'[u] = account[u]
  BY <1>1, <1>2
<1>4. AccountsKept /\ NobodyLeaves
  BY <1>1, <1>3 DEF AccountsKept, NobodyLeaves, Existing
<1>q. QED BY <1>1, <1>3, <1>4

\* _create_session, for an account that may have gone meanwhile.
LEMMA SessionMade ==
  ASSUME Base, NEW u \in Users \cup {0}, NEW via \in Subjects \cup {NoOne}, NewSession(u, via),
         u \in Existing /\ via # NoOne => account[u].subject = via, NobodyLeaves
  PROVE  session' \in [SessionIds -> Session] /\ SessionInv' /\ SessionsKept
<1> USE Constants
<1>0. session \in [SessionIds -> Session] /\ clock \in Nat /\ SessionInv
  BY DEF Base, TypeOK
<1>1. CASE session' = session
  BY <1>0, <1>1, SessionsStand
<1>2. CASE u \in Existing /\ Unused # {}
  <2> DEFINE n == CHOOSE s \in Unused : TRUE
             r == [state |-> "live", user |-> u, via |-> via, created |-> clock, expires |-> clock + Window]
  <2>1. n \in SessionIds /\ session[n].state = "none"
    BY <1>2 DEF Unused
  <2>2. r \in Session /\ r.state = "live" /\ r.user = u /\ r.via = via /\ r.expires <= r.created + Cap
    BY <1>0 DEF Session
  <2>3. session' = [session EXCEPT ![n] = r]
    BY <1>2 DEF NewSession
  <2> HIDE DEF n, r
  <2>4. session' \in [SessionIds -> Session] /\ session'[n] = r /\ \A s \in SessionIds : s # n => session'[s] = session[s]
    BY <1>0, <2>1, <2>2, <2>3
  <2>5. \A o \in Existing : o \in Existing' /\ account'[o].subject = account[o].subject
    BY DEF NobodyLeaves, Existing
  <2>6. SessionInv'
    BY <1>0, <1>2, <2>2, <2>4, <2>5 DEF SessionInv
  <2>7. SessionsKept
    BY <2>1, <2>4 DEF SessionsKept
  <2>q. QED BY <2>4, <2>6, <2>7
<1>q. QED BY <1>1, <1>2 DEF NewSession

\* A session that is renewed or ended.
LEMMA SessionChanged ==
  ASSUME Base, account' = account, NEW s \in SessionIds,
         NEW r \in Session, session' = [session EXCEPT ![s] = r],
         session[s].state # "none", r.state = session[s].state \/ r.state = "gone",
         r.user = session[s].user, r.via = session[s].via, r.created = session[s].created,
         r.expires <= r.created + Cap,
         clock < session[s].expires /\ clock < session[s].created + Cap => clock < r.expires
  PROVE  session' \in [SessionIds -> Session] /\ SessionInv' /\ SessionsKept
<1>0. session \in [SessionIds -> Session] /\ SessionInv
  BY DEF Base, TypeOK
<1>1. session' \in [SessionIds -> Session] /\ session'[s] = r /\ \A o \in SessionIds : o # s => session'[o] = session[o]
  BY <1>0
<1>2. r.state \in {"live", "gone"} /\ (r.state = "live" => session[s].state = "live")
  BY <1>0 DEF Session
<1>3. SessionInv'
  BY <1>0, <1>1, <1>2 DEF SessionInv, Existing
<1>4. SessionsKept
  BY <1>1, <1>2 DEF SessionsKept
<1>q. QED BY <1>1, <1>3, <1>4

-----------------------------------------------------------------------------
(* Each step keeps the types, and what requests and sessions rely on       *)

LEMMA Moved ==
  ASSUME Base, NEW p \in Procs, NEW at \in Stages, NEW c \in Context,
         pc' = [pc EXCEPT ![p] = at], ctx' = [ctx EXCEPT ![p] = c]
  PROVE  /\ pc' \in [Procs -> Stages] /\ ctx' \in [Procs -> Context]
         /\ pc'[p] = at /\ ctx'[p] = c /\ Others(p)
BY DEF Base, TypeOK, Others

LEMMA Finished ==
  ASSUME Base, NEW p \in Procs, Done(p)
  PROVE  /\ pc' \in [Procs -> Stages] /\ ctx' \in [Procs -> Context] /\ Others(p)
         /\ pc'[p] = "idle" /\ ctx'[p] = Blank /\ Fits(pc[p], ctx[p])'
<1>1. pc' = [pc EXCEPT ![p] = "idle"] /\ ctx' = [ctx EXCEPT ![p] = Blank] /\ "idle" \in Stages /\ Blank \in Context
  BY BlankTyped DEF Done, Goto, Stages
<1>2. /\ pc' \in [Procs -> Stages] /\ ctx' \in [Procs -> Context] /\ Others(p)
      /\ pc'[p] = "idle" /\ ctx'[p] = Blank
  BY <1>1, Moved
<1>3. Fits(pc[p], ctx[p])'
  BY <1>2, BlankTyped, Constants DEF Fits, Existing
<1>q. QED BY <1>2, <1>3

\* A step that moves a request and nothing in the tables.
LEMMA RowsStay ==
  ASSUME Base, NEW p \in Procs, account' = account, session' = session, clock' = clock,
         Others(p), Fits(pc[p], ctx[p])'
  PROVE  RequestInv' /\ SessionInv'
BY AccountsStand, SessionsStand, OneMoves

LEMMA CountRequestBase ==
  ASSUME Base, NEW p \in Procs, NEW kind \in Limited, CountRequest(p, kind)
  PROVE  Base'
<1> USE DEF CountRequest, Begin, Fault, data, limiter, history
<1>0. TypeOK /\ Fits(pc[p], ctx[p]) /\ ctx[p] \in Context /\ pc[p] = "idle" /\ kind \in Stages
  BY DEF Base, RequestInv, TypeOK, Stages
<1>1. PICK at \in Stages, c \in Context :
        /\ pc' = [pc EXCEPT ![p] = at] /\ ctx' = [ctx EXCEPT ![p] = c]
        /\ at = "expire" => c.change = kind
        /\ at \in {"expire", "idle", kind}
        /\ c.user = ctx[p].user /\ c.session = ctx[p].session /\ c.via = ctx[p].via
  <2> DEFINE c == [ctx[p] EXCEPT !.change = kind]
  <2>1. c \in Context /\ c.change = kind /\ c.user = ctx[p].user /\ c.session = ctx[p].session /\ c.via = ctx[p].via
    BY <1>0 DEF Context
  <2>2. \/ pc' = [pc EXCEPT ![p] = "expire"] /\ ctx' = [ctx EXCEPT ![p] = c]
        \/ ctx' = ctx /\ pc' = [pc EXCEPT ![p] = "idle"]
        \/ ctx' = ctx /\ pc' = [pc EXCEPT ![p] = kind]
    BY Zenon DEF Goto
  <2>3. ctx = [ctx EXCEPT ![p] = ctx[p]]
    BY <1>0 DEF TypeOK
  <2> HIDE DEF c
  <2>4. "expire" \in Stages /\ "idle" \in Stages /\ kind # "expire"
    BY DEF Stages, Limited
  <2>5. CASE pc' = [pc EXCEPT ![p] = "expire"] /\ ctx' = [ctx EXCEPT ![p] = c]
    BY <2>1, <2>4, <2>5
  <2>6. CASE ctx' = ctx /\ pc' = [pc EXCEPT ![p] = "idle"]
    BY <1>0, <2>3, <2>4, <2>6
  <2>7. CASE ctx' = ctx /\ pc' = [pc EXCEPT ![p] = kind]
    BY <1>0, <2>3, <2>4, <2>7
  <2>q. QED BY <2>2, <2>5, <2>6, <2>7
<1>2. /\ pc' \in [Procs -> Stages] /\ ctx' \in [Procs -> Context]
      /\ pc'[p] = at /\ ctx'[p] = c /\ Others(p)
  BY <1>1, Moved
<1>3. Fits(pc[p], ctx[p])'
  <2>1. account' = account /\ session' = session /\ clock' = clock
    OBVIOUS
  <2>2. at \in Anonymous /\ "idle" \in Anonymous /\ at \notin {"use", "act", "write"}
    BY <1>1 DEF Anonymous, Stages, Limited
  <2>q. QED BY <1>0, <1>1, <1>2, <2>1, <2>2 DEF Fits, Existing
<1>4. RequestInv' /\ SessionInv'
  BY <1>2, <1>3, RowsStay
<1>5. started' \in 0..MaxRequests /\ faults' \in 0..MaxFaults /\ counter' \in Nat
  BY <1>0, Constants DEF TypeOK
<1>6. TypeOK'
  BY <1>0, <1>2, <1>5 DEF TypeOK
<1>q. QED BY <1>4, <1>6 DEF Base

LEMMA SetExpiryBase ==
  ASSUME Base, NEW p \in Procs, SetExpiry(p)
  PROVE  Base'
<1> USE DEF SetExpiry, Fault, data, history
<1>0. TypeOK /\ Fits(pc[p], ctx[p]) /\ pc[p] = "expire"
  BY DEF Base, RequestInv, TypeOK
<1>1. ctx[p].change \in Limited
  BY <1>0 DEF Fits
<1>2. PICK at \in Limited : at = ctx[p].change
  BY <1>1
<1>3. /\ pc' \in [Procs -> Stages] /\ ctx' \in [Procs -> Context]
      /\ pc'[p] = at /\ ctx'[p] = Blank /\ Others(p)
  BY <1>2, Moved, BlankTyped DEF Goto, Stages
<1>4. Fits(pc[p], ctx[p])'
  BY <1>3, BlankTyped, Constants DEF Fits, Existing, Limited
<1>5. RequestInv' /\ SessionInv'
  BY <1>3, <1>4, RowsStay
<1>6. faults' \in 0..MaxFaults
  BY <1>0, Constants DEF TypeOK
<1>8. ttl' \in BOOLEAN
  <2>1. Expiring(counter) \in BOOLEAN
    <3>1. counter \in Nat  BY <1>0 DEF TypeOK
    <3>q. QED BY <3>1 DEF Expiring
  <2>2. ttl \in BOOLEAN
    BY <1>0 DEF TypeOK
  <2>q. QED BY <2>1, <2>2, Zenon
<1>7. TypeOK'
  BY <1>0, <1>3, <1>6, <1>8 DEF TypeOK
<1>q. QED BY <1>5, <1>7 DEF Base

LEMMA TakeSetupLockBase ==
  ASSUME Base, NEW p \in Procs, TakeSetupLock(p)
  PROVE  Base'
<1> USE DEF TakeSetupLock, data, limiter, bounds, history
<1>0. TypeOK /\ Fits(pc[p], ctx[p]) /\ pc[p] = "setup" /\ ctx[p] \in Context
  BY DEF Base, RequestInv, TypeOK
<1>1. PICK at \in {"install", "idle"} : pc' = [pc EXCEPT ![p] = at]
  BY DEF Goto
<1>2. /\ pc' \in [Procs -> Stages] /\ ctx' \in [Procs -> Context]
      /\ pc'[p] = at /\ ctx'[p] = ctx[p] /\ Others(p)
  BY <1>0, <1>1 DEF TypeOK, Others, Stages
<1>3. Fits(pc[p], ctx[p])'
  BY <1>0, <1>2 DEF Fits, Existing, Anonymous, Stages, Limited
<1>4. RequestInv' /\ SessionInv'
  BY <1>2, <1>3, RowsStay
<1>5. TypeOK'
  BY <1>0, <1>2 DEF TypeOK
<1>q. QED BY <1>4, <1>5 DEF Base

LEMMA InstallAdminBase ==
  ASSUME Base, NEW p \in Procs, InstallAdmin(p)
  PROVE  Base'
<1> USE DEF InstallAdmin, limiter, bounds
<1>0. TypeOK /\ Fits(pc[p], ctx[p]) /\ pc[p] = "install" /\ ctx[p] \in Context
  BY DEF Base, RequestInv, TypeOK
<1>1. PICK e \in Emails :
        IF EmailTaken(e, 0) \/ Free = {} THEN Done(p) /\ UNCHANGED <<account, setups>>
        ELSE /\ account' = [account EXCEPT ![FreshUser] = Root(e)] /\ setups' = setups + 1
             /\ Goto(p, "session") /\ ctx' = [ctx EXCEPT ![p].user = FreshUser]
  OBVIOUS
<1>2. CASE EmailTaken(e, 0) \/ Free = {}
  <2>1. RequestInv' /\ SessionInv'
    BY <1>1, <1>2, Finished, RowsStay
  <2>2. TypeOK'
    BY <1>0, <1>1, <1>2, Finished DEF TypeOK
  <2>q. QED BY <2>1, <2>2 DEF Base
<1>3. CASE ~(EmailTaken(e, 0) \/ Free = {})
  <2>1. account' = [account EXCEPT ![FreshUser] = Root(e)] /\ Free # {} /\ setups' = setups + 1
        /\ pc' = [pc EXCEPT ![p] = "session"] /\ ctx' = [ctx EXCEPT ![p].user = FreshUser]
    BY <1>1, <1>3 DEF Goto
  <2>2. /\ account' \in [Users -> Account] /\ AccountsKept /\ NobodyLeaves
        /\ FreshUser \in Users /\ account[FreshUser].state = "none" /\ account'[FreshUser] = Root(e)
    BY <2>1, RootTyped, AccountMade
  <2> DEFINE c == [ctx[p] EXCEPT !.user = FreshUser]
  <2>3. c \in Context /\ c.user = FreshUser /\ c.via = ctx[p].via /\ c.session = ctx[p].session
    BY <1>0, <2>2 DEF Context
  <2>4. ctx' = [ctx EXCEPT ![p] = c]
    BY <2>1
  <2> HIDE DEF c
  <2>5. /\ pc' \in [Procs -> Stages] /\ ctx' \in [Procs -> Context]
        /\ pc'[p] = "session" /\ ctx'[p] = c /\ Others(p)
    BY <2>1, <2>3, <2>4, Moved DEF Stages
  <2>6. ctx[p].via = NoOne
    BY <1>0 DEF Fits, Anonymous, Stages
  <2>7. Fits(pc[p], ctx[p])'
    BY <1>0, <2>2, <2>3, <2>5, <2>6, RootTyped DEF Fits, Existing, Anonymous, Stages
  <2>8. RequestInv' /\ SessionInv'
    BY <2>2, <2>5, <2>7, SessionsStand, OneMoves
  <2>9. TypeOK'
    BY <1>0, <2>1, <2>2, <2>5 DEF TypeOK
  <2>q. QED BY <2>8, <2>9 DEF Base
<1>q. QED BY <1>2, <1>3

LEMMA CreateSessionBase ==
  ASSUME Base, NEW p \in Procs, CreateSession(p)
  PROVE  Base'
<1> USE DEF CreateSession, limiter, bounds, history
<1>0. TypeOK /\ Fits(pc[p], ctx[p]) /\ ctx[p] \in Context
  BY DEF Base, RequestInv, TypeOK
<1>1. session' \in [SessionIds -> Session] /\ SessionInv' /\ SessionsKept /\ AccountsKept
  <2>1. ctx[p].user \in Users \cup {0} /\ ctx[p].via \in Subjects \cup {NoOne}
    BY <1>0 DEF Context
  <2>2. ctx[p].user \in Existing /\ ctx[p].via # NoOne => account[ctx[p].user].subject = ctx[p].via
    BY <1>0 DEF Fits
  <2>q. QED BY <2>1, <2>2, AccountsStand, SessionMade
<1>2. RequestInv'
  BY <1>1, Finished, OneMoves
<1>3. TypeOK'
  BY <1>0, <1>1, Finished DEF TypeOK
<1>q. QED BY <1>1, <1>2, <1>3 DEF Base

\* What a request takes down of an account.
LEMMA NotedUser ==
  ASSUME Base, NEW u \in Users, account[u].state # "none"
  PROVE  /\ LET c == [Blank EXCEPT !.user = u, !.row = account[u]]
            IN c \in Context /\ c.user = u /\ c.via = NoOne /\ c.session = 0
         /\ LET c == [Blank EXCEPT !.user = u]
            IN c \in Context /\ c.user = u /\ c.via = NoOne /\ c.session = 0
         /\ \A change \in Changes :
              LET c == [Blank EXCEPT !.user = u, !.change = change]
              IN c \in Context /\ c.user = u /\ c.via = NoOne /\ c.session = 0 /\ c.change = change
         /\ \A s \in SessionIds :
              LET c == [Blank EXCEPT !.user = u, !.session = s, !.row = account[u]]
              IN c \in Context /\ c.user = u /\ c.via = NoOne /\ c.session = s
BY BlankTyped DEF Base, TypeOK, Context

\* A request that knows an account, and no session of it.
LEMMA KnowsUser ==
  ASSUME Base, NEW p \in Procs, NEW u \in Users, account[u].state # "none", NEW c \in Context,
         c.user = u, c.via = NoOne, c.session = 0,
         NEW at \in Stages \ {"expire", "use"}, at = "write" => c.change \in Changes,
         pc' = [pc EXCEPT ![p] = at], ctx' = [ctx EXCEPT ![p] = c], account' = account, session' = session, clock' = clock
  PROVE  /\ pc' \in [Procs -> Stages] /\ ctx' \in [Procs -> Context] /\ Others(p)
         /\ pc'[p] = at /\ ctx'[p] = c /\ RequestInv' /\ SessionInv'
<1>1. /\ pc' \in [Procs -> Stages] /\ ctx' \in [Procs -> Context]
      /\ pc'[p] = at /\ ctx'[p] = c /\ Others(p)
  BY Moved
<1>2. Fits(pc[p], ctx[p])'
  BY <1>1, Constants DEF Fits
<1>q. QED BY <1>1, <1>2, RowsStay

LEMMA ReadLoginBase ==
  ASSUME Base, NEW p \in Procs, ReadLogin(p)
  PROVE  Base'
<1> USE DEF ReadLogin, data, limiter, bounds
<1>0. TypeOK  BY DEF Base
<1>1. PICK u \in Existing, right \in BOOLEAN :
        /\ ctx' = [ctx EXCEPT ![p] = [Blank EXCEPT !.user = u, !.right = right, !.row = account[u], !.failed = brake[u]]]
        /\ raced' = IF \E q \in Procs \ {p} : pc[q] = "verify" /\ ctx[q].user = u THEN raced \cup {u} ELSE raced
  OBVIOUS
<1>2. u \in Users /\ account[u].state # "none" /\ "verify" \in Stages \ {"expire", "use"} /\ pc' = [pc EXCEPT ![p] = "verify"]
  BY DEF Existing, Stages, Goto
<1>3. /\ pc' \in [Procs -> Stages] /\ ctx' \in [Procs -> Context]
      /\ RequestInv' /\ SessionInv'
  <2> DEFINE note == [Blank EXCEPT !.user = u, !.right = right, !.row = account[u], !.failed = brake[u]]
  <2>3. note \in Context /\ note.user = u /\ note.via = NoOne /\ note.session = 0
    BY <1>0, <1>2, BlankTyped DEF TypeOK, Context
  <2>1. PICK c \in Context : c = note /\ c.user = u /\ c.via = NoOne /\ c.session = 0
    BY <2>3
  <2>2. ctx' = [ctx EXCEPT ![p] = c]
    BY <1>1, <2>1
  <2>q. QED BY <1>2, <2>1, <2>2, KnowsUser
<1>4. raced' \subseteq Users
  BY <1>0, <1>1, <1>2 DEF TypeOK
<1>5. TypeOK'
  BY <1>0, <1>3, <1>4 DEF TypeOK
<1>q. QED BY <1>3, <1>5 DEF Base

LEMMA BrakeTyped ==
  ASSUME NEW b \in Brake, NEW now \in Brake
  PROVE  /\ Registered(b, now) \in Brake /\ Cleared(b, now) \in Brake /\ Later(b) \in Brake
         /\ Streak(b) \in Nat
<1>1. Streak(b) \in Nat
  BY DEF Streak, Brake
<1>2. Registered(b, now) \in Brake
  BY <1>1, Constants DEF Registered, Brake
<1>3. Cleared(b, now) \in Brake
  BY DEF Cleared, Brake
<1>4. Later(b) \in Brake
  BY DEF Later, Brake
<1>q. QED BY <1>1, <1>2, <1>3, <1>4

LEMMA VerifyBase ==
  ASSUME Base, NEW p \in Procs, Verify(p)
  PROVE  Base'
<1> DEFINE u == ctx[p].user
<1>0. TypeOK /\ Fits(pc[p], ctx[p]) /\ pc[p] = "verify" /\ ctx[p] \in Context
  BY DEF Base, RequestInv, TypeOK, Verify
<1>1. /\ account' = account /\ session' = session /\ clock' = clock /\ tokens' = tokens
      /\ UNCHANGED <<provider, setupLock, limiter, bounds, setups, raced, contested>>
  BY DEF Verify
<1>2. ctx[p].failed \in Brake /\ u \in Users \cup {0} /\ brake \in [Users -> Brake] /\ tries \in [Users -> Nat]
  BY <1>0 DEF Context, TypeOK
<1>3. CASE Done(p) /\ UNCHANGED <<brake, tries>>
  <2>1. RequestInv' /\ SessionInv'
    BY <1>1, <1>3, Finished, RowsStay
  <2>2. TypeOK'
    BY <1>0, <1>1, <1>3, Finished DEF TypeOK, limiter, bounds
  <2>q. QED BY <2>1, <2>2 DEF Base
<1>4. CASE /\ u \in Existing /\ Done(p) /\ brake' = [brake EXCEPT ![u] = Registered(ctx[p].failed, @)]
           /\ tries' = [tries EXCEPT ![u] = IF @ + 1 >= MaxFailed THEN 0 ELSE @ + 1]
  <2>1. RequestInv' /\ SessionInv'
    BY <1>1, <1>4, Finished, RowsStay
  <2>2. brake' \in [Users -> Brake] /\ tries' \in [Users -> Nat]
    <3>1. u \in Users /\ brake[u] \in Brake /\ tries[u] \in Nat
      BY <1>2, <1>4 DEF Existing
    <3>2. Registered(ctx[p].failed, brake[u]) \in Brake
      BY <1>2, <3>1, BrakeTyped
    <3>3. (IF tries[u] + 1 >= MaxFailed THEN 0 ELSE tries[u] + 1) \in Nat
      BY <3>1
    <3> HIDE DEF u
    <3>4. brake' \in [Users -> Brake]
      BY <1>2, <1>4, <3>1, <3>2
    <3>5. tries' \in [Users -> Nat]
      BY <1>2, <1>4, <3>1, <3>3
    <3>q. QED BY <3>4, <3>5
  <2>3. TypeOK'
    BY <1>0, <1>1, <1>4, <2>2, Finished DEF TypeOK, limiter, bounds
  <2>q. QED BY <2>1, <2>3 DEF Base
<1>5. CASE /\ u \in Existing /\ brake' = [brake EXCEPT ![u] = Cleared(ctx[p].failed, @)]
           /\ tries' = [tries EXCEPT ![u] = 0]
           /\ Goto(p, "session") /\ ctx' = [ctx EXCEPT ![p] = [Blank EXCEPT !.user = u]]
  <2>1. u \in Users /\ account[u].state # "none" /\ "session" \in Stages \ {"expire", "use"} /\ pc' = [pc EXCEPT ![p] = "session"]
    BY <1>5 DEF Existing, Stages, Goto
  <2> DEFINE note == [Blank EXCEPT !.user = u]
  <2>8. note \in Context /\ note.user = u /\ note.via = NoOne /\ note.session = 0
    BY <2>1, BlankTyped DEF Context
  <2>2. PICK c \in Context : c = note /\ c.user = u /\ c.via = NoOne /\ c.session = 0
    BY <2>8
  <2>3. ctx' = [ctx EXCEPT ![p] = c]
    BY <1>5, <2>2
  <2> HIDE DEF u
  <2>4. PICK o \in Users : o = u
    BY <2>1
  <2>5. pc' \in [Procs -> Stages] /\ ctx' \in [Procs -> Context] /\ RequestInv' /\ SessionInv'
    BY <1>1, <2>1, <2>2, <2>3, <2>4, KnowsUser
  <2>6. brake' \in [Users -> Brake] /\ tries' \in [Users -> Nat]
    BY <1>2, <1>5, BrakeTyped DEF Existing
  <2>7. TypeOK'
    BY <1>0, <1>1, <2>5, <2>6 DEF TypeOK, limiter, bounds
  <2>q. QED BY <2>5, <2>7 DEF Base
<1>q. QED BY <1>3, <1>4, <1>5 DEF Verify

LEMMA ReadSessionBase ==
  ASSUME Base, NEW p \in Procs, ReadSession(p)
  PROVE  Base'
<1> USE DEF ReadSession, Begin, limiter, history
<1>0. TypeOK /\ SessionInv /\ session \in [SessionIds -> Session] /\ clock \in Nat /\ pc \in [Procs -> Stages] /\ ctx \in [Procs -> Context]
  BY DEF Base, TypeOK
<1>1. PICK s \in SessionIds :
       /\ session[s].state = "live"
       /\ IF Usable(s)
          THEN /\ Goto(p, "use") /\ UNCHANGED session
               /\ ctx' = [ctx EXCEPT ![p] = [Blank EXCEPT !.user = session[s].user, !.session = s,
                                                          !.row = account[session[s].user]]]
          ELSE session' = [session EXCEPT ![s].state = "gone"] /\ UNCHANGED <<pc, ctx>>
  OBVIOUS
<1>2. session[s].user \in Users /\ account[session[s].user].state # "none" /\ session[s].expires <= session[s].created + Cap
      /\ session[s] \in Session
  BY <1>0, <1>1 DEF SessionInv, Existing
<1>3. started' \in 0..MaxRequests
  BY <1>0, Constants DEF TypeOK
<1>4. account' = account /\ clock' = clock
  OBVIOUS
<1>5. CASE Usable(s)
  <2> DEFINE note == [Blank EXCEPT !.user = session[s].user, !.session = s, !.row = account[session[s].user]]
  <2>1. note \in Context /\ note.user = session[s].user /\ note.via = NoOne /\ note.session = s
    BY <1>0, <1>2, BlankTyped DEF TypeOK, Context
  <2>2. PICK c \in Context : c = note /\ c.user = session[s].user /\ c.via = NoOne /\ c.session = s
    BY <2>1
  <2>3. /\ pc' \in [Procs -> Stages] /\ ctx' \in [Procs -> Context]
        /\ pc'[p] = "use" /\ ctx'[p] = c /\ Others(p) /\ session' = session
    BY <1>1, <1>5, <2>2, Moved DEF Goto, Stages
  <2>4. clock < session[s].expires /\ clock < session[s].created + Cap
    BY <1>0, <1>2, <1>5, Constants DEF Usable, Session
  <2>5. Fits(pc[p], ctx[p])'
    BY <1>1, <1>2, <1>4, <2>2, <2>3, <2>4, Constants DEF Fits
  <2>6. RequestInv' /\ SessionInv'
    BY <1>4, <2>3, <2>5, RowsStay
  <2>7. TypeOK'
    BY <1>0, <1>3, <2>3 DEF TypeOK
  <2>q. QED BY <2>6, <2>7 DEF Base
<1>6. CASE ~Usable(s)
  <2> DEFINE r == [session[s] EXCEPT !.state = "gone"]
  <2>1. r \in Session /\ r.state = "gone" /\ r.user = session[s].user /\ r.via = session[s].via
        /\ r.created = session[s].created /\ r.expires = session[s].expires
    BY <1>2 DEF Session
  <2>2. session' = [session EXCEPT ![s] = r] /\ pc' = pc /\ ctx' = ctx
    BY <1>1, <1>6
  <2> HIDE DEF r
  <2>3. PICK row \in Session : row = r
    BY <2>1
  <2>4. session' \in [SessionIds -> Session] /\ SessionInv' /\ SessionsKept
    BY <1>1, <1>2, <1>4, <2>1, <2>2, <2>3, SessionChanged
  <2>5. \A q \in Procs : Others(q) /\ AccountsKept
    BY <1>4, <2>2, AccountsStand DEF Others
  <2>6. Fits(pc[p], ctx[p])'
    <3>1. Fits(pc[p], ctx[p]) /\ ctx[p] \in Context
      BY <1>0 DEF Base, RequestInv
    <3>2. ctx[p].session \in SessionIds \cup {0}
      BY <3>1 DEF Context
    <3>q. QED BY <1>4, <2>2, <2>4, <3>1, <3>2 DEF Fits, SessionsKept, Existing
  <2>7. RequestInv'
    BY <1>4, <2>4, <2>5, <2>6, OneMoves
  <2>8. TypeOK'
    BY <1>0, <1>3, <2>2, <2>4 DEF TypeOK
  <2>q. QED BY <2>4, <2>7, <2>8 DEF Base
<1>q. QED BY <1>5, <1>6

LEMMA TouchSessionBase ==
  ASSUME Base, NEW p \in Procs, TouchSession(p)
  PROVE  Base'
<1> USE DEF TouchSession, limiter, bounds, history
<1>0. TypeOK /\ SessionInv /\ Fits(pc[p], ctx[p]) /\ pc[p] = "use" /\ ctx[p] \in Context
      /\ session \in [SessionIds -> Session] /\ pc \in [Procs -> Stages] /\ ctx \in [Procs -> Context] /\ clock \in Nat
  BY DEF Base, RequestInv, TypeOK
<1>1. PICK s \in SessionIds : s = ctx[p].session
  BY <1>0 DEF Fits, Context
<1>2. /\ session[s] \in Session /\ session[s].state # "none" /\ session[s].expires <= session[s].created + Cap
      /\ clock < session[s].created + Cap /\ clock < session[s].expires
  BY <1>0, <1>1, Constants DEF Fits, SessionInv
<1>3. account' = account /\ clock' = clock
  OBVIOUS
<1>4. CASE session[s].state = "live"
  <2> DEFINE r == [session[s] EXCEPT !.expires = Renewed(s)]
  <2>1. Renewed(s) \in Nat /\ Renewed(s) <= session[s].created + Cap /\ clock < Renewed(s)
    BY <1>0, <1>2, Constants DEF Renewed, Smaller, Session
  <2>2. r \in Session /\ r.state = session[s].state /\ r.user = session[s].user /\ r.via = session[s].via
        /\ r.created = session[s].created /\ r.expires = Renewed(s)
    BY <1>2, <2>1 DEF Session
  <2>3. session' = [session EXCEPT ![s] = r] /\ pc' = [pc EXCEPT ![p] = "act"] /\ ctx' = ctx
    BY <1>1, <1>4 DEF Touched, Goto
  <2> HIDE DEF r
  <2>4. PICK row \in Session : row = r
    BY <2>2
  <2>5. session' \in [SessionIds -> Session] /\ SessionInv' /\ SessionsKept
    BY <1>2, <1>3, <2>1, <2>2, <2>3, <2>4, SessionChanged
  <2>6. pc' \in [Procs -> Stages] /\ pc'[p] = "act" /\ ctx'[p] = ctx[p] /\ Others(p)
    BY <1>0, <2>3 DEF Stages, Others
  <2>7. Fits(pc[p], ctx[p])'
    BY <1>0, <1>1, <1>2, <1>3, <2>5, <2>6 DEF Fits, SessionsKept, Existing, Anonymous, Stages
  <2>8. RequestInv'
    BY <1>3, <2>5, <2>6, <2>7, AccountsStand, OneMoves
  <2>9. TypeOK'
    BY <1>0, <2>3, <2>5, <2>6 DEF TypeOK
  <2>q. QED BY <2>5, <2>8, <2>9 DEF Base
<1>5. CASE session[s].state # "live"
  <2>1. session' = session /\ Done(p)
    BY <1>1, <1>5 DEF Touched
  <2>2. RequestInv' /\ SessionInv'
    BY <1>3, <2>1, Finished, RowsStay
  <2>3. TypeOK'
    BY <1>0, <2>1, Finished DEF TypeOK
  <2>q. QED BY <2>2, <2>3 DEF Base
<1>q. QED BY <1>4, <1>5

LEMMA UseTokenBase ==
  ASSUME Base, NEW p \in Procs, UseToken(p)
  PROVE  Base'
<1> USE DEF UseToken, Begin, data, limiter, history
<1>0. TypeOK  BY DEF Base
<1>1. PICK u \in Users :
       /\ tokens[u] > 0 /\ account[u].state = "active"
       /\ ctx' = [ctx EXCEPT ![p] = [Blank EXCEPT !.user = u, !.row = account[u]]]
  OBVIOUS
<1>2. account[u].state # "none" /\ "act" \in Stages \ {"expire", "use"} /\ pc' = [pc EXCEPT ![p] = "act"]
  BY <1>1 DEF Stages, Goto
<1> DEFINE note == [Blank EXCEPT !.user = u, !.row = account[u]]
<1>3. note \in Context /\ note.user = u /\ note.via = NoOne /\ note.session = 0
  BY <1>0, BlankTyped DEF TypeOK, Context
<1>4. PICK c \in Context : c = note /\ c.user = u /\ c.via = NoOne /\ c.session = 0
  BY <1>3
<1>5. ctx' = [ctx EXCEPT ![p] = c]
  BY <1>1, <1>4
<1>6. /\ pc' \in [Procs -> Stages] /\ ctx' \in [Procs -> Context]
      /\ RequestInv' /\ SessionInv'
  BY <1>2, <1>4, <1>5, KnowsUser
<1>7. started' \in 0..MaxRequests
  BY <1>0, Constants DEF TypeOK
<1>8. TypeOK'
  BY <1>0, <1>6, <1>7 DEF TypeOK
<1>q. QED BY <1>6, <1>8 DEF Base

LEMMA LogoutBase ==
  ASSUME Base, NEW p \in Procs, Logout(p)
  PROVE  Base'
<1> USE DEF Logout, limiter, bounds, history
<1>0. TypeOK /\ SessionInv /\ Fits(pc[p], ctx[p]) /\ ctx[p] \in Context /\ session \in [SessionIds -> Session]
  BY DEF Base, RequestInv, TypeOK
<1>1. PICK s \in SessionIds : s = ctx[p].session
  BY <1>0 DEF Context
<1>2. /\ session[s] \in Session /\ session[s].state # "none" /\ session[s].expires <= session[s].created + Cap
  BY <1>0, <1>1, Constants DEF Fits, SessionInv
<1> DEFINE r == [session[s] EXCEPT !.state = "gone"]
<1>3. r \in Session /\ r.state = "gone" /\ r.user = session[s].user /\ r.via = session[s].via
      /\ r.created = session[s].created /\ r.expires = session[s].expires
  BY <1>2 DEF Session
<1>4. session' = [session EXCEPT ![s] = r] /\ account' = account /\ clock' = clock
  BY <1>1
<1> HIDE DEF r
<1>5. PICK row \in Session : row = r
  BY <1>3
<1>6. session' \in [SessionIds -> Session] /\ SessionInv' /\ SessionsKept
  BY <1>2, <1>3, <1>4, <1>5, SessionChanged
<1>7. RequestInv'
  BY <1>4, <1>6, AccountsStand, Finished, OneMoves
<1>8. TypeOK'
  BY <1>0, <1>6, Finished DEF TypeOK
<1>q. QED BY <1>6, <1>7, <1>8 DEF Base

LEMMA TokensBase ==
  ASSUME Base, NEW p \in Procs, CountTokens(p) \/ CreateToken(p) \/ DeleteToken(p)
  PROVE  Base'
<1>0. TypeOK /\ Fits(pc[p], ctx[p]) /\ ctx[p] \in Context /\ pc \in [Procs -> Stages] /\ tokens \in [Users -> Nat]
      /\ pc[p] \in {"act", "token"}
  BY DEF Base, RequestInv, TypeOK, CountTokens, CreateToken, DeleteToken
<1>1. /\ UNCHANGED <<account, brake, session, provider, setupLock, counter, ttl, clock, started, faults,
                     setups, tries, raced, contested>>
  BY DEF CountTokens, CreateToken, DeleteToken, data, limiter, bounds, history
<1>2. tokens' \in [Users -> Nat]
  <2>1. CASE CountTokens(p)
    BY <1>0, <2>1 DEF CountTokens, data
  <2>2. CASE CreateToken(p)
    BY <1>0, <2>2 DEF CreateToken, Existing
  <2>3. CASE DeleteToken(p)
    <3>1. ctx[p].user \in Users => tokens[ctx[p].user] \in Nat /\ tokens[ctx[p].user] - 1 \in Nat
      BY <1>0, <2>3 DEF DeleteToken, TokenThere
    <3>2. tokens' = [tokens EXCEPT ![ctx[p].user] = tokens[ctx[p].user] - 1]
      BY <2>3 DEF DeleteToken
    <3>q. QED BY <1>0, <3>1, <3>2
  <2>q. QED BY <2>1, <2>2, <2>3
<1>3. \/ Done(p)
      \/ pc' = [pc EXCEPT ![p] = "token"] /\ ctx' = ctx
  BY DEF CountTokens, CreateToken, DeleteToken, Goto
<1>4. /\ pc' \in [Procs -> Stages] /\ ctx' \in [Procs -> Context] /\ RequestInv' /\ SessionInv'
  <2>1. CASE Done(p)
    BY <1>1, <2>1, Finished, RowsStay
  <2>2. CASE pc' = [pc EXCEPT ![p] = "token"] /\ ctx' = ctx
    <3>1. pc' \in [Procs -> Stages] /\ ctx' \in [Procs -> Context] /\ pc'[p] = "token" /\ ctx'[p] = ctx[p] /\ Others(p)
      BY <1>0, <2>2 DEF TypeOK, Stages, Others
    <3>2. Fits(pc[p], ctx[p])'
      BY <1>0, <1>1, <3>1 DEF Fits, Existing, Anonymous, Stages
    <3>q. QED BY <1>1, <3>1, <3>2, RowsStay
  <2>q. QED BY <1>3, <2>1, <2>2
<1>5. TypeOK'
  BY <1>0, <1>1, <1>2, <1>4 DEF TypeOK
<1>q. QED BY <1>4, <1>5 DEF Base

LEMMA RequestDiesBase ==
  ASSUME Base, NEW p \in Procs, RequestDies(p)
  PROVE  Base'
<1> USE DEF RequestDies, Fault, data, limiter, history
<1>0. TypeOK  BY DEF Base
<1>1. RequestInv' /\ SessionInv'
  BY Finished, RowsStay
<1>2. faults' \in 0..MaxFaults /\ setupLock' \in Procs \cup {NoOne}
  BY <1>0, Constants DEF TypeOK
<1>3. TypeOK'
  BY <1>0, <1>2, Finished DEF TypeOK
<1>q. QED BY <1>1, <1>3 DEF Base

\* Time: no request notices, or there is none.
LEMMA TimeBase ==
  ASSUME Base, MinutePasses \/ QuarterPasses \/ DayPasses
  PROVE  Base'
<1>0. TypeOK /\ brake \in [Users -> Brake] /\ ctx \in [Procs -> Context] /\ RequestInv
  BY DEF Base, TypeOK
<1>1. UNCHANGED <<account, session, tokens, provider, setupLock, pc, ctx, started, faults, setups, raced, contested>>
  BY DEF MinutePasses, QuarterPasses, DayPasses, data, limiter, bounds, history
<1>2. clock' = clock \/ \A p \in Procs : pc[p] = "idle"
  BY DEF MinutePasses, QuarterPasses, DayPasses, Quiet
<1>3. SessionInv'
  BY <1>1, AccountsStand, SessionsStand
<1>4. ASSUME NEW p \in Procs PROVE Fits(pc[p], ctx[p])'
  <2>1. Fits(pc[p], ctx[p]) /\ pc'[p] = pc[p] /\ ctx'[p] = ctx[p]
    BY <1>0, <1>1 DEF RequestInv
  <2>q. QED BY <1>1, <1>2, <2>1 DEF Fits, Existing
<1>5. brake' \in [Users -> Brake] /\ tries' \in [Users -> Nat]
  <2>1. CASE brake' = brake /\ tries' = tries
    BY <1>0, <2>1 DEF TypeOK
  <2>2. CASE brake' = [u \in Users |-> Later(brake[u])] /\ tries' = [u \in Users |-> 0]
    BY <1>0, <2>2, BrakeTyped
  <2>q. QED BY <2>1, <2>2 DEF MinutePasses, QuarterPasses, DayPasses, data, history
<1>6. clock' \in 0..MaxDays /\ counter' \in Nat /\ ttl' \in BOOLEAN
  <2>1. CASE MinutePasses
    BY <1>0, <2>1 DEF MinutePasses, TypeOK
  <2>2. CASE QuarterPasses
    BY <1>0, <2>2 DEF QuarterPasses, limiter, TypeOK
  <2>3. CASE DayPasses
    BY <1>0, <2>3, Constants DEF DayPasses, limiter, TypeOK
  <2>q. QED BY <2>1, <2>2, <2>3
<1>7. TypeOK'
  BY <1>0, <1>1, <1>5, <1>6 DEF TypeOK
<1>q. QED BY <1>3, <1>4, <1>7 DEF Base, RequestInv

LEMMA ReadIdentityBase ==
  ASSUME Base, NEW p \in Procs, ReadIdentity(p)
  PROVE  Base'
<1> USE DEF ReadIdentity, data, limiter, bounds, history
<1>0. TypeOK /\ account \in [Users -> Account]
  BY DEF Base, TypeOK
<1>1. PICK x \in Subjects, e \in Emails :
       IF provider # "enabled" THEN Done(p)
       ELSE IF Identified(x) = {}
       THEN Goto(p, "provision") /\ ctx' = [ctx EXCEPT ![p] = [Blank EXCEPT !.via = x, !.row.email = e]]
       ELSE LET u == CHOOSE u \in Identified(x) : TRUE
            IN IF account[u].state = "inactive" THEN Done(p)
               ELSE /\ Goto(p, "known")
                    /\ ctx' = [ctx EXCEPT ![p] = [Blank EXCEPT !.via = x, !.user = u,
                                 !.row.email = IF EmailTaken(e, u) THEN account[u].email ELSE e]]
  OBVIOUS
<1>2. ASSUME NEW c \in Context, NEW at \in {"provision", "known"}, pc' = [pc EXCEPT ![p] = at], ctx' = [ctx EXCEPT ![p] = c],
             c.session = 0, c.user # 0 => c.user \in Existing /\ account[c.user].subject = c.via
      PROVE  Base'
  <2>1. /\ pc' \in [Procs -> Stages] /\ ctx' \in [Procs -> Context]
        /\ pc'[p] = at /\ ctx'[p] = c /\ Others(p)
    BY <1>2, Moved DEF Stages
  <2>2. Fits(pc[p], ctx[p])'
    BY <1>2, <2>1, Constants DEF Fits, Existing, Anonymous
  <2>3. RequestInv' /\ SessionInv'
    BY <2>1, <2>2, RowsStay
  <2>4. TypeOK'
    BY <1>0, <2>1 DEF TypeOK
  <2>q. QED BY <2>3, <2>4 DEF Base
<1>3. CASE Done(p)
  <2>1. RequestInv' /\ SessionInv'
    BY <1>3, Finished, RowsStay
  <2>2. TypeOK'
    BY <1>0, <1>3, Finished DEF TypeOK
  <2>q. QED BY <2>1, <2>2 DEF Base
<1>4. CASE Goto(p, "provision") /\ ctx' = [ctx EXCEPT ![p] = [Blank EXCEPT !.via = x, !.row.email = e]]
  <2> DEFINE note == [Blank EXCEPT !.via = x, !.row.email = e]
  <2>1. note \in Context /\ note.user = 0 /\ note.session = 0
    BY BlankTyped DEF Context, Account
  <2>2. ctx' = [ctx EXCEPT ![p] = note] /\ pc' = [pc EXCEPT ![p] = "provision"]
    BY <1>4 DEF Goto
  <2>3. PICK c \in Context : c = note
    BY <2>1
  <2>4. ctx' = [ctx EXCEPT ![p] = c] /\ c.session = 0 /\ c.user = 0
    BY <2>1, <2>2, <2>3
  <2> HIDE DEF note
  <2>q. QED BY <1>2, <2>2, <2>3, <2>4
<1>5. CASE /\ Identified(x) # {}
           /\ LET u == CHOOSE u \in Identified(x) : TRUE
              IN /\ Goto(p, "known")
                 /\ ctx' = [ctx EXCEPT ![p] = [Blank EXCEPT !.via = x, !.user = u,
                                 !.row.email = IF EmailTaken(e, u) THEN account[u].email ELSE e]]
  <2> DEFINE u    == CHOOSE u \in Identified(x) : TRUE
             mail == IF EmailTaken(e, u) THEN account[u].email ELSE e
             note == [Blank EXCEPT !.via = x, !.user = u, !.row.email = mail]
  <2>1. u \in Existing /\ u \in Users /\ account[u].subject = x
    BY <1>5 DEF Identified, Existing
  <2>2. mail \in Emails
    BY <1>0, <2>1 DEF Account
  <2>3. ctx' = [ctx EXCEPT ![p] = note] /\ pc' = [pc EXCEPT ![p] = "known"]
    BY <1>5 DEF Goto
  <2> HIDE DEF u, mail
  <2>4. note \in Context /\ note.user = u /\ note.session = 0 /\ note.via = x
    BY <2>1, <2>2, BlankTyped DEF Context, Account
  <2>5. PICK c \in Context : c = note
    BY <2>4
  <2> HIDE DEF note
  <2>q. QED BY <1>2, <2>1, <2>3, <2>4, <2>5
<1>q. QED BY <1>1, <1>3, <1>4, <1>5

LEMMA SignInKnownBase ==
  ASSUME Base, NEW p \in Procs, SignInKnown(p)
  PROVE  Base'
<1> DEFINE u == ctx[p].user
<1>0. TypeOK /\ Fits(pc[p], ctx[p]) /\ ctx[p] \in Context /\ account \in [Users -> Account]
  BY DEF Base, RequestInv, TypeOK
<1>1. Done(p) /\ UNCHANGED <<brake, tokens, provider, setupLock, limiter, clock, bounds, history>>
  BY DEF SignInKnown
<1>2. /\ account' \in [Users -> Account] /\ session' \in [SessionIds -> Session]
      /\ AccountsKept /\ SessionInv' /\ SessionsKept
  <2>1. CASE account' = account /\ session' = session
    BY <1>0, <2>1, AccountsStand, SessionsStand DEF TypeOK
  <2>2. CASE u \in Existing /\ account' = [account EXCEPT ![u].email = ctx[p].row.email] /\ NewSession(u, ctx[p].via)
    <3>1. u \in Users /\ ctx[p].row.email \in Emails /\ ctx[p].via \in Subjects \cup {NoOne} /\ account[u] \in Account
      BY <1>0, <2>2 DEF Context, Account, Existing
    <3> DEFINE a == [account[u] EXCEPT !.email = ctx[p].row.email]
    <3>2. a \in Account /\ a.state = account[u].state /\ a.subject = account[u].subject
      BY <3>1 DEF Account
    <3>3. account' = [account EXCEPT ![u] = a]
      BY <2>2
    <3> HIDE DEF a
    <3>4. account' \in [Users -> Account] /\ account'[u] = a /\ \A o \in Users : o # u => account'[o] = account[o]
      BY <1>0, <3>1, <3>2, <3>3
    <3>5. AccountsKept /\ NobodyLeaves
      BY <3>2, <3>4 DEF AccountsKept, NobodyLeaves, Existing
    <3>6. ctx[p].via # NoOne => account[u].subject = ctx[p].via
      BY <1>0, <2>2 DEF Fits
    <3> HIDE DEF u
    <3>q. QED BY <2>2, <3>1, <3>4, <3>5, <3>6, SessionMade
  <2>q. QED BY <2>1, <2>2 DEF SignInKnown
<1>3. RequestInv'
  BY <1>1, <1>2, Finished, OneMoves
<1>4. TypeOK'
  BY <1>0, <1>1, <1>2, Finished DEF TypeOK, limiter, bounds, history
<1>q. QED BY <1>2, <1>3, <1>4 DEF Base

LEMMA ProvisionUserBase ==
  ASSUME Base, NEW p \in Procs, ProvisionUser(p)
  PROVE  Base'
<1> DEFINE x == ctx[p].via
           e == ctx[p].row.email
           made == [Nobody EXCEPT !.state = "active", !.subject = x, !.linked = TRUE, !.email = e]
<1>0. TypeOK /\ Fits(pc[p], ctx[p]) /\ ctx[p] \in Context
  BY DEF Base, RequestInv, TypeOK
<1>1. session' = session /\ UNCHANGED <<brake, tokens, provider, setupLock, limiter, clock, bounds, history>>
  BY DEF ProvisionUser
<1>2. ASSUME NEW u \in Users, account'[u].state # "none", account'[u].state \in {"active", "inactive"} => account'[u].subject = x,
             pc' = [pc EXCEPT ![p] = "session"], ctx' = [ctx EXCEPT ![p].user = u],
             account' \in [Users -> Account], AccountsKept, NobodyLeaves
      PROVE  Base'
  <2> DEFINE c == [ctx[p] EXCEPT !.user = u]
  <2>1. c \in Context /\ c.user = u /\ c.via = x /\ c.session = ctx[p].session
    BY <1>0 DEF Context
  <2>2. ctx' = [ctx EXCEPT ![p] = c]
    BY <1>2
  <2> HIDE DEF c
  <2>3. /\ pc' \in [Procs -> Stages] /\ ctx' \in [Procs -> Context]
        /\ pc'[p] = "session" /\ ctx'[p] = c /\ Others(p)
    BY <1>2, <2>1, <2>2, Moved DEF Stages
  <2>4. Fits(pc[p], ctx[p])'
    BY <1>0, <1>1, <1>2, <2>1, <2>3 DEF Fits, Existing, Anonymous
  <2>5. RequestInv' /\ SessionInv'
    BY <1>1, <1>2, <2>3, <2>4, SessionsStand, OneMoves
  <2>6. TypeOK'
    BY <1>0, <1>1, <1>2, <2>3 DEF TypeOK, limiter, bounds, history
  <2>q. QED BY <2>5, <2>6 DEF Base
<1>3. CASE account' = account /\ Done(p)
  <2>1. RequestInv' /\ SessionInv'
    BY <1>1, <1>3, Finished, RowsStay
  <2>2. TypeOK'
    BY <1>0, <1>1, <1>3, Finished DEF TypeOK, limiter, bounds, history
  <2>q. QED BY <2>1, <2>2 DEF Base
<1>4. CASE /\ account' = account /\ \E u \in Winner(x, e) : account[u].state = "active"
           /\ Goto(p, "session") /\ ctx' = [ctx EXCEPT ![p].user = CHOOSE u \in Winner(x, e) : TRUE]
  <2>1. PICK u \in Winner(x, e) : u = CHOOSE o \in Winner(x, e) : TRUE
    BY <1>4
  <2>2. u \in Users /\ account[u].state # "none" /\ account[u].subject = x
    BY <2>1 DEF Winner, Identified, Existing
  <2>3. ctx' = [ctx EXCEPT ![p].user = u]
    BY <1>4, <2>1
  <2> HIDE DEF x, e
  <2>q. QED BY <1>0, <1>2, <1>4, <2>2, <2>3, AccountsStand DEF Goto, TypeOK
<1>5. CASE /\ Free # {} /\ account' = [account EXCEPT ![FreshUser] = made]
           /\ Goto(p, "session") /\ ctx' = [ctx EXCEPT ![p].user = FreshUser]
  <2>1. x \in Subjects \cup {NoOne} /\ e \in Emails
    BY <1>0 DEF Context, Account
  <2> HIDE DEF x, e
  <2>2. made \in Account /\ made.state = "active" /\ made.subject = x
    BY <2>1, BlankTyped DEF Account
  <2>3. PICK a \in Account : a = made
    BY <2>2
  <2> HIDE DEF made
  <2>4. /\ account' \in [Users -> Account] /\ AccountsKept /\ NobodyLeaves
        /\ FreshUser \in Users /\ account'[FreshUser] = a
    BY <1>5, <2>2, <2>3, AccountMade
  <2>5. PICK u \in Users : u = FreshUser
    BY <2>4
  <2>q. QED BY <1>2, <1>5, <2>2, <2>3, <2>4, <2>5 DEF Goto
<1>q. QED BY <1>3, <1>4, <1>5 DEF ProvisionUser

LEMMA CreateUserBase ==
  ASSUME Base, NEW p \in Procs, CreateUser(p)
  PROVE  Base'
<1> USE DEF CreateUser, limiter, bounds, history
<1>0. TypeOK  BY DEF Base
<1>1. PICK e \in Emails, admin \in BOOLEAN, password \in BOOLEAN :
       account' = IF EmailTaken(e, 0) \/ Free = {} THEN account
                  ELSE [account EXCEPT ![FreshUser] = [Nobody EXCEPT !.state = "active", !.admin = admin,
                                                                  !.password = password, !.email = e]]
  OBVIOUS
<1>2. account' \in [Users -> Account] /\ AccountsKept /\ NobodyLeaves
  <2>1. CASE account' = account
    BY <1>0, <2>1, AccountsStand DEF TypeOK
  <2>2. CASE Free # {} /\ account' = [account EXCEPT ![FreshUser] = [Nobody EXCEPT !.state = "active", !.admin = admin,
                                                                  !.password = password, !.email = e]]
    <3> DEFINE made == [Nobody EXCEPT !.state = "active", !.admin = admin, !.password = password, !.email = e]
    <3>1. made \in Account /\ made.state = "active"
      BY BlankTyped DEF Account
    <3> HIDE DEF made
    <3>q. QED BY <2>2, <3>1, AccountMade DEF made
  <2>q. QED BY <1>1, <2>1, <2>2
<1>3. RequestInv' /\ SessionInv'
  BY <1>2, Finished, SessionsStand, OneMoves
<1>4. TypeOK'
  BY <1>0, <1>2, Finished DEF TypeOK
<1>q. QED BY <1>3, <1>4 DEF Base

LEMMA ReadTargetBase ==
  ASSUME Base, NEW p \in Procs, ReadTarget(p)
  PROVE  Base'
<1> USE DEF ReadTarget, data, limiter, bounds
<1>0. TypeOK  BY DEF Base
<1>1. PICK u \in Existing, change \in Changes :
       IF change \in Weakens /\ account[u].admin /\ account[u].state = "active" /\ OtherAdmins(u) = {}
       THEN Done(p) /\ UNCHANGED contested
       ELSE /\ Goto(p, "write")
            /\ ctx' = [ctx EXCEPT ![p] = [Blank EXCEPT !.user = u, !.change = change]]
            /\ contested' = (contested \/ Acting(p) # {})
  OBVIOUS
<1>2. CASE Done(p) /\ UNCHANGED contested
  <2>1. RequestInv' /\ SessionInv'
    BY <1>2, Finished, RowsStay
  <2>2. TypeOK'
    BY <1>0, <1>2, Finished DEF TypeOK
  <2>q. QED BY <2>1, <2>2 DEF Base
<1>3. CASE /\ Goto(p, "write")
           /\ ctx' = [ctx EXCEPT ![p] = [Blank EXCEPT !.user = u, !.change = change]]
           /\ contested' = (contested \/ Acting(p) # {})
  <2>1. u \in Users /\ account[u].state # "none" /\ "write" \in Stages \ {"expire", "use"} /\ pc' = [pc EXCEPT ![p] = "write"]
    BY <1>3 DEF Existing, Stages, Goto
  <2> DEFINE note == [Blank EXCEPT !.user = u, !.change = change]
  <2>2. note \in Context /\ note.user = u /\ note.via = NoOne /\ note.session = 0 /\ note.change = change
    BY <2>1, BlankTyped DEF Context
  <2>3. PICK c \in Context : c = note /\ c.user = u /\ c.via = NoOne /\ c.session = 0 /\ c.change = change
    BY <2>2
  <2>4. ctx' = [ctx EXCEPT ![p] = c]
    BY <1>3, <2>3
  <2>5. pc' \in [Procs -> Stages] /\ ctx' \in [Procs -> Context] /\ RequestInv' /\ SessionInv'
    BY <2>1, <2>3, <2>4, KnowsUser
  <2>6. contested' \in BOOLEAN
    BY <1>3, Zenon
  <2>7. TypeOK'
    BY <1>0, <2>5, <2>6 DEF TypeOK
  <2>q. QED BY <2>5, <2>7 DEF Base
<1>q. QED BY <1>1, <1>2, <1>3

\* What an administrator makes of a row.
LEMMA ChangedTyped ==
  ASSUME NEW a \in Account, NEW change \in Changes
  PROVE  /\ Changed(a, change) \in Account
         /\ change = "delete" => Changed(a, change).state = "deleted"
         /\ change # "delete" => /\ Changed(a, change).subject = a.subject /\ Changed(a, change).email = a.email
                                 /\ Changed(a, change).state \in {a.state, "active", "inactive"}
         /\ change \notin Weakens => Changed(a, change).state \in {a.state, "active"} /\ (a.admin => Changed(a, change).admin)
BY BlankTyped DEF Changed, Changes, Weakens, Account

LEMMA WriteTargetBase ==
  ASSUME Base, NEW p \in Procs, WriteTarget(p)
  PROVE  Base' /\ AccountsKept
<1> DEFINE u == ctx[p].user
           gone == ctx[p].change = "delete"
<1>0. TypeOK /\ SessionInv /\ Fits(pc[p], ctx[p]) /\ ctx[p] \in Context /\ account \in [Users -> Account] /\ session \in [SessionIds -> Session]
  BY DEF Base, RequestInv, TypeOK
<1>1. Done(p) /\ UNCHANGED <<provider, setupLock, limiter, clock, bounds, setups, raced, contested>>
  BY DEF WriteTarget
<1>2. CASE u \notin Existing
  <2>1. UNCHANGED <<account, brake, session, tokens, tries>>
    BY <1>2 DEF WriteTarget
  <2>2. RequestInv' /\ SessionInv' /\ AccountsKept
    BY <1>1, <2>1, Finished, RowsStay, AccountsStand
  <2>3. TypeOK'
    BY <1>0, <1>1, <2>1, Finished DEF TypeOK, limiter, bounds
  <2>q. QED BY <2>2, <2>3 DEF Base
<1>3. CASE u \in Existing
  <2>1. /\ account' = [account EXCEPT ![u] = Changed(@, ctx[p].change)]
        /\ brake'   = [brake EXCEPT ![u] = IF gone THEN NoBrake ELSE @]
        /\ tries'   = [tries EXCEPT ![u] = IF gone THEN 0 ELSE @]
        /\ tokens'  = [tokens EXCEPT ![u] = IF gone THEN 0 ELSE @]
        /\ session' = [s \in SessionIds |-> IF gone /\ session[s].state = "live" /\ session[s].user = u
                                            THEN [session[s] EXCEPT !.state = "gone"] ELSE session[s]]
    BY <1>3 DEF WriteTarget
  <2>2. u \in Users /\ account[u] \in Account /\ account[u].state \in {"active", "inactive"}
    BY <1>0, <1>3 DEF Existing
  <2>c. ctx[p].change \in Changes
    BY <1>0 DEF Fits, WriteTarget
  <2> DEFINE a == Changed(account[u], ctx[p].change)
  <2>3. /\ a \in Account /\ (gone => a.state = "deleted")
        /\ ~gone => a.subject = account[u].subject /\ a.state \in {"active", "inactive"}
    BY <2>2, <2>c, ChangedTyped
  <2>4. account' = [account EXCEPT ![u] = a]
    BY <2>1
  <2> HIDE DEF a
  <2>5. account' \in [Users -> Account] /\ account'[u] = a /\ \A o \in Users : o # u => account'[o] = account[o]
    BY <1>0, <2>2, <2>3, <2>4
  <2>6. AccountsKept
    BY <2>2, <2>3, <2>5 DEF AccountsKept
  <2>7. \A s \in SessionIds : session[s] \in Session /\ [session[s] EXCEPT !.state = "gone"] \in Session
    BY <1>0 DEF Session
  <2>8. session' \in [SessionIds -> Session]
    BY <2>1, <2>7
  <2>9. \A s \in SessionIds : /\ session'[s].user = session[s].user /\ session'[s].via = session[s].via
                              /\ session'[s].created = session[s].created /\ session'[s].expires = session[s].expires
                              /\ session'[s].state \in {session[s].state, "gone"}
                              /\ session'[s].state = "live" => session[s].state = "live" /\ (gone => session[s].user # u)
                              /\ session[s].state # "none" => session'[s].state # "none"
                              /\ session'[s].state # "none" => session[s].state # "none"
    BY <2>1, <2>7 DEF Session
  <2>10. SessionsKept
    BY <2>9 DEF SessionsKept
  <2>11. SessionInv'
    BY <1>0, <2>2, <2>3, <2>5, <2>9 DEF SessionInv, Existing
  <2>12. RequestInv'
    BY <1>1, <2>6, <2>10, Finished, OneMoves
  <2>13. brake' \in [Users -> Brake] /\ tries' \in [Users -> Nat] /\ tokens' \in [Users -> Nat]
    <3>1. brake \in [Users -> Brake] /\ tries \in [Users -> Nat] /\ tokens \in [Users -> Nat] /\ NoBrake \in Brake
      BY <1>0, BlankTyped DEF TypeOK
    <3> HIDE DEF gone, u
    <3>q. QED BY <2>1, <2>2, <3>1
  <2>14. TypeOK'
    BY <1>0, <1>1, <2>5, <2>8, <2>13, Finished DEF TypeOK, limiter, bounds
  <2>q. QED BY <2>6, <2>11, <2>12, <2>14 DEF Base
<1>q. QED BY <1>2, <1>3

LEMMA ChangeProviderBase ==
  ASSUME Base, NEW p \in Procs, ChangeProvider(p)
  PROVE  Base'
<1> USE DEF ChangeProvider, limiter, bounds, history
<1>0. TypeOK /\ account \in [Users -> Account]
  BY DEF Base, TypeOK
<1>1. \A u \in Users : /\ account'[u] \in Account /\ account'[u].state = account[u].state
                       /\ account'[u].subject = account[u].subject
  <2> SUFFICES ASSUME NEW u \in Users
               PROVE  /\ account'[u] \in Account /\ account'[u].state = account[u].state
                      /\ account'[u].subject = account[u].subject
    OBVIOUS
  <2> DEFINE stays == account[u].linked /\ provider # "enabled"
  <2>1. account'[u] = [account[u] EXCEPT !.linked = stays]
    OBVIOUS
  <2>2. stays \in BOOLEAN
    BY Zenon
  <2> HIDE DEF stays
  <2>q. QED BY <1>0, <2>1, <2>2 DEF Account
<1>2. account' \in [Users -> Account]
  BY <1>1
<1>3. AccountsKept /\ NobodyLeaves
  BY <1>1 DEF AccountsKept, NobodyLeaves, Existing
<1>4. RequestInv' /\ SessionInv'
  BY <1>3, Finished, SessionsStand, OneMoves
<1>5. TypeOK'
  BY <1>0, <1>2, Finished DEF TypeOK
<1>q. QED BY <1>4, <1>5 DEF Base

LEMMA NextBase ==
  ASSUME Base, [Next]_vars
  PROVE  Base'
<1>1. CASE UNCHANGED vars
  BY <1>1 DEF vars, data, limiter, bounds, history, Base, TypeOK, RequestInv, SessionInv, Fits, Existing
<1>2. ASSUME NEW p \in Procs, NEW kind \in Limited, CountRequest(p, kind) PROVE Base'
  BY <1>2, CountRequestBase
<1>3. ASSUME NEW p \in Procs, SetExpiry(p) \/ SignIn(p) PROVE Base'
  BY <1>3, SetExpiryBase, TakeSetupLockBase, InstallAdminBase, ReadLoginBase, VerifyBase, CreateSessionBase,
     ReadIdentityBase, SignInKnownBase, ProvisionUserBase DEF SignIn
<1>4. ASSUME NEW p \in Procs, ReadSession(p) \/ TouchSession(p) \/ UseToken(p) \/ Act(p) PROVE Base'
  BY <1>4, ReadSessionBase, TouchSessionBase, UseTokenBase, LogoutBase, TokensBase DEF Act
<1>5. ASSUME NEW p \in Procs, Administer(p) \/ RequestDies(p) PROVE Base'
  BY <1>5, CreateUserBase, ReadTargetBase, WriteTargetBase, ChangeProviderBase, RequestDiesBase DEF Administer
<1>q. QED BY <1>1, <1>2, <1>3, <1>4, <1>5, TimeBase DEF Next

LEMMA BaseHolds == Spec => []Base
BY InitBase, NextBase, PTL DEF Spec

\* Every variable keeps its type.
THEOREM AccountTypes == Spec => []TypeOK
BY BaseHolds, PTL DEF Base

-----------------------------------------------------------------------------
(* Who writes what                                                         *)

\* The stages whose requests others must leave room for, and how they are entered.
Watched == {"verify", "write", "token", "install"}

Enters(p) ==
  \/ ReadLogin(p) /\ pc'[p] = "verify"
  \/ ReadTarget(p) /\ pc'[p] = "write"
  \/ CountTokens(p) /\ pc'[p] = "token" /\ ctx'[p] = ctx[p]
  \/ TakeSetupLock(p) /\ pc'[p] = "install" /\ setupLock' = p

\* Of a step: the actions that write a variable, or it stays.
Writers ==
  /\ (brake' = brake /\ tries' = tries) \/ (\E p \in Procs : Verify(p) \/ WriteTarget(p)) \/ QuarterPasses
  /\ raced' = raced \/ \E p \in Procs : ReadLogin(p)
  /\ contested' = contested \/ \E p \in Procs : ReadTarget(p)
  /\ setups' = setups \/ \E p \in Procs : InstallAdmin(p)
  /\ provider' = provider \/ \E p \in Procs : ChangeProvider(p)
  /\ tokens' = tokens \/ \E p \in Procs : CreateToken(p) \/ DeleteToken(p) \/ WriteTarget(p)
  /\ setupLock' = setupLock \/ \E p \in Procs : TakeSetupLock(p) \/ InstallAdmin(p) \/ RequestDies(p)
  /\ account' = account \/ \E p \in Procs : InstallAdmin(p) \/ SignInKnown(p) \/ ProvisionUser(p) \/ CreateUser(p)
                                            \/ WriteTarget(p) \/ ChangeProvider(p)
  /\ session' = session \/ \E p \in Procs : CreateSession(p) \/ SignInKnown(p) \/ ReadSession(p) \/ TouchSession(p)
                                            \/ Logout(p) \/ WriteTarget(p)

LEMMA NextWriters ==
  ASSUME [Next]_vars
  PROVE  Writers
<1> USE DEF Writers, data, limiter, bounds, history
<1>1. CASE UNCHANGED vars
  BY <1>1 DEF vars
<1>2. ASSUME NEW p \in Procs, NEW kind \in Limited, CountRequest(p, kind) PROVE Writers
  BY <1>2 DEF CountRequest
<1>3. ASSUME NEW p \in Procs, SetExpiry(p) \/ SignIn(p) PROVE Writers
  <2>1. CASE SetExpiry(p)       BY <2>1 DEF SetExpiry
  <2>2. CASE TakeSetupLock(p)   BY <2>2 DEF TakeSetupLock
  <2>3. CASE InstallAdmin(p)    BY <2>3 DEF InstallAdmin
  <2>4. CASE ReadLogin(p)       BY <2>4 DEF ReadLogin
  <2>5. CASE Verify(p)          BY <2>5 DEF Verify
  <2>6. CASE CreateSession(p)   BY <2>6 DEF CreateSession
  <2>7. CASE ReadIdentity(p)    BY <2>7 DEF ReadIdentity
  <2>8. CASE SignInKnown(p)     BY <2>8 DEF SignInKnown
  <2>9. CASE ProvisionUser(p)   BY <2>9 DEF ProvisionUser
  <2>q. QED BY <1>3, <2>1, <2>2, <2>3, <2>4, <2>5, <2>6, <2>7, <2>8, <2>9 DEF SignIn
<1>4. ASSUME NEW p \in Procs, ReadSession(p) \/ TouchSession(p) \/ UseToken(p) \/ Act(p) PROVE Writers
  <2>1. CASE ReadSession(p)     BY <2>1 DEF ReadSession
  <2>2. CASE TouchSession(p)    BY <2>2 DEF TouchSession
  <2>3. CASE UseToken(p)        BY <2>3 DEF UseToken
  <2>4. CASE Logout(p)          BY <2>4 DEF Logout
  <2>5. CASE CountTokens(p)     BY <2>5 DEF CountTokens
  <2>6. CASE CreateToken(p)     BY <2>6 DEF CreateToken
  <2>7. CASE DeleteToken(p)     BY <2>7 DEF DeleteToken
  <2>q. QED BY <1>4, <2>1, <2>2, <2>3, <2>4, <2>5, <2>6, <2>7 DEF Act
<1>5. ASSUME NEW p \in Procs, Administer(p) \/ RequestDies(p) PROVE Writers
  <2>1. CASE CreateUser(p)      BY <2>1 DEF CreateUser
  <2>2. CASE ReadTarget(p)      BY <2>2 DEF ReadTarget
  <2>3. CASE WriteTarget(p)     BY <2>3 DEF WriteTarget
  <2>4. CASE ChangeProvider(p)  BY <2>4 DEF ChangeProvider
  <2>5. CASE RequestDies(p)     BY <2>5 DEF RequestDies
  <2>q. QED BY <1>5, <2>1, <2>2, <2>3, <2>4, <2>5 DEF Administer
<1>6. CASE MinutePasses \/ QuarterPasses \/ DayPasses
  BY <1>6 DEF MinutePasses, QuarterPasses, DayPasses
<1>q. QED BY <1>1, <1>2, <1>3, <1>4, <1>5, <1>6 DEF Next

\* Who is at a watched stage was there before, or has just entered it.
LEMMA NextWatched ==
  ASSUME Base, [Next]_vars, NEW q \in Procs, pc'[q] \in Watched
  PROVE  (pc'[q] = pc[q] /\ ctx'[q] = ctx[q]) \/ Enters(q)
<1>0. pc \in [Procs -> Stages] /\ ctx \in [Procs -> Context] /\ RequestInv
  BY DEF Base, TypeOK
<1> DEFINE Fine == (pc'[q] = pc[q] /\ ctx'[q] = ctx[q]) \/ Enters(q)
<1>a. ASSUME NEW p \in Procs, Done(p) PROVE Fine
  BY <1>0, <1>a, Finished DEF Watched, Others
<1>b. ASSUME NEW p \in Procs, NEW at \in Stages \ Watched, pc' = [pc EXCEPT ![p] = at],
             \A o \in Procs \ {p} : ctx'[o] = ctx[o]
      PROVE  Fine
  BY <1>0, <1>b
<1>c. ASSUME NEW p \in Procs, NEW c, ctx' = [ctx EXCEPT ![p] = c] PROVE \A o \in Procs \ {p} : ctx'[o] = ctx[o]
  BY <1>0, <1>c
<1>1. CASE UNCHANGED vars
  BY <1>1 DEF vars
<1>2. ASSUME NEW p \in Procs, NEW kind \in Limited, CountRequest(p, kind) PROVE Fine
  <2>1. {"expire", "idle", kind} \subseteq Stages \ Watched
    BY DEF Stages, Watched, Limited
  <2>2. \/ pc' = [pc EXCEPT ![p] = "expire"]
        \/ pc' = [pc EXCEPT ![p] = "idle"]
        \/ pc' = [pc EXCEPT ![p] = kind]
    BY <1>2, Zenon DEF CountRequest, Goto
  <2>3. \A o \in Procs \ {p} : ctx'[o] = ctx[o]
    BY <1>0, <1>2 DEF CountRequest
  <2>q. QED BY <1>b, <2>1, <2>2, <2>3
<1>3. ASSUME NEW p \in Procs, SetExpiry(p) PROVE Fine
  <2>1. PICK at \in Limited : at = ctx[p].change
    BY <1>0, <1>3 DEF SetExpiry, RequestInv, Fits
  <2>2. at \in Stages \ Watched
    BY DEF Stages, Watched, Limited
  <2>q. QED BY <1>0, <1>3, <1>b, <2>1, <2>2 DEF SetExpiry, Goto
<1>4. ASSUME NEW p \in Procs, TakeSetupLock(p) PROVE Fine
  <2>1. CASE setupLock' = p /\ Goto(p, "install")
    BY <1>0, <1>4, <2>1 DEF Goto, TakeSetupLock, Enters
  <2>2. CASE Goto(p, "idle")
    BY <1>0, <1>4, <2>2 DEF Goto, TakeSetupLock, Watched
  <2>q. QED BY <1>4, <2>1, <2>2 DEF TakeSetupLock
<1>5. ASSUME NEW p \in Procs, InstallAdmin(p) \/ CreateSession(p) \/ SignInKnown(p) PROVE Fine
  <2>1. Done(p) \/ (pc' = [pc EXCEPT ![p] = "session"] /\ ctx' = [ctx EXCEPT ![p].user = FreshUser])
    BY <1>5, Zenon DEF InstallAdmin, CreateSession, SignInKnown, Goto
  <2>q. QED BY <1>0, <1>a, <2>1 DEF Stages, Watched
<1>6. ASSUME NEW p \in Procs, ReadLogin(p) PROVE Fine
  BY <1>0, <1>6 DEF ReadLogin, Goto, Enters
<1>7. ASSUME NEW p \in Procs, Verify(p) PROVE Fine
  <2>1. Done(p) \/ (pc' = [pc EXCEPT ![p] = "session"] /\ ctx' = [ctx EXCEPT ![p] = [Blank EXCEPT !.user = ctx[p].user]])
    BY <1>7, Zenon DEF Verify, Goto
  <2>q. QED BY <1>0, <1>a, <2>1 DEF Stages, Watched
<1>8. ASSUME NEW p \in Procs, ReadIdentity(p) PROVE Fine
  <2>1. Done(p) \/ (/\ pc' = [pc EXCEPT ![p] = "provision"] \/ pc' = [pc EXCEPT ![p] = "known"]
                    /\ \A o \in Procs \ {p} : ctx'[o] = ctx[o])
    <3>1. \/ Done(p)
          \/ \E at \in {"provision", "known"} : Goto(p, at) /\ \E c : ctx' = [ctx EXCEPT ![p] = c]
      BY <1>8, Zenon DEF ReadIdentity
    <3>q. QED BY <1>c, <3>1, Zenon DEF Goto
  <2>q. QED BY <1>0, <1>a, <2>1 DEF Stages, Watched
<1>9. ASSUME NEW p \in Procs, ProvisionUser(p) PROVE Fine
  <2>1. Done(p) \/ (pc' = [pc EXCEPT ![p] = "session"] /\ \A o \in Procs \ {p} : ctx'[o] = ctx[o])
    <3>1. \/ Done(p)
          \/ Goto(p, "session") /\ \E c : ctx' = [ctx EXCEPT ![p] = c]
      BY <1>9, Zenon DEF ProvisionUser
    <3>q. QED BY <1>c, <3>1, Zenon DEF Goto
  <2>q. QED BY <1>0, <1>a, <2>1 DEF Stages, Watched
<1>10. ASSUME NEW p \in Procs, ReadSession(p) \/ TouchSession(p) \/ UseToken(p) PROVE Fine
  <2>1. CASE ReadSession(p)
    <3>1. (pc' = pc /\ ctx' = ctx) \/ (pc' = [pc EXCEPT ![p] = "use"] /\ \A o \in Procs \ {p} : ctx'[o] = ctx[o])
      BY <1>0, <2>1 DEF ReadSession, Goto
    <3>q. QED BY <1>0, <3>1 DEF Stages, Watched
  <2>2. CASE TouchSession(p)
    <3>1. Done(p) \/ (pc' = [pc EXCEPT ![p] = "act"] /\ ctx' = ctx)
      BY <2>2, Zenon DEF TouchSession, Goto
    <3>q. QED BY <1>0, <1>a, <3>1 DEF Stages, Watched
  <2>3. CASE UseToken(p)
    <3>1. pc' = [pc EXCEPT ![p] = "act"] /\ \A o \in Procs \ {p} : ctx'[o] = ctx[o]
      BY <1>0, <2>3 DEF UseToken, Goto
    <3>q. QED BY <1>0, <3>1 DEF Stages, Watched
  <2>q. QED BY <1>10, <2>1, <2>2, <2>3
<1>11. ASSUME NEW p \in Procs, Logout(p) \/ CreateToken(p) \/ DeleteToken(p) \/ CreateUser(p) \/ WriteTarget(p)
                              \/ ChangeProvider(p) \/ RequestDies(p)
       PROVE  Fine
  BY <1>a, <1>11 DEF Logout, CreateToken, DeleteToken, CreateUser, WriteTarget, ChangeProvider, RequestDies
<1>12. ASSUME NEW p \in Procs, CountTokens(p) PROVE Fine
  <2>1. Done(p) \/ (pc' = [pc EXCEPT ![p] = "token"] /\ ctx' = ctx)
    BY <1>12, Zenon DEF CountTokens, Goto
  <2>2. CASE Done(p)
    BY <1>a, <2>2
  <2>3. CASE pc' = [pc EXCEPT ![p] = "token"] /\ ctx' = ctx
    BY <1>0, <1>12, <2>3 DEF Enters
  <2>q. QED BY <2>1, <2>2, <2>3
<1>13. ASSUME NEW p \in Procs, ReadTarget(p) PROVE Fine
  <2>1. Done(p) \/ (pc' = [pc EXCEPT ![p] = "write"] /\ \A o \in Procs \ {p} : ctx'[o] = ctx[o])
    <3>1. \/ Done(p)
          \/ Goto(p, "write") /\ \E c : ctx' = [ctx EXCEPT ![p] = c]
      BY <1>13, Zenon DEF ReadTarget
    <3>q. QED BY <1>c, <3>1, Zenon DEF Goto
  <2>2. CASE Done(p)
    BY <1>a, <2>2
  <2>3. CASE pc' = [pc EXCEPT ![p] = "write"] /\ \A o \in Procs \ {p} : ctx'[o] = ctx[o]
    BY <1>0, <1>13, <2>3 DEF Enters
  <2>q. QED BY <2>1, <2>2, <2>3
<1>14. CASE MinutePasses \/ QuarterPasses \/ DayPasses
  BY <1>14 DEF MinutePasses, QuarterPasses, DayPasses
<1> HIDE DEF Fine
<1>15. ASSUME NEW p \in Procs, SignIn(p) \/ Act(p) \/ Administer(p) PROVE Fine
  BY <1>4, <1>5, <1>6, <1>7, <1>8, <1>9, <1>11, <1>12, <1>13, <1>15 DEF SignIn, Act, Administer
<1>q. QED
  BY <1>1, <1>2, <1>3, <1>10, <1>11, <1>14, <1>15 DEF Next, Fine

-----------------------------------------------------------------------------
(* Accounts                                                                *)

Made(a) == a.state = "active" /\ Free # {} /\ ~EmailTaken(a.email, 0) /\ account' = [account EXCEPT ![FreshUser] = a]

Renamed(u, e) == account' = [account EXCEPT ![u].email = e] /\ (account[u].email # e => ~EmailTaken(e, u))

\* All that happens to the table of users.
LEMMA AccountSteps ==
  ASSUME Base, [Next]_vars
  PROVE  \/ account' = account
         \/ \E a \in Account : Made(a)
         \/ \E u \in Existing, e \in Emails : Renamed(u, e)
         \/ \E p \in Procs : WriteTarget(p) \/ ChangeProvider(p)
<1>0. TypeOK /\ ctx \in [Procs -> Context]
  BY DEF Base, TypeOK
<1>1. account' = account \/ \E p \in Procs : InstallAdmin(p) \/ SignInKnown(p) \/ ProvisionUser(p) \/ CreateUser(p)
                                             \/ WriteTarget(p) \/ ChangeProvider(p)
  BY NextWriters DEF Writers
<1>2. ASSUME NEW p \in Procs, InstallAdmin(p) PROVE account' = account \/ \E a \in Account : Made(a)
  BY <1>2, RootTyped DEF InstallAdmin, Made
<1>3. ASSUME NEW p \in Procs, SignInKnown(p)
      PROVE  account' = account \/ \E u \in Existing, e \in Emails : Renamed(u, e)
  <2>1. ctx[p].row.email \in Emails
    BY <1>0 DEF Context, Account
  <2>q. QED BY <1>3, <2>1 DEF SignInKnown, Renamed
<1>4. ASSUME NEW p \in Procs, ProvisionUser(p) PROVE account' = account \/ \E a \in Account : Made(a)
  <2> DEFINE x == ctx[p].via
             e == ctx[p].row.email
             made == [Nobody EXCEPT !.state = "active", !.subject = x, !.linked = TRUE, !.email = e]
  <2>1. x \in Subjects \cup {NoOne} /\ e \in Emails
    BY <1>0 DEF Context, Account
  <2>2. account' = account \/ (Free # {} /\ ~EmailTaken(e, 0) /\ account' = [account EXCEPT ![FreshUser] = made])
    BY <1>4 DEF ProvisionUser
  <2> HIDE DEF x, e
  <2>3. made \in Account /\ made.state = "active" /\ made.email = e
    BY <2>1, BlankTyped DEF Account
  <2> HIDE DEF made
  <2>q. QED BY <2>2, <2>3 DEF Made
<1>5. ASSUME NEW p \in Procs, CreateUser(p) PROVE account' = account \/ \E a \in Account : Made(a)
  <2>1. PICK e \in Emails, admin \in BOOLEAN, password \in BOOLEAN :
         account' = IF EmailTaken(e, 0) \/ Free = {} THEN account
                    ELSE [account EXCEPT ![FreshUser] = [Nobody EXCEPT !.state = "active", !.admin = admin,
                                                                    !.password = password, !.email = e]]
    BY <1>5 DEF CreateUser
  <2> DEFINE made == [Nobody EXCEPT !.state = "active", !.admin = admin, !.password = password, !.email = e]
  <2>2. made \in Account /\ made.state = "active" /\ made.email = e
    BY BlankTyped DEF Account
  <2>3. account' = account \/ (Free # {} /\ ~EmailTaken(e, 0) /\ account' = [account EXCEPT ![FreshUser] = made])
    BY <2>1
  <2> HIDE DEF made
  <2>q. QED BY <2>2, <2>3 DEF Made
<1>q. QED BY <1>1, <1>2, <1>3, <1>4, <1>5

LEMMA RenamedKeeps ==
  ASSUME Base, NEW u \in Existing, NEW e \in Emails, Renamed(u, e)
  PROVE  /\ \A o \in Users : /\ account'[o].state = account[o].state /\ account'[o].admin = account[o].admin
                             /\ account'[o].subject = account[o].subject
                             /\ o # u => account'[o].email = account[o].email
         /\ account'[u].email = e /\ u \in Users
<1>1. account \in [Users -> Account] /\ u \in Users
  BY DEF Base, TypeOK, Existing
<1> DEFINE a == [account[u] EXCEPT !.email = e]
<1>2. a.email = e /\ a.state = account[u].state /\ a.admin = account[u].admin /\ a.subject = account[u].subject
  BY <1>1 DEF Account
<1>3. account' = [account EXCEPT ![u] = a]
  BY DEF Renamed
<1> HIDE DEF a
<1>q. QED BY <1>1, <1>2, <1>3

LEMMA ProviderKeeps ==
  ASSUME Base, NEW p \in Procs, ChangeProvider(p)
  PROVE  \A o \in Users : /\ account'[o].state = account[o].state /\ account'[o].admin = account[o].admin
                          /\ account'[o].subject = account[o].subject /\ account'[o].email = account[o].email
<1> SUFFICES ASSUME NEW o \in Users
             PROVE  /\ account'[o].state = account[o].state /\ account'[o].admin = account[o].admin
                    /\ account'[o].subject = account[o].subject /\ account'[o].email = account[o].email
  OBVIOUS
<1> DEFINE stays == account[o].linked /\ provider # "enabled"
<1>1. account'[o] = [account[o] EXCEPT !.linked = stays] /\ account[o] \in Account
  BY DEF ChangeProvider, Base, TypeOK
<1> HIDE DEF stays
<1>q. QED BY <1>1 DEF Account

LEMMA MadeKeeps ==
  ASSUME Base, NEW a \in Account, Made(a)
  PROVE  /\ FreshUser \in Users /\ account[FreshUser].state = "none" /\ account'[FreshUser] = a /\ a.state = "active"
         /\ \A u \in Users : u # FreshUser => account'[u] = account[u]
         /\ ~EmailTaken(a.email, 0) /\ AccountsKept
BY AccountMade DEF Made

\* What a request of an administrator writes.
LEMMA Written ==
  ASSUME Base, NEW p \in Procs, WriteTarget(p)
  PROVE  \/ UNCHANGED <<account, brake, session, tokens, tries>>
         \/ /\ ctx[p].user \in Existing /\ ctx[p].change \in Changes
            /\ account'[ctx[p].user] = Changed(account[ctx[p].user], ctx[p].change)
            /\ \A u \in Users : u # ctx[p].user => account'[u] = account[u]
<1>1. account \in [Users -> Account] /\ Fits(pc[p], ctx[p]) /\ pc[p] = "write"
  BY DEF Base, TypeOK, RequestInv, WriteTarget
<1>2. CASE ctx[p].user \in Existing
  BY <1>1, <1>2 DEF WriteTarget, Fits, Existing
<1>q. QED BY <1>2 DEF WriteTarget

LEMMA NextKeeps ==
  ASSUME Base, [Next]_vars
  PROVE  AccountsKept
<1>1. CASE \E a \in Account : Made(a)
  BY <1>1, MadeKeeps
<1>2. CASE \E u \in Existing, e \in Emails : Renamed(u, e)
  BY <1>2, RenamedKeeps DEF AccountsKept
<1>3. CASE \E p \in Procs : WriteTarget(p) \/ ChangeProvider(p)
  BY <1>3, WriteTargetBase, ProviderKeeps DEF AccountsKept
<1>q. QED BY <1>1, <1>2, <1>3, AccountSteps, AccountsStand

\* Addresses: every write was preceded by a look that nobody else has the
\* address, in the same statement.
LEMMA EmailStep ==
  ASSUME Base, EmailsUnique, [Next]_vars
  PROVE  EmailsUnique'
<1>0. account \in [Users -> Account]
  BY DEF Base, TypeOK
<1> SUFFICES ASSUME NEW u \in Users, NEW o \in Users, u # o,
                    account'[u].state \in {"active", "inactive"}, account'[o].state \in {"active", "inactive"}
             PROVE  account'[u].email # account'[o].email
  BY DEF EmailsUnique, Existing
<1>1. CASE account' = account
  BY <1>1 DEF EmailsUnique, Existing
<1>2. CASE \E a \in Account : Made(a)
  <2>1. PICK a \in Account : Made(a)
    BY <1>2
  <2>2. \A v \in Existing : account[v].email # a.email
    BY <2>1, MadeKeeps, Constants DEF EmailTaken, Existing
  <2>q. QED BY <2>1, <2>2, MadeKeeps DEF EmailsUnique, Existing
<1>3. CASE \E v \in Existing, e \in Emails : Renamed(v, e)
  <2>1. PICK v \in Existing, e \in Emails : Renamed(v, e)
    BY <1>3
  <2>2. u \in Existing /\ o \in Existing
    BY <2>1, RenamedKeeps DEF Existing
  <2>3. account[v].email # e => \A w \in Existing \ {v} : account[w].email # e
    BY <2>1 DEF Renamed, EmailTaken
  <2>4. \A w \in Existing \ {v} : account[w].email # e
    BY <2>1, <2>3 DEF EmailsUnique
  <2>q. QED BY <2>1, <2>2, <2>4, RenamedKeeps DEF EmailsUnique
<1>4. CASE \E p \in Procs : WriteTarget(p)
  <2>1. PICK p \in Procs : WriteTarget(p)
    BY <1>4
  <2>2. \A v \in Users : account'[v].state \in {"active", "inactive"} =>
                           v \in Existing /\ account'[v].email = account[v].email
    <3>1. CASE account' = account
      BY <3>1 DEF Existing
    <3>2. CASE /\ ctx[p].user \in Existing /\ ctx[p].change \in Changes
               /\ account'[ctx[p].user] = Changed(account[ctx[p].user], ctx[p].change)
               /\ \A v \in Users : v # ctx[p].user => account'[v] = account[v]
      <4>1. ctx[p].user \in Users /\ account[ctx[p].user] \in Account
        BY <1>0, <3>2 DEF Existing
      <4>q. QED BY <3>2, <4>1, ChangedTyped DEF Existing
    <3>q. QED BY <2>1, <3>1, <3>2, Written
  <2>q. QED BY <2>2 DEF EmailsUnique
<1>5. CASE \E p \in Procs : ChangeProvider(p)
  BY <1>5, ProviderKeeps DEF EmailsUnique, Existing
<1>q. QED BY <1>1, <1>2, <1>3, <1>4, <1>5, AccountSteps

\* Nobody gets into somebody else's account by an address or a subject: live
\* sessions keep to the person they were made for, and no two accounts have an
\* address in common (oidc_callback, admin_create_user).
THEOREM IdentitiesStayApart == Spec => []IdentitiesKeptApart
<1>1. Init => EmailsUnique
  <2> SUFFICES ASSUME Init PROVE \A u \in Existing : u = 1
    BY DEF EmailsUnique
  <2>q. QED BY BlankTyped DEF Init, Existing
<1>2. EmailsUnique /\ Base /\ [Next]_vars => EmailsUnique'
  BY EmailStep
<1>3. Base => OwnAccountOnly
  BY DEF Base, SessionInv, OwnAccountOnly
<1>q. QED BY <1>1, <1>2, <1>3, BaseHolds, PTL DEF Spec, IdentitiesKeptApart

-----------------------------------------------------------------------------
(* Sessions                                                                *)

LEMMA EndsStep ==
  ASSUME Base, [Next]_vars
  PROVE  StaysEnded
<1>0. session \in [SessionIds -> Session] /\ RequestInv /\ ctx \in [Procs -> Context]
  BY DEF Base, TypeOK
<1> SUFFICES ASSUME NEW s \in SessionIds, session[s].state = "gone" PROVE session'[s].state = "gone"
  BY DEF StaysEnded
<1>1. ASSUME NEW u, NEW via, NewSession(u, via) PROVE session'[s].state = "gone"
  <2>1. CASE u \in Existing /\ Unused # {}
    <3>1. PICK n \in Unused : n = CHOOSE o \in Unused : TRUE
      BY <2>1
    <3>2. n # s
      BY <3>1 DEF Unused
    <3>q. QED BY <1>0, <1>1, <2>1, <3>1, <3>2 DEF NewSession
  <2>q. QED BY <1>1, <2>1 DEF NewSession
<1>2. ASSUME NEW p \in Procs, CreateSession(p) \/ SignInKnown(p) PROVE session'[s].state = "gone"
  BY <1>1, <1>2 DEF CreateSession, SignInKnown
<1>3. ASSUME NEW p \in Procs, ReadSession(p) PROVE session'[s].state = "gone"
  BY <1>0, <1>3 DEF ReadSession, Session
<1>4. ASSUME NEW p \in Procs, TouchSession(p) PROVE session'[s].state = "gone"
  BY <1>0, <1>4 DEF TouchSession, Touched, Session
<1>5. ASSUME NEW p \in Procs, Logout(p) PROVE session'[s].state = "gone"
  BY <1>0, <1>5 DEF Logout, Session
<1>6. ASSUME NEW p \in Procs, WriteTarget(p) PROVE session'[s].state = "gone"
  BY <1>0, <1>6 DEF WriteTarget
<1>q. QED BY <1>2, <1>3, <1>4, <1>5, <1>6, NextWriters DEF Writers

\* A request acts only on a session that has not expired and is not older than
\* its cap, and a session that has ended stays ended, whatever requests still
\* hold it (get_current_user, logout).
THEOREM SessionsEndInTime == Spec => SessionsEndForGood
<1>1. Base /\ [Next]_vars => [SessionsEnd' /\ StaysEnded]_vars
  <2> SUFFICES ASSUME Base, [Next]_vars PROVE SessionsEnd' /\ StaysEnded
    OBVIOUS
  <2>1. Base'
    BY NextBase
  <2>2. SessionsEnd'
    BY <2>1 DEF Base, RequestInv, Fits, SessionsEnd
  <2>q. QED BY <2>2, EndsStep
<1>q. QED BY <1>1, BaseHolds, PTL DEF Spec, SessionsEndForGood

-----------------------------------------------------------------------------
(* The set-up and the last administrator                                   *)

ActiveAdmin(u) == account[u].state = "active" /\ account[u].admin

\* Where a request can be while there is no account.
Outside == {"idle", "setup", "login", "oidc", "expire", "install"}

LockInv == \A p \in Procs : pc[p] = "install" => setupLock = p

NobodyInv ==
  setups = 0 => /\ \A u \in Users : account[u].state = "none"
                /\ provider = "absent" /\ \A p \in Procs : pc[p] \in Outside

AdminsInv ==
  ~contested =>
    /\ setups <= 1
    /\ \A p \in Procs : pc[p] = "install" => setups = 0
    /\ setups > 0 => \E u \in Users : ActiveAdmin(u)
    /\ \A p, q \in Procs : pc[p] = "write" /\ pc[q] = "write" => p = q
    /\ \A p \in Procs : pc[p] = "write" /\ ctx[p].change \in Weakens /\ ActiveAdmin(ctx[p].user)
                        => OtherAdmins(ctx[p].user) # {}

SetupInv == LockInv /\ NobodyInv /\ AdminsInv

LEMMA InitSetup == Init => SetupInv
<1> SUFFICES ASSUME Init PROVE SetupInv  OBVIOUS
<1>1. PICK installed \in BOOLEAN, e \in Emails :
        /\ account = [u \in Users |-> IF installed /\ u = 1 THEN Root(e) ELSE Nobody]
        /\ setups = IF installed THEN 1 ELSE 0
        /\ provider = IF installed THEN "enabled" ELSE "absent"
  BY DEF Init
<1>2. \A p \in Procs : pc[p] = "idle"
  BY DEF Init
<1>3. setups > 0 => ActiveAdmin(1)
  BY <1>1, RootTyped, Constants DEF ActiveAdmin
<1>4. NobodyInv
  BY <1>1, <1>2, BlankTyped DEF NobodyInv, Outside
<1>5. setups <= 1
  BY <1>1
<1>q. QED BY <1>2, <1>3, <1>4, <1>5, Constants DEF SetupInv, LockInv, AdminsInv

\* Only the holder of the lock installs.
LEMMA LockStep ==
  ASSUME Base, LockInv, [Next]_vars
  PROVE  LockInv' /\ \A p, q \in Procs : InstallAdmin(p) /\ pc'[q] = "install" => FALSE
<1>1. ASSUME NEW p \in Procs, InstallAdmin(p) PROVE pc'[p] # "install" /\ Others(p) /\ setupLock = p
  <2>1. pc \in [Procs -> Stages] /\ ctx \in [Procs -> Context]
    BY DEF Base, TypeOK
  <2>2. Done(p) \/ (pc' = [pc EXCEPT ![p] = "session"] /\ ctx' = [ctx EXCEPT ![p].user = FreshUser])
    BY <1>1 DEF InstallAdmin, Goto
  <2>q. QED BY <1>1, <2>1, <2>2, Finished DEF InstallAdmin, LockInv, Others
<1>2. ASSUME NEW p \in Procs, RequestDies(p) PROVE pc'[p] = "idle" /\ (setupLock = p \/ setupLock' = setupLock)
  BY <1>2, Finished DEF RequestDies
<1>3. ASSUME NEW p \in Procs, NEW q \in Procs, InstallAdmin(p), pc'[q] = "install" PROVE FALSE
  <2>1. q # p /\ pc[q] = "install"
    BY <1>1, <1>3 DEF Others
  <2>q. QED BY <1>1, <1>3, <2>1 DEF LockInv
<1>4. ASSUME NEW q \in Procs, pc'[q] = "install" PROVE setupLock' = q
  <2>1. (pc[q] = "install" /\ pc'[q] = pc[q]) \/ setupLock' = q
    BY <1>4, NextWatched DEF Watched, Enters
  <2>2. CASE pc[q] = "install"
    <3>1. setupLock = q /\ q # NoOne
      BY <2>2, Constants DEF LockInv
    <3>2. ASSUME NEW p \in Procs, TakeSetupLock(p) PROVE FALSE
      BY <3>1, <3>2 DEF TakeSetupLock, LockFree
    <3>3. ASSUME NEW p \in Procs, RequestDies(p) PROVE setupLock' = q
      BY <1>2, <1>4, <3>1, <3>3
    <3>q. QED BY <1>3, <1>4, <3>1, <3>2, <3>3, NextWriters DEF Writers
  <2>q. QED BY <2>1, <2>2
<1>q. QED BY <1>3, <1>4 DEF LockInv

\* Before the set-up there is nobody, who could sign in or be made.
LEMMA NobodyStep ==
  ASSUME Base, NobodyInv, [Next]_vars
  PROVE  NobodyInv'
<1> SUFFICES ASSUME setups' = 0
             PROVE  /\ \A u \in Users : account'[u].state = "none"
                    /\ provider' = "absent" /\ \A p \in Procs : pc'[p] \in Outside
  BY DEF NobodyInv
<1>0. pc \in [Procs -> Stages] /\ ctx \in [Procs -> Context] /\ setups \in Nat /\ RequestInv /\ SessionInv
  BY DEF Base, TypeOK
<1> DEFINE Kept == account' = account /\ provider' = provider /\ \A p \in Procs : pc'[p] \in Outside
<1>a. setups = 0
  BY <1>0, NextWriters DEF Writers, InstallAdmin
<1>b. /\ \A u \in Users : account[u].state = "none"
      /\ provider = "absent" /\ (\A p \in Procs : pc[p] \in Outside) /\ Existing = {}
  BY <1>a DEF NobodyInv, Existing
<1>c. ASSUME NEW p \in Procs, Done(p) PROVE \A q \in Procs : pc'[q] \in Outside
  BY <1>b, <1>c, Finished DEF Others, Outside
<1>1. CASE UNCHANGED vars
  BY <1>1, <1>b DEF vars, data
<1>2. ASSUME NEW p \in Procs, NEW kind \in Limited, CountRequest(p, kind) PROVE Kept
  <2>1. \/ pc' = [pc EXCEPT ![p] = "expire"]
        \/ pc' = [pc EXCEPT ![p] = "idle"]
        \/ pc' = [pc EXCEPT ![p] = kind]
    BY <1>2, Zenon DEF CountRequest, Goto
  <2>2. {"expire", "idle", kind} \subseteq Outside
    BY DEF Outside, Limited
  <2>q. QED BY <1>0, <1>2, <1>b, <2>1, <2>2 DEF CountRequest, data
<1>3. ASSUME NEW p \in Procs, SetExpiry(p) PROVE Kept
  <2>1. ctx[p].change \in Outside /\ pc' = [pc EXCEPT ![p] = ctx[p].change]
    BY <1>0, <1>3 DEF SetExpiry, RequestInv, Fits, Limited, Outside, Goto
  <2>q. QED BY <1>0, <1>3, <1>b, <2>1 DEF SetExpiry, data
<1>4. ASSUME NEW p \in Procs, TakeSetupLock(p) PROVE Kept
  BY <1>0, <1>4, <1>b DEF TakeSetupLock, Goto, Outside, data
<1>5. ASSUME NEW p \in Procs, InstallAdmin(p) PROVE Kept
  BY <1>0, <1>5, <1>a, <1>c DEF InstallAdmin
<1>6. ASSUME NEW p \in Procs, ReadIdentity(p) PROVE Kept
  <2>1. Done(p) /\ UNCHANGED data
    BY <1>6, <1>b DEF ReadIdentity
  <2>q. QED BY <1>c, <2>1 DEF data
<1>7. ASSUME NEW p \in Procs, RequestDies(p) PROVE Kept
  BY <1>7, <1>c DEF RequestDies, data
<1>8. ASSUME NEW p \in Procs, ReadLogin(p) \/ ReadSession(p) \/ UseToken(p) PROVE FALSE
  BY <1>8, <1>0, <1>b DEF ReadLogin, ReadSession, UseToken, SessionInv
<1>9. ASSUME NEW p \in Procs, Verify(p) \/ CreateSession(p) \/ SignInKnown(p) \/ ProvisionUser(p) \/ TouchSession(p)
                              \/ Act(p) \/ Administer(p)
      PROVE  FALSE
  BY <1>9, <1>b DEF Verify, CreateSession, SignInKnown, ProvisionUser, TouchSession, Act, Logout, CountTokens,
     CreateToken, DeleteToken, Administer, CreateUser, ReadTarget, WriteTarget, ChangeProvider, ActsAsAdmin, Outside
<1>10. CASE MinutePasses \/ QuarterPasses \/ DayPasses
  BY <1>10, <1>b DEF MinutePasses, QuarterPasses, DayPasses, data
<1>11. ASSUME NEW p \in Procs, SignIn(p) PROVE Kept
  BY <1>4, <1>5, <1>6, <1>8, <1>9, <1>11 DEF SignIn
<1>q. QED
  BY <1>1, <1>2, <1>3, <1>7, <1>8, <1>9, <1>10, <1>11, <1>b DEF Next

\* What the account steps, except an administrator's write, leave of the administrators.
LEMMA AdminsKept ==
  ASSUME Base, [Next]_vars, \A p \in Procs : ~WriteTarget(p)
  PROVE  \A u \in Users : account[u].state # "none" => /\ account'[u].state = account[u].state
                                                       /\ account'[u].admin = account[u].admin
<1>1. CASE \E a \in Account : Made(a)
  BY <1>1, MadeKeeps
<1>2. CASE \E u \in Existing, e \in Emails : Renamed(u, e)
  BY <1>2, RenamedKeeps
<1>3. CASE \E p \in Procs : ChangeProvider(p)
  BY <1>3, ProviderKeeps
<1>q. QED BY <1>1, <1>2, <1>3, AccountSteps

\* The one write that may take an administrator away leaves another.
LEMMA WriteLeavesAdmin ==
  ASSUME Base, NEW p \in Procs, WriteTarget(p), \E u \in Users : ActiveAdmin(u),
         ctx[p].change \in Weakens /\ ActiveAdmin(ctx[p].user) => OtherAdmins(ctx[p].user) # {}
  PROVE  \E u \in Users : ActiveAdmin(u)'
<1> DEFINE t == ctx[p].user
<1>0. account \in [Users -> Account]
  BY DEF Base, TypeOK
<1>1. CASE account' = account
  BY <1>1 DEF ActiveAdmin
<1>2. CASE /\ t \in Existing /\ ctx[p].change \in Changes
           /\ account'[t] = Changed(account[t], ctx[p].change)
           /\ \A u \in Users : u # t => account'[u] = account[u]
  <2>1. PICK u \in Users : ActiveAdmin(u)
    OBVIOUS
  <2>2. CASE u # t
    BY <1>2, <2>1, <2>2 DEF ActiveAdmin
  <2>3. CASE u = t /\ ctx[p].change \notin Weakens
    <3>1. account[t] \in Account /\ ctx[p].change \in Changes /\ account[t].state = "active" /\ account[t].admin
      BY <1>0, <1>2, <2>1, <2>3 DEF ActiveAdmin
    <3>2. account'[t].state = "active" /\ account'[t].admin
      BY <1>2, <2>3, <3>1, ChangedTyped
    <3>q. QED BY <2>3, <3>2 DEF ActiveAdmin
  <2>4. CASE u = t /\ ctx[p].change \in Weakens
    <3>1. PICK o \in OtherAdmins(t) : TRUE
      BY <2>1, <2>4
    <3>2. o \in Users /\ o # t /\ account[o].state = "active" /\ account[o].admin
      BY <3>1 DEF OtherAdmins, Existing
    <3>q. QED BY <1>2, <3>2 DEF ActiveAdmin
  <2>q. QED BY <2>2, <2>3, <2>4
<1>q. QED BY <1>1, <1>2, Written

LEMMA InstallStep ==
  ASSUME Base, NEW p \in Procs, InstallAdmin(p)
  PROVE  (setups' = setups) \/ (setups' = setups + 1 /\ \E u \in Users : ActiveAdmin(u)')
<1>1. PICK e \in Emails :
        IF EmailTaken(e, 0) \/ Free = {} THEN Done(p) /\ UNCHANGED <<account, setups>>
        ELSE /\ account' = [account EXCEPT ![FreshUser] = Root(e)] /\ setups' = setups + 1
             /\ Goto(p, "session") /\ ctx' = [ctx EXCEPT ![p].user = FreshUser]
  BY DEF InstallAdmin
<1>2. CASE ~(EmailTaken(e, 0) \/ Free = {})
  <2>1. FreshUser \in Users /\ account'[FreshUser] = Root(e)
    BY <1>1, <1>2, RootTyped, AccountMade
  <2>q. QED BY <1>1, <1>2, <2>1, RootTyped DEF ActiveAdmin
<1>q. QED BY <1>1, <1>2

LEMMA AdminsStep ==
  ASSUME Base, LockInv, AdminsInv, [Next]_vars
  PROVE  AdminsInv'
<1> SUFFICES ASSUME ~contested'
             PROVE  AdminsInv'
  BY DEF AdminsInv
<1>0. setups \in Nat /\ pc \in [Procs -> Stages] /\ ctx \in [Procs -> Context] /\ RequestInv
  BY DEF Base, TypeOK
<1>1. ~contested
  BY NextWriters DEF Writers, ReadTarget
<1>2. /\ setups <= 1
      /\ \A p \in Procs : pc[p] = "install" => setups = 0
      /\ setups > 0 => \E u \in Users : ActiveAdmin(u)
      /\ \A p, q \in Procs : pc[p] = "write" /\ pc[q] = "write" => p = q
      /\ \A p \in Procs : pc[p] = "write" /\ ctx[p].change \in Weakens /\ ActiveAdmin(ctx[p].user)
                          => OtherAdmins(ctx[p].user) # {}
  BY <1>1 DEF AdminsInv
<1>3. setups' <= 1
  <2>1. ASSUME NEW p \in Procs, InstallAdmin(p) PROVE setups = 0
    BY <1>2, <2>1 DEF InstallAdmin
  <2>q. QED BY <1>0, <1>2, <2>1, InstallStep, NextWriters DEF Writers
<1>4. ASSUME NEW q \in Procs, pc'[q] = "install" PROVE setups' = 0
  <2>1. setups' = setups
    BY <1>4, LockStep, NextWriters DEF Writers
  <2>2. CASE pc[q] = "install"
    BY <1>2, <2>1, <2>2
  <2>3. CASE TakeSetupLock(q)
    <3>1. Existing = {}
      BY <1>0, <1>4, <2>3 DEF TakeSetupLock, Goto
    <3>2. ~(setups > 0)
      BY <1>2, <3>1 DEF ActiveAdmin, Existing
    <3>q. QED BY <1>0, <2>1, <3>2
  <2>q. QED BY <1>4, <2>2, <2>3, NextWatched DEF Watched, Enters
<1>5. ASSUME setups' > 0 PROVE \E u \in Users : ActiveAdmin(u)'
  <2>1. CASE setups' # setups
    BY <2>1, InstallStep, NextWriters DEF Writers
  <2>2. CASE setups' = setups
    <3>1. PICK u \in Users : ActiveAdmin(u)
      BY <1>2, <1>5, <2>2
    <3>2. CASE \A p \in Procs : ~WriteTarget(p)
      BY <3>1, <3>2, AdminsKept DEF ActiveAdmin
    <3>3. ASSUME NEW p \in Procs, WriteTarget(p) PROVE \E o \in Users : ActiveAdmin(o)'
      <4>1. ctx[p].change \in Weakens /\ ActiveAdmin(ctx[p].user) => OtherAdmins(ctx[p].user) # {}
        BY <1>2, <3>3 DEF WriteTarget
      <4>q. QED BY <3>1, <3>3, <4>1, WriteLeavesAdmin
    <3>q. QED BY <3>2, <3>3
  <2>q. QED BY <2>1, <2>2
<1>6. ASSUME NEW p \in Procs, ReadTarget(p), pc'[p] = "write"
      PROVE  /\ Others(p) /\ \A q \in Procs : q # p => pc[q] # "write"
             /\ ctx'[p].change \in Weakens /\ ActiveAdmin(ctx'[p].user) => OtherAdmins(ctx'[p].user) # {}
             /\ account' = account
  <2>1. PICK u \in Existing, change \in Changes :
          IF change \in Weakens /\ account[u].admin /\ account[u].state = "active" /\ OtherAdmins(u) = {}
          THEN Done(p) /\ UNCHANGED contested
          ELSE /\ Goto(p, "write")
               /\ ctx' = [ctx EXCEPT ![p] = [Blank EXCEPT !.user = u, !.change = change]]
               /\ contested' = (contested \/ Acting(p) # {})
    BY <1>6 DEF ReadTarget
  <2>2. ~Done(p)
    BY <1>6, Finished
  <2>3. /\ ~(change \in Weakens /\ account[u].admin /\ account[u].state = "active" /\ OtherAdmins(u) = {})
        /\ pc' = [pc EXCEPT ![p] = "write"]
        /\ ctx' = [ctx EXCEPT ![p] = [Blank EXCEPT !.user = u, !.change = change]]
        /\ Acting(p) = {}
    BY <2>1, <2>2 DEF Goto
  <2> DEFINE note == [Blank EXCEPT !.user = u, !.change = change]
  <2>4. note.user = u /\ note.change = change
    BY BlankTyped DEF Context
  <2>5. ctx'[p] = note /\ Others(p)
    BY <1>0, <2>3 DEF Others
  <2>6. \A q \in Procs : q # p => pc[q] # "write"
    BY <2>3 DEF Acting
  <2> HIDE DEF note
  <2>7. ctx'[p].user = u /\ ctx'[p].change = change
    BY <2>4, <2>5
  <2>q. QED BY <1>6, <2>3, <2>5, <2>6, <2>7 DEF ActiveAdmin, ReadTarget, data
<1>7. ASSUME NEW p \in Procs, pc'[p] = "write" PROVE (pc[p] = "write" /\ ctx'[p] = ctx[p]) \/ ReadTarget(p)
  BY <1>7, NextWatched DEF Watched, Enters
<1>8. ASSUME NEW p \in Procs, NEW q \in Procs, pc'[p] = "write", pc'[q] = "write" PROVE p = q
  <2>1. ASSUME NEW a \in Procs, NEW b \in Procs, a # b, pc'[a] = "write", pc'[b] = "write", ReadTarget(a) PROVE FALSE
    BY <1>6, <2>1 DEF Others
  <2>q. QED BY <1>2, <1>7, <1>8, <2>1
<1>9. ASSUME NEW p \in Procs, pc'[p] = "write", ctx'[p].change \in Weakens, ActiveAdmin(ctx[p].user)'
      PROVE  OtherAdmins(ctx[p].user)' # {}
  <2>1. CASE ReadTarget(p)
    BY <1>6, <1>9, <2>1 DEF ActiveAdmin, OtherAdmins, Existing
  <2>2. CASE pc[p] = "write" /\ ctx'[p] = ctx[p]
    <3> DEFINE t == ctx[p].user
    <3>1. ASSUME NEW q \in Procs, WriteTarget(q) PROVE FALSE
      <4>1. q = p
        BY <1>2, <2>2, <3>1 DEF WriteTarget
      <4>q. QED BY <1>9, <3>1, <4>1, Finished DEF WriteTarget
    <3>2. t \in Users \cup {0} /\ (t # 0 => account[t].state # "none")
      BY <1>0, <2>2 DEF RequestInv, Fits, Context
    <3>3. \A u \in Users : account[u].state # "none" => /\ account'[u].state = account[u].state
                                                        /\ account'[u].admin = account[u].admin
      BY <3>1, AdminsKept
    <3>4. t # 0
      BY <2>2, <1>0 DEF RequestInv, Fits
    <3>5. ActiveAdmin(t)
      BY <1>9, <2>2, <3>2, <3>3, <3>4 DEF ActiveAdmin
    <3>6. PICK o \in OtherAdmins(t) : TRUE
      BY <1>2, <1>9, <2>2, <3>5
    <3>7. o \in Users /\ o # t /\ account'[o].state = "active" /\ account'[o].admin
      BY <3>3, <3>6 DEF OtherAdmins, Existing
    <3>q. QED BY <2>2, <3>7 DEF OtherAdmins, Existing
  <2>q. QED BY <1>7, <1>9, <2>1, <2>2
<1>q. QED BY <1>3, <1>4, <1>5, <1>8, <1>9 DEF AdminsInv

\* The set-up makes one administrator, and from then on there always is one,
\* unless two administrators changed users at once (setup, admin_update_user,
\* admin_delete_user).
THEOREM AlwaysAdministered == Spec => []Administered
<1>1. SetupInv /\ Base /\ [Next]_vars => SetupInv'
  BY LockStep, NobodyStep, AdminsStep DEF SetupInv
<1>2. SetupInv => Administered
  BY DEF SetupInv, AdminsInv, Administered, OneSetup, AdminRemains, ActiveAdmin
<1>q. QED BY <1>1, <1>2, InitSetup, BaseHolds, PTL DEF Spec

-----------------------------------------------------------------------------
(* Failed sign-ins and tokens                                              *)

\* While the sign-ins of a user do not overlap, the one that decides has read
\* the row as it is.
BrakeInv ==
  \A u \in Users \ raced :
    /\ brake[u].last = "recent" => brake[u].fails = tries[u] /\ (tries[u] = 0 => brake[u].lock = "on")
    /\ brake[u].last # "recent" => tries[u] = 0
    /\ \A p \in Procs : pc[p] = "verify" /\ ctx[p].user = u /\ u \in Existing => ctx[p].failed = brake[u]
    /\ \A p, q \in Procs : pc[p] = "verify" /\ pc[q] = "verify" /\ ctx[p].user = u /\ ctx[q].user = u => p = q

\* The arithmetic of one decision, on the row that was read.
LEMMA Failure ==
  ASSUME NEW b \in Brake, NEW n \in Nat,
         b.last = "recent" => b.fails = n /\ (n = 0 => b.lock = "on"),
         b.last # "recent" => n = 0
  PROVE  LET r == Registered(b, b)
             m == IF n + 1 >= MaxFailed THEN 0 ELSE n + 1
         IN r.last = "recent" /\ r.fails = m /\ (m = 0 => r.lock = "on")
<1>1. Streak(b) = n + 1
  BY DEF Streak
<1>2. MaxFailed \in Nat \ {0}
  BY Constants
<1>q. QED BY <1>1, <1>2 DEF Registered

LEMMA Success ==
  ASSUME NEW b \in Brake
  PROVE  Cleared(b, b).last # "recent"
BY DEF Cleared

\* Who is about to decide on a user's sign-in, after a step.
LEMMA StillVerifying ==
  ASSUME Base, BrakeInv, [Next]_vars, NEW u \in Users \ raced', NEW p \in Procs, pc'[p] = "verify", ctx'[p].user = u
  PROVE  /\ u \notin raced
         /\ \/ pc[p] = "verify" /\ ctx'[p] = ctx[p]
            \/ /\ ctx'[p].failed = brake[u] /\ brake' = brake /\ Others(p)
               /\ \A q \in Procs \ {p} : ~(pc[q] = "verify" /\ ctx[q].user = u)
<1>0. raced \subseteq raced' /\ pc \in [Procs -> Stages] /\ ctx \in [Procs -> Context]
  BY NextWriters DEF Writers, ReadLogin, Base, TypeOK
<1>1. CASE ReadLogin(p)
  <2>1. PICK v \in Existing, right \in BOOLEAN :
          /\ ctx' = [ctx EXCEPT ![p] = [Blank EXCEPT !.user = v, !.right = right, !.row = account[v], !.failed = brake[v]]]
          /\ raced' = IF \E q \in Procs \ {p} : pc[q] = "verify" /\ ctx[q].user = v THEN raced \cup {v} ELSE raced
    BY <1>1 DEF ReadLogin
  <2>2. ctx'[p].user = v /\ ctx'[p].failed = brake[v]
    BY <1>0, <2>1 DEF Blank
  <2>3. Others(p) /\ brake' = brake
    BY <1>0, <1>1, <2>1 DEF Others, ReadLogin, Goto, data
  <2>4. v = u
    BY <2>2
  <2>q. QED BY <1>0, <2>1, <2>2, <2>3, <2>4
<1>q. QED BY <1>0, <1>1, NextWatched DEF Watched, Enters

LEMMA BrakeStep ==
  ASSUME Base, BrakeInv, [Next]_vars
  PROVE  BrakeInv'
<1>0. /\ brake \in [Users -> Brake] /\ tries \in [Users -> Nat] /\ RequestInv
      /\ raced \subseteq raced' /\ pc \in [Procs -> Stages] /\ ctx \in [Procs -> Context]
  BY NextWriters DEF Writers, ReadLogin, Base, TypeOK
<1> SUFFICES ASSUME NEW u \in Users \ raced'
             PROVE  /\ brake'[u].last = "recent" => brake'[u].fails = tries'[u] /\ (tries'[u] = 0 => brake'[u].lock = "on")
                    /\ brake'[u].last # "recent" => tries'[u] = 0
                    /\ \A p \in Procs : pc'[p] = "verify" /\ ctx'[p].user = u /\ u \in Existing' => ctx'[p].failed = brake'[u]
                    /\ \A p, q \in Procs : pc'[p] = "verify" /\ pc'[q] = "verify" /\ ctx'[p].user = u /\ ctx'[q].user = u => p = q
  BY DEF BrakeInv
<1>1. /\ u \in Users \ raced
      /\ brake[u].last = "recent" => brake[u].fails = tries[u] /\ (tries[u] = 0 => brake[u].lock = "on")
      /\ brake[u].last # "recent" => tries[u] = 0
      /\ \A p \in Procs : pc[p] = "verify" /\ ctx[p].user = u /\ u \in Existing => ctx[p].failed = brake[u]
      /\ \A p, q \in Procs : pc[p] = "verify" /\ pc[q] = "verify" /\ ctx[p].user = u /\ ctx[q].user = u => p = q
  BY <1>0 DEF BrakeInv
<1>2. \A p, q \in Procs : pc'[p] = "verify" /\ pc'[q] = "verify" /\ ctx'[p].user = u /\ ctx'[q].user = u => p = q
  <2> SUFFICES ASSUME NEW p \in Procs, NEW q \in Procs, p # q, pc'[p] = "verify", pc'[q] = "verify",
                      ctx'[p].user = u, ctx'[q].user = u
               PROVE  FALSE
    OBVIOUS
  <2>1. (pc[p] = "verify" /\ ctx'[p] = ctx[p]) \/ (Others(p) /\ ~(pc[q] = "verify" /\ ctx[q].user = u))
    BY StillVerifying
  <2>2. (pc[q] = "verify" /\ ctx'[q] = ctx[q]) \/ (Others(q) /\ ~(pc[p] = "verify" /\ ctx[p].user = u))
    BY StillVerifying
  <2>q. QED BY <1>1, <2>1, <2>2 DEF Others
<1>3. \A p \in Procs : pc'[p] = "verify" /\ ctx'[p].user = u /\ u \in Existing' /\ brake'[u] = brake[u]
                       => ctx'[p].failed = brake'[u]
  <2> SUFFICES ASSUME NEW p \in Procs, pc'[p] = "verify", ctx'[p].user = u, u \in Existing', brake'[u] = brake[u]
               PROVE  ctx'[p].failed = brake'[u]
    OBVIOUS
  <2>1. CASE pc[p] = "verify" /\ ctx'[p] = ctx[p]
    <3>1. account[u].state # "none"
      BY <1>0, <2>1, Constants DEF RequestInv, Fits
    <3>2. u \in Existing
      BY <3>1, NextKeeps DEF AccountsKept, Existing
    <3>q. QED BY <1>1, <2>1, <3>2
  <2>q. QED BY <2>1, StillVerifying
<1>4. CASE brake'[u] = brake[u] /\ tries'[u] = tries[u]
  BY <1>1, <1>2, <1>3, <1>4
<1>5. ASSUME NEW p \in Procs, Verify(p), ctx[p].user = u, u \in Existing
      PROVE  /\ brake'[u].last = "recent" => brake'[u].fails = tries'[u] /\ (tries'[u] = 0 => brake'[u].lock = "on")
             /\ brake'[u].last # "recent" => tries'[u] = 0
             /\ \A q \in Procs : pc'[q] = "verify" => ctx'[q].user # u
  <2>1. ctx[p].failed = brake[u] /\ pc[p] = "verify" /\ brake[u] \in Brake /\ tries[u] \in Nat
    BY <1>0, <1>1, <1>5 DEF Verify
  <2>2. ASSUME NEW q \in Procs, pc'[q] = "verify", ctx'[q].user = u PROVE FALSE
    <3>1. pc[q] = "verify" /\ ctx'[q] = ctx[q]
      <4>1. (Done(p) \/ pc' = [pc EXCEPT ![p] = "session"]) /\ (Done(p) \/ ctx' = [ctx EXCEPT ![p] = [Blank EXCEPT !.user = ctx[p].user]])
        BY <1>5 DEF Verify, Goto
      <4>2. pc'[p] # "verify" /\ Others(p)
        BY <1>0, <4>1, Finished DEF Others
      <4>q. QED BY <2>2, <4>2 DEF Others
    <3>2. q = p
      BY <1>1, <1>5, <2>1, <2>2, <3>1
    <3>3. pc'[p] # "verify"
      <4>1. Done(p) \/ pc' = [pc EXCEPT ![p] = "session"]
        BY <1>5 DEF Verify, Goto
      <4>q. QED BY <1>0, <4>1, Finished
    <3>q. QED BY <2>2, <3>2, <3>3
  <2>3. \/ brake' = brake /\ tries' = tries
        \/ /\ brake' = [brake EXCEPT ![u] = Registered(brake[u], brake[u])]
           /\ tries' = [tries EXCEPT ![u] = IF tries[u] + 1 >= MaxFailed THEN 0 ELSE tries[u] + 1]
        \/ /\ brake' = [brake EXCEPT ![u] = Cleared(brake[u], brake[u])]
           /\ tries' = [tries EXCEPT ![u] = 0]
    BY <1>5, <2>1, Zenon DEF Verify
  <2>4. CASE brake' = brake /\ tries' = tries
    BY <1>1, <2>2, <2>4
  <2>5. CASE /\ brake' = [brake EXCEPT ![u] = Registered(brake[u], brake[u])]
             /\ tries' = [tries EXCEPT ![u] = IF tries[u] + 1 >= MaxFailed THEN 0 ELSE tries[u] + 1]
    <3> DEFINE r == Registered(brake[u], brake[u])
               m == IF tries[u] + 1 >= MaxFailed THEN 0 ELSE tries[u] + 1
    <3>1. r.last = "recent" /\ r.fails = m /\ (m = 0 => r.lock = "on")
      BY <1>1, <2>1, Failure
    <3>2. brake'[u] = r /\ tries'[u] = m
      BY <1>0, <2>5
    <3>q. QED BY <2>2, <3>1, <3>2
  <2>6. CASE /\ brake' = [brake EXCEPT ![u] = Cleared(brake[u], brake[u])]
             /\ tries' = [tries EXCEPT ![u] = 0]
    <3>1. brake'[u] = Cleared(brake[u], brake[u]) /\ tries'[u] = 0
      BY <1>0, <2>6
    <3>q. QED BY <2>1, <2>2, <3>1, Success
  <2>q. QED BY <2>3, <2>4, <2>5, <2>6
<1>6. ASSUME NEW p \in Procs, Verify(p), ~(ctx[p].user = u /\ u \in Existing)
      PROVE  brake'[u] = brake[u] /\ tries'[u] = tries[u]
  <2>1. \/ brake' = brake /\ tries' = tries
        \/ /\ ctx[p].user \in Existing
           /\ \E b : brake' = [brake EXCEPT ![ctx[p].user] = b]
           /\ \E n : tries' = [tries EXCEPT ![ctx[p].user] = n]
    BY <1>6, Zenon DEF Verify
  <2>q. QED BY <1>0, <1>6, <2>1
<1>7. ASSUME NEW p \in Procs, WriteTarget(p)
      PROVE  \/ brake'[u] = brake[u] /\ tries'[u] = tries[u]
             \/ brake'[u] = NoBrake /\ tries'[u] = 0 /\ u \notin Existing'
  <2> DEFINE t == ctx[p].user
             gone == ctx[p].change = "delete"
  <2>1. CASE t \notin Existing \/ t # u \/ ~gone
    BY <1>0, <1>7, <2>1 DEF WriteTarget
  <2>2. CASE t \in Existing /\ t = u /\ gone
    <3>1. brake'[u] = NoBrake /\ tries'[u] = 0
      BY <1>0, <1>7, <2>2 DEF WriteTarget
    <3>2. account'[u].state = "deleted"
      <4>1. account \in [Users -> Account]
        BY DEF Base, TypeOK
      <4>2. account'[u] = Changed(account[u], "delete")
        BY <1>7, <2>2, <4>1 DEF WriteTarget
      <4>q. QED BY <4>1, <4>2, ChangedTyped DEF Changes
    <3>q. QED BY <3>1, <3>2 DEF Existing
  <2>q. QED BY <2>1, <2>2
<1>8. CASE QuarterPasses
  <2>1. brake'[u] = Later(brake[u]) /\ tries'[u] = 0 /\ \A p \in Procs : pc'[p] = "idle"
    BY <1>8 DEF QuarterPasses, Quiet
  <2>2. brake'[u].last # "recent"
    BY <1>0, <2>1 DEF Later, Brake
  <2>q. QED BY <2>1, <2>2
<1>9. CASE \E p \in Procs : Verify(p)
  BY <1>2, <1>4, <1>5, <1>6, <1>9
<1>10. CASE \E p \in Procs : WriteTarget(p)
  BY <1>2, <1>4, <1>7, <1>10 DEF NoBrake
<1>q. QED BY <1>4, <1>8, <1>9, <1>10, NextWriters DEF Writers

\* Requests that have found room for a token of a user.
Asking(u) == {p \in Procs : pc[p] = "token" /\ ctx[p].user = u}

\* Whoever found room found fewer tokens than the cap; the requests that did so
\* at once are all there can be.
TokensInv ==
  \A u \in Users : tokens[u] + Cardinality(Asking(u)) <= (TokenCap - 1) + Cardinality(Procs)

LEMMA AskingFinite ==
  ASSUME NEW u
  PROVE  /\ Cardinality(Procs) \in Nat /\ Cardinality(Asking(u)) \in Nat /\ Cardinality(Asking(u)') \in Nat
         /\ Cardinality(Asking(u)) <= Cardinality(Procs) /\ Cardinality(Asking(u)') <= Cardinality(Procs)
         /\ IsFiniteSet(Asking(u))
<1>1. IsFiniteSet(Procs)
  BY ConstantsAssumption
<1>2. Asking(u) \in SUBSET Procs /\ Asking(u)' \in SUBSET Procs
  BY DEF Asking
<1>q. QED BY <1>1, <1>2, FS_Subset, FS_CardinalityType

LEMMA TokensStep ==
  ASSUME Base, TokensInv, [Next]_vars
  PROVE  TokensInv'
<1> SUFFICES ASSUME NEW u \in Users
             PROVE  tokens'[u] + Cardinality(Asking(u)') <= (TokenCap - 1) + Cardinality(Procs)
  BY DEF TokensInv
<1>0. /\ tokens \in [Users -> Nat] /\ pc \in [Procs -> Stages] /\ ctx \in [Procs -> Context]
      /\ tokens[u] \in Nat /\ TokenCap \in Nat \ {0}
  BY Constants DEF Base, TypeOK
<1>1. tokens[u] + Cardinality(Asking(u)) <= (TokenCap - 1) + Cardinality(Procs)
  BY DEF TokensInv
<1>2. CASE \E q \in Procs : CountTokens(q) /\ pc'[q] = "token" /\ ctx'[q] = ctx[q] /\ ctx[q].user = u
  <2>1. tokens' = tokens
    BY <1>2 DEF CountTokens, data
  <2>2. BelowTokenCap(u)
    BY <1>0, <1>2, Finished DEF CountTokens
  <2>3. tokens[u] <= TokenCap - 1
    BY <1>0, <2>2 DEF BelowTokenCap
  <2>q. QED BY <1>0, <2>1, <2>3, AskingFinite
<1>3. CASE ~\E q \in Procs : CountTokens(q) /\ pc'[q] = "token" /\ ctx'[q] = ctx[q] /\ ctx[q].user = u
  <2>1. Asking(u)' \subseteq Asking(u)
    <3> SUFFICES ASSUME NEW q \in Procs, pc'[q] = "token", ctx'[q].user = u PROVE pc[q] = "token" /\ ctx[q].user = u
      BY DEF Asking
    <3>q. QED BY <1>3, NextWatched DEF Watched, Enters
  <2>2. Cardinality(Asking(u)') <= Cardinality(Asking(u))
    <3>1. Asking(u)' \in SUBSET Asking(u)
      BY <2>1
    <3>q. QED BY <3>1, AskingFinite, FS_Subset
  <2>3. CASE tokens'[u] <= tokens[u] /\ tokens'[u] \in Nat
    BY <1>0, <1>1, <2>2, <2>3, AskingFinite
  <2>4. CASE \E p \in Procs : CreateToken(p)
    <3>1. PICK p \in Procs : CreateToken(p)
      BY <2>4
    <3>2. CASE tokens'[u] = tokens[u]
      BY <1>0, <2>3, <3>2
    <3>3. CASE tokens'[u] # tokens[u]
      <4>1. ctx[p].user = u /\ tokens'[u] = tokens[u] + 1
        BY <1>0, <3>1, <3>3 DEF CreateToken
      <4>2. p \in Asking(u) /\ p \notin Asking(u)'
        BY <3>1, <4>1, Finished DEF CreateToken, Asking
      <4>3. IsFiniteSet(Asking(u) \ {p}) /\ Cardinality(Asking(u) \ {p}) = Cardinality(Asking(u)) - 1
        BY <4>2, AskingFinite, FS_RemoveElement
      <4>4. Asking(u)' \in SUBSET (Asking(u) \ {p})
        BY <2>1, <4>2
      <4>5. Cardinality(Asking(u)') <= Cardinality(Asking(u)) - 1
        BY <4>3, <4>4, FS_Subset
      <4>q. QED BY <1>0, <1>1, <4>1, <4>5, AskingFinite
    <3>q. QED BY <3>2, <3>3
  <2>5. CASE \E p \in Procs : DeleteToken(p)
    <3>1. PICK p \in Procs : DeleteToken(p)
      BY <2>5
    <3>2. tokens' = [tokens EXCEPT ![ctx[p].user] = tokens[ctx[p].user] - 1] /\ tokens[ctx[p].user] > 0
      BY <3>1 DEF DeleteToken, TokenThere
    <3>3. tokens'[u] = tokens[u] \/ (tokens[u] > 0 /\ tokens'[u] = tokens[u] - 1)
      BY <1>0, <3>2
    <3>q. QED BY <1>0, <2>3, <3>3
  <2>6. CASE \E p \in Procs : WriteTarget(p)
    <3>1. PICK p \in Procs : WriteTarget(p)
      BY <2>6
    <3>2. \/ tokens' = tokens
          \/ tokens' = [tokens EXCEPT ![ctx[p].user] = IF ctx[p].change = "delete" THEN 0 ELSE @]
      BY <3>1, Zenon DEF WriteTarget
    <3>3. tokens'[u] = tokens[u] \/ tokens'[u] = 0
      BY <1>0, <3>2
    <3>q. QED BY <1>0, <2>3, <3>3
  <2>q. QED BY <1>0, <2>3, <2>4, <2>5, <2>6, NextWriters DEF Writers
<1>q. QED BY <1>2, <1>3

\* What is counted in steps another request can come between stays within its
\* limit: failed sign-ins exactly, while they do not overlap, and tokens up to
\* the number of requests at once (_register_failed_login, create_api_token).
THEOREM LimitsHold == Spec => []LimitsAreKept
<1>1. Init => BrakeInv /\ TokensInv
  <2> SUFFICES ASSUME Init PROVE BrakeInv /\ TokensInv
    OBVIOUS
  <2>1. BrakeInv
    BY DEF Init, BrakeInv, NoBrake
  <2>2. \A u \in Users : tokens[u] = 0
    BY DEF Init
  <2>3. TokensInv
    BY <2>2, AskingFinite, Constants DEF TokensInv
  <2>q. QED BY <2>1, <2>3
<1>2. BrakeInv /\ TokensInv /\ Base /\ [Next]_vars => BrakeInv' /\ TokensInv'
  BY BrakeStep, TokensStep
<1>3. BrakeInv /\ TokensInv /\ Base => LimitsAreKept
  <2> SUFFICES ASSUME BrakeInv, TokensInv, Base PROVE LimitsAreKept
    OBVIOUS
  <2>1. BrakeIsExact
    BY DEF BrakeInv, BrakeIsExact
  <2>2. ASSUME NEW u \in Users PROVE tokens[u] < TokenCap + Cardinality(Procs)
    <3>1. tokens[u] \in Nat /\ tokens[u] + Cardinality(Asking(u)) <= (TokenCap - 1) + Cardinality(Procs)
      BY DEF Base, TypeOK, TokensInv
    <3>q. QED BY <3>1, AskingFinite, Constants
  <2>q. QED BY <2>1, <2>2 DEF LimitsAreKept, TokensBounded
<1>q. QED BY <1>1, <1>2, <1>3, BaseHolds, PTL DEF Spec
=============================================================================
