------------------------------ MODULE Accounts ------------------------------
(***************************************************************************)
(* Accounts: the first-run set-up, the sign-in with a password and its     *)
(* brake, the sign-in through an OIDC provider, sessions and API tokens,   *)
(* the administration of users, and the rate limiter in front of them      *)
(* (src/backend/app/api/auth.py, api/deps.py, services/security.py).       *)
(*                                                                         *)
(* Each request is a process; a step is what it does in one transaction,   *)
(* or what it reads before it writes.  A request is short against every    *)
(* period of time in this code, so the longer ones pass between requests.  *)
(*                                                                         *)
(* Abstractions.  A password is right or wrong, a token or cookie is a     *)
(* session; names of users and teams are left out; there is one provider   *)
(* at a time, and one client for the rate limiter.                         *)
(***************************************************************************)
EXTENDS Naturals, FiniteSets

CONSTANTS
  Users,        \* accounts, by id; 1 is the one the set-up made
  Procs,        \* requests at one time
  Subjects,     \* people as the provider knows them
  Emails,
  MaxFailed,    \* _LOGIN_MAX_FAILED_ATTEMPTS
  TokenCap,     \* _API_TOKEN_MAX_PER_USER
  RateLimit,    \* settings.rate_limit_per_minute
  Window, Cap,  \* SESSION_SLIDING_WINDOW and SESSION_ABSOLUTE_CAP, in days
  MaxRequests, MaxDays, Faults, MaxFaults  \* bounds of the instance

FaultKinds == {"request", "redis"}
NoOne      == "no one"

ASSUME ConstantsAssumption ==
  /\ Users \subseteq Nat \ {0} /\ 1 \in Users /\ IsFiniteSet(Procs)
  /\ NoOne \notin Subjects \cup Procs /\ Emails # {}
  /\ {MaxFailed, TokenCap, RateLimit, Window, Cap} \subseteq Nat \ {0}
  /\ Window <= Cap
  /\ {MaxRequests, MaxDays, MaxFaults} \subseteq Nat /\ Faults \subseteq FaultKinds

VARIABLES
  account,      \* the rows of users
  brake,        \* failed_login_count, last_failed_login_at, locked_until of a user
  session,      \* the rows of sessions
  tokens,       \* number of API tokens of a user
  provider,     \* the row of auth_providers
  setupLock,    \* who holds the advisory lock of the set-up
  counter, ttl, \* Redis: the client's counter, and whether it expires
  pc, ctx,      \* the requests
  clock,        \* days
  started, faults,
  setups,       \* history: accounts made by the set-up
  tries,        \* failures since the last success or long pause, modulo MaxFailed
  raced,        \* users whose sign-ins overlapped
  contested     \* whether two administrators changed users at once

data    == <<account, brake, session, tokens, provider>>
limiter == <<counter, ttl>>
bounds  == <<started, faults>>
history == <<setups, tries, raced, contested>>
vars    == <<data, setupLock, limiter, pc, ctx, clock, bounds, history>>

Limited == {"setup", "login", "oidc"}   \* requests that pass the rate limiter first
Changes == {"promote", "demote", "activate", "deactivate", "password", "delete"}

SessionIds == 1..(MaxRequests + 1)
Account    == [state : {"none", "active", "inactive", "deleted"}, admin : BOOLEAN, password : BOOLEAN,
               subject : Subjects \cup {NoOne}, linked : BOOLEAN, email : Emails]
Brake      == [fails : Nat, last : {"never", "recent", "old"}, lock : {"never", "on", "over"}]
Session    == [state : {"none", "live", "gone"}, user : Users \cup {0}, via : Subjects \cup {NoOne},
               created : Nat, expires : Nat]
Context    == [user : Users \cup {0}, session : SessionIds \cup {0}, via : Subjects \cup {NoOne},
               right : BOOLEAN, row : Account, failed : Brake,
               change : Limited \cup Changes \cup {"none"}]

NoBrake   == [fails |-> 0, last |-> "never", lock |-> "never"]
NoSession == [state |-> "none", user |-> 0, via |-> NoOne, created |-> 0, expires |-> 0]
Nobody    == [state |-> "none", admin |-> FALSE, password |-> FALSE, subject |-> NoOne,
              linked |-> FALSE, email |-> CHOOSE e \in Emails : TRUE]
Blank     == [user |-> 0, session |-> 0, via |-> NoOne, right |-> FALSE, row |-> Nobody,
              failed |-> NoBrake, change |-> "none"]

Stages  == {"idle", "expire", "install", "verify", "session", "use", "act", "token",
            "write", "known", "provision"} \cup Limited

TypeOK ==
  /\ account \in [Users -> Account] /\ brake \in [Users -> Brake]
  /\ session \in [SessionIds -> Session] /\ tokens \in [Users -> Nat]
  /\ provider \in {"enabled", "absent"} /\ setupLock \in Procs \cup {NoOne}
  /\ counter \in Nat /\ ttl \in BOOLEAN
  /\ pc \in [Procs -> Stages] /\ ctx \in [Procs -> Context]
  /\ clock \in 0..MaxDays /\ started \in 0..MaxRequests /\ faults \in 0..MaxFaults
  /\ setups \in Nat /\ tries \in [Users -> Nat] /\ raced \subseteq Users /\ contested \in BOOLEAN

\* A fresh installation, or one with a local administrator who has signed in.
Root(e) == [Nobody EXCEPT !.state = "active", !.admin = TRUE, !.password = TRUE, !.email = e]

Init ==
  /\ \E installed \in BOOLEAN, e \in Emails :
       /\ account = [u \in Users |-> IF installed /\ u = 1 THEN Root(e) ELSE Nobody]
       /\ session = [s \in SessionIds |-> IF installed /\ s = 1
                                          THEN [NoSession EXCEPT !.state = "live", !.user = 1, !.expires = Window]
                                          ELSE NoSession]
       /\ setups = IF installed THEN 1 ELSE 0
       /\ provider = IF installed THEN "enabled" ELSE "absent"
  /\ brake = [u \in Users |-> NoBrake] /\ tokens = [u \in Users |-> 0]
  /\ setupLock = NoOne /\ counter = 0 /\ ttl = FALSE
  /\ pc = [p \in Procs |-> "idle"] /\ ctx = [p \in Procs |-> Blank]
  /\ clock = 0 /\ started = 0 /\ faults = 0
  /\ tries = [u \in Users |-> 0] /\ raced = {} /\ contested = FALSE

-----------------------------------------------------------------------------
(* Helpers                                                                 *)

Existing  == {u \in Users : account[u].state \in {"active", "inactive"}}
Free      == {u \in Users : account[u].state = "none"}
FreshUser == CHOOSE u \in Free : TRUE
Unused    == {s \in SessionIds : session[s].state = "none"}
Smaller(a, b) == IF a < b THEN a ELSE b

Fault(kind) == kind \in Faults /\ faults < MaxFaults /\ faults' = faults + 1
Goto(p, at) == pc' = [pc EXCEPT ![p] = at]
Done(p)     == Goto(p, "idle") /\ ctx' = [ctx EXCEPT ![p] = Blank]
Quiet       == \A p \in Procs : pc[p] = "idle"

\* The unique index on lower(email) (migration and User.__table_args__), and the
\* lookups before a write.  Mutant: there is neither.
EmailTaken_Never(e, u) == FALSE
EmailTaken(e, u) == \E o \in Existing \ {u} : account[o].email = e

-----------------------------------------------------------------------------
(* enforce_rate_limit                                                      *)

Begin == started < MaxRequests /\ started' = started + 1

\* INCR; the first request of a window goes on to EXPIRE.  An error of Redis
\* admits the request.
CountRequest(p, kind) ==
  /\ pc[p] = "idle" /\ kind \in Limited /\ Begin
  /\ \/ /\ counter' = counter + 1 /\ UNCHANGED faults
        /\ IF counter = 0 THEN Goto(p, "expire") /\ ctx' = [ctx EXCEPT ![p].change = kind]
           ELSE Goto(p, IF counter + 1 > RateLimit THEN "idle" ELSE kind) /\ UNCHANGED ctx
     \/ Fault("redis") /\ Goto(p, kind) /\ UNCHANGED <<counter, ctx>>
  /\ UNCHANGED <<data, setupLock, ttl, clock, history>>

\* Mutant: the expiry is set by the second request of a window only.
Expiring_Second(c) == c = 2
Expiring(c) == c >= 1

SetExpiry(p) ==
  /\ pc[p] = "expire"
  /\ \/ ttl' = Expiring(counter) /\ UNCHANGED faults
     \/ Fault("redis") /\ UNCHANGED ttl
  /\ Goto(p, ctx[p].change) /\ ctx' = [ctx EXCEPT ![p] = Blank]
  /\ UNCHANGED <<data, setupLock, counter, clock, started, history>>

-----------------------------------------------------------------------------
(* setup                                                                   *)

\* pg_advisory_xact_lock waits for the transaction that holds the lock.
\* Mutant: it does not.
LockFree_Always == TRUE
LockFree == setupLock = NoOne

TakeSetupLock(p) ==
  /\ pc[p] = "setup" /\ LockFree
  /\ IF Existing = {} /\ Free # {} THEN setupLock' = p /\ Goto(p, "install") ELSE Goto(p, "idle") /\ UNCHANGED setupLock
  /\ UNCHANGED <<data, limiter, ctx, clock, bounds, history>>

\* A unique index may still refuse the row: then the request fails.
InstallAdmin(p) ==
  /\ pc[p] = "install"
  /\ \E e \in Emails :
       IF EmailTaken(e, 0) \/ Free = {} THEN Done(p) /\ UNCHANGED <<account, setups>>
       ELSE /\ account' = [account EXCEPT ![FreshUser] = Root(e)] /\ setups' = setups + 1
            /\ Goto(p, "session") /\ ctx' = [ctx EXCEPT ![p].user = FreshUser]
  /\ setupLock' = NoOne
  /\ UNCHANGED <<brake, session, tokens, provider, limiter, clock, bounds, tries, raced, contested>>

\* _create_session: without the user the foreign key refuses the row.
NewSession(u, via) ==
  session' = IF u \in Existing /\ Unused # {}
             THEN [session EXCEPT ![CHOOSE s \in Unused : TRUE] =
                     [state |-> "live", user |-> u, via |-> via, created |-> clock, expires |-> clock + Window]]
             ELSE session

CreateSession(p) ==
  /\ pc[p] = "session"
  /\ NewSession(ctx[p].user, ctx[p].via)
  /\ Done(p)
  /\ UNCHANGED <<account, brake, tokens, provider, setupLock, limiter, clock, bounds, history>>

-----------------------------------------------------------------------------
(* login                                                                   *)

\* The row is read, then bcrypt takes its time, then the row that was read decides.
ReadLogin(p) ==
  /\ pc[p] = "login"
  /\ \E u \in Existing, right \in BOOLEAN :
       /\ right => account[u].password
       /\ ctx' = [ctx EXCEPT ![p] = [Blank EXCEPT !.user = u, !.right = right, !.row = account[u], !.failed = brake[u]]]
       /\ raced' = IF \E q \in Procs \ {p} : pc[q] = "verify" /\ ctx[q].user = u THEN raced \cup {u} ELSE raced
  /\ Goto(p, "verify")
  /\ UNCHANGED <<data, setupLock, limiter, clock, bounds, setups, tries, contested>>

\* The streak starts again when the last failure is older than the window.
\* Mutant: it never does.
Streak_Endless(b) == b.fails + 1
Streak(b) == IF b.last = "recent" THEN b.fails + 1 ELSE 1

\* _register_failed_login: from the row that was read; the UPDATE names the
\* columns that changed.
Registered(b, now) ==
  LET locks == Streak(b) >= MaxFailed
      count == IF locks THEN 0 ELSE Streak(b)
  IN [fails |-> IF count = b.fails THEN now.fails ELSE count,
      last  |-> "recent",
      lock  |-> IF locks THEN "on" ELSE now.lock]

\* _clear_failed_logins, in the same way.
Cleared(b, now) ==
  [fails |-> IF b.fails = 0 THEN now.fails ELSE 0,
   last  |-> IF b.last = "never" THEN now.last ELSE "never",
   lock  |-> IF b.lock = "never" THEN now.lock ELSE "never"]

Refused(c)  == c.row.state # "active" \/ ~c.right \/ c.failed.lock = "on"

Verify(p) ==
  LET c == ctx[p]
      u == c.user
  IN
  /\ pc[p] = "verify"
  /\ IF u \notin Existing THEN Done(p) /\ UNCHANGED <<brake, tries>>
     ELSE IF Refused(c) /\ c.failed.lock = "on" THEN Done(p) /\ UNCHANGED <<brake, tries>>
     ELSE IF Refused(c)
     THEN /\ brake' = [brake EXCEPT ![u] = Registered(c.failed, @)]
          /\ tries' = [tries EXCEPT ![u] = IF @ + 1 >= MaxFailed THEN 0 ELSE @ + 1]
          /\ Done(p)
     ELSE /\ brake' = [brake EXCEPT ![u] = Cleared(c.failed, @)]
          /\ tries' = [tries EXCEPT ![u] = 0]
          /\ Goto(p, "session") /\ ctx' = [ctx EXCEPT ![p] = [Blank EXCEPT !.user = u]]
  /\ UNCHANGED <<account, session, tokens, provider, setupLock, limiter, clock, bounds, setups, raced, contested>>

-----------------------------------------------------------------------------
(* get_current_user, sessions and tokens                                   *)

Usable(s)  == session[s].expires > clock /\ account[session[s].user].state = "active"

\* The next expiry of a session that is used.  Mutant: without the absolute cap.
Renewed_Sliding(s) == clock + Window
Renewed(s) == Smaller(clock + Window, session[s].created + Cap)

\* A cookie: an expired session, or that of an inactive user, is deleted.
ReadSession(p) ==
  /\ pc[p] = "idle" /\ Begin
  /\ \E s \in SessionIds :
       /\ session[s].state = "live"
       /\ IF Usable(s)
          THEN /\ Goto(p, "use") /\ UNCHANGED session
               /\ ctx' = [ctx EXCEPT ![p] = [Blank EXCEPT !.user = session[s].user, !.session = s,
                                                          !.row = account[session[s].user]]]
          ELSE session' = [session EXCEPT ![s].state = "gone"] /\ UNCHANGED <<pc, ctx>>
  /\ UNCHANGED <<account, brake, tokens, provider, setupLock, limiter, clock, faults, history>>

\* The UPDATE of a row that has gone changes nothing, and fails the request.
\* Mutant: the row is written back.
Touched_Upsert(s) == [session EXCEPT ![s].expires = Renewed(s), ![s].state = "live"]
Touched(s) == IF session[s].state = "live" THEN [session EXCEPT ![s].expires = Renewed(s)] ELSE session

\* At most once an hour, which in days is every time.
TouchSession(p) ==
  LET s == ctx[p].session
  IN
  /\ pc[p] = "use"
  /\ session' = Touched(s)
  /\ IF session[s].state = "live" THEN Goto(p, "act") /\ UNCHANGED ctx ELSE Done(p)
  /\ UNCHANGED <<account, brake, tokens, provider, setupLock, limiter, clock, bounds, history>>

\* A bearer token; it cannot manage sessions or tokens.
UseToken(p) ==
  /\ pc[p] = "idle" /\ Begin
  /\ \E u \in Users :
       /\ tokens[u] > 0 /\ account[u].state = "active"
       /\ ctx' = [ctx EXCEPT ![p] = [Blank EXCEPT !.user = u, !.row = account[u]]]
  /\ Goto(p, "act")
  /\ UNCHANGED <<data, setupLock, limiter, clock, faults, history>>

Logout(p) ==
  /\ pc[p] = "act" /\ ctx[p].session # 0
  /\ session' = [session EXCEPT ![ctx[p].session].state = "gone"]
  /\ Done(p)
  /\ UNCHANGED <<account, brake, tokens, provider, setupLock, limiter, clock, bounds, history>>

\* Mutant: the limit is not looked at.
BelowTokenCap_Always(u) == TRUE
BelowTokenCap(u) == tokens[u] < TokenCap

CountTokens(p) ==
  /\ pc[p] = "act" /\ ctx[p].session # 0
  /\ IF BelowTokenCap(ctx[p].user) THEN Goto(p, "token") /\ UNCHANGED ctx ELSE Done(p)
  /\ UNCHANGED <<data, setupLock, limiter, clock, bounds, history>>

CreateToken(p) ==
  /\ pc[p] = "token"
  /\ tokens' = IF ctx[p].user \in Existing THEN [tokens EXCEPT ![ctx[p].user] = @ + 1] ELSE tokens
  /\ Done(p)
  /\ UNCHANGED <<account, brake, session, provider, setupLock, limiter, clock, bounds, history>>

\* A token is deleted by its owner, once.
TokenThere(u) == tokens[u] > 0

DeleteToken(p) ==
  /\ pc[p] = "act" /\ ctx[p].session # 0 /\ TokenThere(ctx[p].user)
  /\ tokens' = [tokens EXCEPT ![ctx[p].user] = @ - 1]
  /\ Done(p)
  /\ UNCHANGED <<account, brake, session, provider, setupLock, limiter, clock, bounds, history>>

-----------------------------------------------------------------------------
(* oidc_callback                                                           *)

Identified(x) == {u \in Existing : account[u].linked /\ account[u].subject = x}

\* The account of the provider's subject; its e-mail follows the provider's
\* unless somebody else has that address.
ReadIdentity(p) ==
  /\ pc[p] = "oidc"
  /\ \E x \in Subjects, e \in Emails :
       IF provider # "enabled" THEN Done(p)
       ELSE IF Identified(x) = {}
       THEN Goto(p, "provision") /\ ctx' = [ctx EXCEPT ![p] = [Blank EXCEPT !.via = x, !.row.email = e]]
       ELSE LET u == CHOOSE u \in Identified(x) : TRUE
            IN IF account[u].state = "inactive" THEN Done(p)
               ELSE /\ Goto(p, "known")
                    /\ ctx' = [ctx EXCEPT ![p] = [Blank EXCEPT !.via = x, !.user = u,
                                 !.row.email = IF EmailTaken(e, u) THEN account[u].email ELSE e]]
  /\ UNCHANGED <<data, setupLock, limiter, clock, bounds, history>>

\* One commit for the e-mail and the session; a conflict by now fails it.
SignInKnown(p) ==
  LET u == ctx[p].user
  IN
  /\ pc[p] = "known"
  /\ IF u \in Existing /\ ~(account[u].email # ctx[p].row.email /\ EmailTaken(ctx[p].row.email, u))
     THEN account' = [account EXCEPT ![u].email = ctx[p].row.email] /\ NewSession(u, ctx[p].via)
     ELSE UNCHANGED <<account, session>>
  /\ Done(p)
  /\ UNCHANGED <<brake, tokens, provider, setupLock, limiter, clock, bounds, history>>

\* After a conflict: the account that won the race for the same subject.
\* Mutant: the one that has the e-mail address.
Winner_ByEmail(x, e) == {u \in Existing : account[u].email = e}
Winner(x, e) == Identified(x)

ProvisionUser(p) ==
  LET x == ctx[p].via
      e == ctx[p].row.email
  IN
  /\ pc[p] = "provision"
  /\ IF Identified(x) # {} \/ EmailTaken(e, 0) \/ Free = {}
     THEN /\ UNCHANGED account
          /\ IF \E u \in Winner(x, e) : account[u].state = "active"
             THEN Goto(p, "session")
                  /\ ctx' = [ctx EXCEPT ![p].user = CHOOSE u \in Winner(x, e) : TRUE]
             ELSE Done(p)
     ELSE /\ account' = [account EXCEPT ![FreshUser] =
                          [Nobody EXCEPT !.state = "active", !.subject = x, !.linked = TRUE, !.email = e]]
          /\ Goto(p, "session") /\ ctx' = [ctx EXCEPT ![p].user = FreshUser]
  /\ UNCHANGED <<brake, session, tokens, provider, setupLock, limiter, clock, bounds, history>>

-----------------------------------------------------------------------------
(* Administration                                                          *)

ActsAsAdmin(p) == pc[p] = "act" /\ ctx[p].row.admin

CreateUser(p) ==
  /\ ActsAsAdmin(p)
  /\ \E e \in Emails, admin, password \in BOOLEAN :
       account' = IF EmailTaken(e, 0) \/ Free = {} THEN account
                  ELSE [account EXCEPT ![FreshUser] = [Nobody EXCEPT !.state = "active", !.admin = admin,
                                                                  !.password = password, !.email = e]]
  /\ Done(p)
  /\ UNCHANGED <<brake, session, tokens, provider, setupLock, limiter, clock, bounds, history>>

\* Mutant: the target counts as well.
OtherAdmins_All(u) == {o \in Existing : account[o].admin /\ account[o].state = "active"}
OtherAdmins(u) == {o \in Existing \ {u} : account[o].admin /\ account[o].state = "active"}

Weakens   == {"demote", "deactivate", "delete"}
Acting(p) == {q \in Procs \ {p} : pc[q] = "write"}

\* admin_update_user and admin_delete_user read the user, count the others ...
ReadTarget(p) ==
  /\ ActsAsAdmin(p)
  /\ \E u \in Existing, change \in Changes :
       IF change \in Weakens /\ account[u].admin /\ account[u].state = "active" /\ OtherAdmins(u) = {}
       THEN Done(p) /\ UNCHANGED contested
       ELSE /\ Goto(p, "write")
            /\ ctx' = [ctx EXCEPT ![p] = [Blank EXCEPT !.user = u, !.change = change]]
            /\ contested' = (contested \/ Acting(p) # {})
  /\ UNCHANGED <<data, setupLock, limiter, clock, bounds, setups, tries, raced>>

Changed(a, change) ==
  CASE change = "promote"    -> [a EXCEPT !.admin = TRUE]
    [] change = "demote"     -> [a EXCEPT !.admin = FALSE]
    [] change = "activate"   -> [a EXCEPT !.state = "active"]
    [] change = "deactivate" -> [a EXCEPT !.state = "inactive"]
    [] change = "password"   -> [a EXCEPT !.password = TRUE]
    [] OTHER                 -> [Nobody EXCEPT !.state = "deleted"]

\* ... and write.  Sessions and tokens go with their user.
WriteTarget(p) ==
  LET u    == ctx[p].user
      gone == ctx[p].change = "delete"
  IN
  /\ pc[p] = "write"
  /\ IF u \in Existing
     THEN /\ account' = [account EXCEPT ![u] = Changed(@, ctx[p].change)]
          /\ brake'   = [brake EXCEPT ![u] = IF gone THEN NoBrake ELSE @]
          /\ tries'   = [tries EXCEPT ![u] = IF gone THEN 0 ELSE @]
          /\ tokens'  = [tokens EXCEPT ![u] = IF gone THEN 0 ELSE @]
          /\ session' = [s \in SessionIds |-> IF gone /\ session[s].state = "live" /\ session[s].user = u
                                              THEN [session[s] EXCEPT !.state = "gone"] ELSE session[s]]
     ELSE UNCHANGED <<account, brake, session, tokens, tries>>
  /\ Done(p)
  /\ UNCHANGED <<provider, setupLock, limiter, clock, bounds, setups, raced, contested>>

\* The users of a provider that is deleted keep their subject, not the link.
ChangeProvider(p) ==
  /\ ActsAsAdmin(p)
  /\ provider' = IF provider = "enabled" THEN "absent" ELSE "enabled"
  /\ account' = [u \in Users |-> [account[u] EXCEPT !.linked = @ /\ provider # "enabled"]]
  /\ Done(p)
  /\ UNCHANGED <<brake, session, tokens, setupLock, limiter, clock, bounds, history>>

-----------------------------------------------------------------------------
(* Time and faults                                                         *)

MinutePasses ==
  /\ counter > 0 /\ ttl
  /\ counter' = 0 /\ ttl' = FALSE
  /\ UNCHANGED <<data, setupLock, pc, ctx, clock, bounds, history>>

Later(b) == [b EXCEPT !.last = IF @ = "recent" THEN "old" ELSE @, !.lock = IF @ = "on" THEN "over" ELSE @]

\* Longer than _LOGIN_FAILURE_WINDOW and _LOGIN_LOCKOUT_DURATION.
QuarterPasses ==
  /\ Quiet /\ \E u \in Users : Later(brake[u]) # brake[u]
  /\ brake' = [u \in Users |-> Later(brake[u])]
  /\ tries' = [u \in Users |-> 0]
  /\ UNCHANGED <<account, session, tokens, provider, setupLock, limiter, pc, ctx, clock, bounds, setups, raced, contested>>

DayPasses ==
  /\ Quiet /\ clock < MaxDays /\ \A u \in Users : Later(brake[u]) = brake[u]
  /\ clock' = clock + 1
  /\ UNCHANGED <<data, setupLock, limiter, pc, ctx, bounds, history>>

\* The transaction is rolled back, which also frees the lock.
RequestDies(p) ==
  /\ pc[p] # "idle" /\ Fault("request")
  /\ setupLock' = IF setupLock = p THEN NoOne ELSE setupLock
  /\ Done(p)
  /\ UNCHANGED <<data, limiter, clock, started, history>>

-----------------------------------------------------------------------------
(* The specification                                                       *)

SignIn(p)     == TakeSetupLock(p) \/ InstallAdmin(p) \/ ReadLogin(p) \/ Verify(p) \/ CreateSession(p)
                 \/ ReadIdentity(p) \/ SignInKnown(p) \/ ProvisionUser(p)
Act(p)        == Logout(p) \/ CountTokens(p) \/ CreateToken(p) \/ DeleteToken(p)
Administer(p) == CreateUser(p) \/ ReadTarget(p) \/ WriteTarget(p) \/ ChangeProvider(p)

Next ==
  \/ \E p \in Procs : \/ \E kind \in Limited : CountRequest(p, kind)
                      \/ SetExpiry(p) \/ SignIn(p)
                      \/ ReadSession(p) \/ TouchSession(p) \/ UseToken(p) \/ Act(p) \/ Administer(p)
                      \/ RequestDies(p)
  \/ MinutePasses \/ QuarterPasses \/ DayPasses

Spec == Init /\ [][Next]_vars

\* Requests that were admitted go on; the counter of a client expires.
FairSpec == Spec /\ (\A p \in Procs : WF_vars(SetExpiry(p))) /\ WF_vars(MinutePasses)

-----------------------------------------------------------------------------
(* Properties                                                              *)

\* The set-up makes one administrator, also when several people submit its form
\* at once or a request dies in the middle of it.  (Two administrators who
\* remove each other at once could make room for another.)
OneSetup == setups <= 1 \/ contested

\* From the set-up on there is an active administrator, whatever administrators
\* do to each other and themselves: a request is refused that would remove the
\* last one.  Two requests at once may each count on the other's target.
AdminRemains ==
  setups > 0 /\ ~contested => \E u \in Users : account[u].state = "active" /\ account[u].admin

\* Who may administer: the one who set the system up first, and never nobody
\* (setup, admin_update_user, admin_delete_user).
Administered == OneSetup /\ AdminRemains

\* While the sign-ins of a user do not overlap, the brake counts exactly the
\* failures since the last success, lock or long pause: as many as allowed lock
\* the account, fewer never do, whatever its administrator changes meanwhile.
BrakeIsExact ==
  \A u \in Users \ raced : brake[u].last = "recent" =>
    /\ brake[u].fails = tries[u]
    /\ tries[u] = 0 => brake[u].lock = "on"

\* Nobody acts on a session that was not renewed for Window days, or is older
\* than Cap, however often it was used.
SessionsEnd ==
  \A p \in Procs : pc[p] \in {"use", "act"} /\ ctx[p].session # 0 =>
    LET s == session[ctx[p].session]
    IN clock < s.created + Cap /\ clock < s.expires

\* A session that has ended, by logout, expiry or with its user, stays ended,
\* also next to requests that still use it.
StaysEnded == \A s \in SessionIds : session[s].state = "gone" => session'[s].state = "gone"

\* A session ends in time and for good (get_current_user, logout).
SessionsEndForGood == [][SessionsEnd' /\ StaysEnded]_vars

\* A person who signs in through the provider gets the account made for them:
\* an equal e-mail address never leads to somebody else's, also when two first
\* sign-ins race or the address was taken meanwhile.
OwnAccountOnly ==
  \A s \in SessionIds : session[s].state = "live" /\ session[s].via # NoOne =>
    account[session[s].user].subject = session[s].via

\* Two accounts never share an address, though it is checked before it is
\* written, by administrators and by sign-ins through the provider.
EmailsUnique == \A u, o \in Existing : u # o => account[u].email # account[o].email

\* Nobody gets into an account by the address or the subject of another person
\* (oidc_callback).
IdentitiesKeptApart == OwnAccountOnly /\ EmailsUnique

\* The limit on API tokens is checked before the row is inserted; requests at
\* once exceed it by no more than their number.
TokensBounded == \A u \in Users : tokens[u] < TokenCap + Cardinality(Procs)

\* What is counted on a user's row or rows, in steps another request can come
\* between: failed sign-ins and tokens.
LimitsAreKept == BrakeIsExact /\ TokensBounded

\* A client that was refused is admitted again a minute later, unless Redis or
\* the process failed between the two commands.
LimitLifts == counter > RateLimit ~> counter = 0 \/ faults > 0

\* The class comment promises to "fail open rather than 500ing every request
\* during a Redis blip"; one between the two commands leaves a counter that
\* never expires.
AlwaysLifts == counter > RateLimit ~> counter = 0
=============================================================================
