----------------------------- MODULE SafeFetch ------------------------------
(***************************************************************************)
(* safe_fetch: a request that follows redirects itself, checks the         *)
(* addresses of each hop and drops the caller's credentials when it leaves *)
(* the caller's origin (src/backend/app/services/safe_fetch.py).           *)
(*                                                                         *)
(* A URL is its scheme, host and effective port; an address is the class   *)
(* the code sorts it into; DNS and the servers answer what they like.      *)
(***************************************************************************)
EXTENDS Naturals, Sequences

CONSTANTS Urls,          \* [scheme, host, port]: first URLs and redirect targets
          Allowlist,     \* [host, port], port 0 for an entry without one
          Answers,       \* what DNS may return: sequences of AddressClasses
          Statuses,      \* HTTP status codes the servers use
          MaxRedirects   \* max_redirects

VARIABLES origin,                          \* of the URL the caller gave
          url, method, body, credentials,  \* of the next request
          requests,                        \* the requests made, oldest first
          outcome                          \* going, answered, refused, failed or exhausted
vars == <<origin, url, method, body, credentials, requests, outcome>>

ASSUME MaxRedirectsNat == MaxRedirects \in Nat
ASSUME UrlsAreUrls == Urls \subseteq [scheme : STRING, host : STRING, port : Nat]

\* What _is_metadata_ip and _is_blocked_ip tell apart.
AddressClasses == {"public", "private", "metadata"}

ASSUME AnswersAreClasses == Answers \subseteq Seq(AddressClasses)

Redirects == {301, 302, 303, 307, 308}

\* _strips_credentials: all but the origin and its upgrade on default ports.
StripsCredentials(from, to) ==
  \/ from.host # to.host
  \/ /\ <<from.scheme, from.port>> # <<to.scheme, to.port>>
     /\ <<from.scheme, from.port, to.scheme, to.port>> # <<"http", 80, "https", 443>>

\* _matches_private_host_allowlist, for the hop at hand.
Allowlisted(to) == \E entry \in Allowlist : entry.host = to.host /\ entry.port \in {0, to.port}

\* resolve_and_pin: every address of the answer must pass.
\* Mutant: only the one that is connected to is looked at.
Passes_First(to, addresses) ==
  addresses # <<>> /\ addresses[1] # "metadata" /\ (addresses[1] = "private" => Allowlisted(to))
Passes(to, addresses) ==
  /\ addresses # <<>>
  /\ \A i \in DOMAIN addresses : /\ addresses[i] # "metadata"
                                 /\ addresses[i] = "private" => Allowlisted(to)

\* What the request after a redirect carries.  Mutants: a 303 changes
\* the method and keeps the body; what a hop strips comes back at home.
NextMethod(status) == IF status = 303 THEN "GET" ELSE method
NextBody_Kept(status) == body
NextBody(status) == body /\ status # 303
NextCredentials_Back(location) == ~StripsCredentials(origin, location)
NextCredentials(location) == credentials /\ ~StripsCredentials(origin, location)

Init ==
  /\ url \in Urls
  /\ origin = url
  /\ method \in {"GET", "POST"}
  /\ body = (method = "POST")
  /\ credentials = TRUE
  /\ requests = <<>>
  /\ outcome = "going"

\* _single_request up to the connection: a scheme or an address that may not be.
Refuse ==
  /\ outcome = "going"
  /\ Len(requests) <= MaxRedirects
  /\ \/ url.scheme \notin {"http", "https"}
     \/ \E addresses \in Answers : ~Passes(url, addresses)
  /\ outcome' = "refused"
  /\ UNCHANGED <<origin, url, method, body, credentials, requests>>

\* _single_request connects to the pinned address and sends.
Send(addresses) ==
  /\ outcome = "going"
  /\ Len(requests) <= MaxRedirects
  /\ url.scheme \in {"http", "https"}
  /\ Passes(url, addresses)
  /\ requests' = Append(requests, [url |-> url, addresses |-> addresses, method |-> method,
                                   body |-> body, credentials |-> credentials])

\* The answer is final: not a redirect, or one without a location.
Answer(addresses) ==
  /\ Send(addresses)
  /\ outcome' = "answered"
  /\ UNCHANGED <<origin, url, method, body, credentials>>

\* The connection breaks, or the body is over its cap.
Break(addresses) ==
  /\ Send(addresses)
  /\ outcome' = "failed"
  /\ UNCHANGED <<origin, url, method, body, credentials>>

Redirect(addresses, status, location) ==
  /\ Send(addresses)
  /\ status \in Redirects
  /\ url' = location
  /\ method' = NextMethod(status)
  /\ body' = NextBody(status)
  /\ credentials' = NextCredentials(location)
  /\ UNCHANGED <<origin, outcome>>

GiveUp ==
  /\ outcome = "going"
  /\ Len(requests) > MaxRedirects
  /\ outcome' = "exhausted"
  /\ UNCHANGED <<origin, url, method, body, credentials, requests>>

Next ==
  \/ Refuse
  \/ GiveUp
  \/ \E addresses \in Answers :
       \/ Answer(addresses)
       \/ Break(addresses)
       \/ \E status \in Statuses, location \in Urls : Redirect(addresses, status, location)

Spec == Init /\ [][Next]_vars

-----------------------------------------------------------------------------
Request == [url : Urls, addresses : Answers, method : {"GET", "POST"}, body : BOOLEAN, credentials : BOOLEAN]

FetchTypeOK ==
  /\ url \in Urls
  /\ origin \in Urls
  /\ method \in {"GET", "POST"}
  /\ body \in BOOLEAN
  /\ credentials \in BOOLEAN
  /\ requests \in Seq(Request)
  /\ outcome \in {"going", "answered", "refused", "failed", "exhausted"}

\* The places a credential may be shown: its origin, or the origin's upgrade.
SameHome(home, there) ==
  \/ there = home
  \/ /\ home.scheme = "http" /\ home.port = 80
     /\ there.scheme = "https" /\ there.port = 443
     /\ there.host = home.host

\* A request that carries the caller's credentials goes to the caller's origin or
\* its https upgrade, and so did every request before it: what one foreign hop
\* strips never comes back, not even when the chain returns home
\* (safe_fetch.py:353-358, 376-382).
CredentialsStayHome ==
  \A i \in DOMAIN requests : requests[i].credentials =>
    \A j \in 1..i : requests[j].credentials /\ SameHome(origin, requests[j].url)

\* No connection is made on an answer that has a metadata address anywhere in
\* it, nor on one with a private address unless this hop's own host and port are
\* on the list: a redirect inherits no exemption (safe_fetch.py:286-288, 220-238).
AddressesChecked ==
  \A i \in DOMAIN requests : \A k \in DOMAIN requests[i].addresses :
    /\ requests[i].addresses[k] # "metadata"
    /\ requests[i].addresses[k] = "private" => Allowlisted(requests[i].url)

\* A body goes out only with the method it was given for, once dropped it stays
\* dropped, and a chain has at most MaxRedirects + 1 requests (safe_fetch.py:361-394).
BodyFollowsMethod ==
  /\ Len(requests) <= MaxRedirects + 1
  /\ \A i \in DOMAIN requests : requests[i].body =>
       \A j \in 1..i : requests[j].body /\ requests[j].method = "POST"

\* What a chain of redirects can never make safe_fetch do, wherever it leads.
ChainIsSafe == CredentialsStayHome /\ AddressesChecked /\ BodyFollowsMethod
=============================================================================
