-------------------------- MODULE AlgorithmProofs ---------------------------
(***************************************************************************)
(* What safe_fetch guarantees for any caller, any redirects, any answers   *)
(* of DNS and any number of hops, and what the stateless algorithms        *)
(* compute for every input of the assumed types, whatever its size.  The   *)
(* invariants of safe_fetch's requests are not inductive: what the next    *)
(* request will carry has to agree with what the earlier ones carried.  A  *)
(* recursive function is known by induction over the numbers below its     *)
(* argument, each a set of numbers that holds 0 and with n also n + 1.     *)
(***************************************************************************)
EXTENDS Algorithms, FiniteSetTheorems, SequenceTheorems, TLAPS

\* The next request has credentials only if no hop ever left home, its own included.
NextIsHome ==
  credentials => /\ SameHome(origin, url)
                 /\ \A j \in DOMAIN requests : requests[j].credentials /\ SameHome(origin, requests[j].url)

\* The next request has a body only if every one had it.
NextHasBody ==
  body => /\ method = "POST"
          /\ \A j \in DOMAIN requests : requests[j].body /\ requests[j].method = "POST"

FetchInv ==
  /\ FetchTypeOK
  /\ CredentialsStayHome
  /\ AddressesChecked
  /\ BodyFollowsMethod
  /\ NextIsHome
  /\ NextHasBody

-----------------------------------------------------------------------------
\* What _strips_credentials keeps is home: the credentials' rule of a single hop.
LEMMA KeptIsHome ==
  ASSUME NEW from, NEW to,
         from \in [scheme : STRING, host : STRING, port : Nat],
         to \in [scheme : STRING, host : STRING, port : Nat],
         ~StripsCredentials(from, to)
  PROVE  SameHome(from, to)
<1>1. from.host = to.host
  BY DEF StripsCredentials
<1>2. CASE <<from.scheme, from.port>> = <<to.scheme, to.port>>
  <2>1. from.scheme = to.scheme /\ from.port = to.port
    BY <1>2
  <2>2. to = from
    BY <1>1, <2>1
  <2> QED
    BY <2>2 DEF SameHome
<1>3. CASE <<from.scheme, from.port, to.scheme, to.port>> = <<"http", 80, "https", 443>>
  <2>1. from.scheme = "http" /\ from.port = 80 /\ to.scheme = "https" /\ to.port = 443
    BY <1>3
  <2> QED
    BY <1>1, <2>1 DEF SameHome
<1> QED
  BY <1>2, <1>3 DEF StripsCredentials

\* One request more: what holds of every request holds of the longer sequence
\* if it holds of the new one.
LEMMA SentRequest ==
  ASSUME FetchInv, NEW addresses \in Answers, Send(addresses)
  PROVE  LET new == [url |-> url, addresses |-> addresses, method |-> method,
                     body |-> body, credentials |-> credentials]
         IN /\ new \in Request
            /\ requests' = Append(requests, new)
            /\ requests' \in Seq(Request)
            /\ Len(requests') = Len(requests) + 1
            /\ DOMAIN requests' = 1..(Len(requests) + 1)
            /\ DOMAIN requests = 1..Len(requests)
            /\ \A i \in 1..Len(requests) : requests'[i] = requests[i]
            /\ requests'[Len(requests) + 1] = new
            /\ Len(requests) \in Nat
            /\ Len(requests) <= MaxRedirects
BY MaxRedirectsNat DEF FetchInv, FetchTypeOK, Send, Request

LEMMA InitInv == Init => FetchInv
<1> SUFFICES ASSUME Init PROVE FetchInv
  OBVIOUS
<1>1. requests = <<>> /\ requests \in Seq(Request) /\ Len(requests) = 0 /\ DOMAIN requests = {}
  BY DEF Init
<1>2. FetchTypeOK
  BY <1>1 DEF Init, FetchTypeOK
<1>3. CredentialsStayHome /\ AddressesChecked /\ BodyFollowsMethod
  BY <1>1, MaxRedirectsNat DEF CredentialsStayHome, AddressesChecked, BodyFollowsMethod
<1>4. NextIsHome /\ NextHasBody
  BY <1>1 DEF Init, NextIsHome, NextHasBody, SameHome
<1> QED
  BY <1>2, <1>3, <1>4 DEF FetchInv

\* A request was sent and nothing that the next one carries has changed for the
\* better: the invariants of the requests made hold of the longer sequence.
LEMMA SentInv ==
  ASSUME FetchInv, NEW addresses \in Answers, Send(addresses), origin' = origin
  PROVE  /\ CredentialsStayHome'
         /\ AddressesChecked'
         /\ BodyFollowsMethod'
         /\ credentials => \A j \in DOMAIN requests' :
                              requests'[j].credentials /\ SameHome(origin, requests'[j].url)
         /\ body => \A j \in DOMAIN requests' : requests'[j].body /\ requests'[j].method = "POST"
<1> DEFINE last == Len(requests) + 1
<1> DEFINE new == [url |-> url, addresses |-> addresses, method |-> method,
                   body |-> body, credentials |-> credentials]
<1>1. /\ DOMAIN requests' = 1..last
      /\ DOMAIN requests = 1..Len(requests)
      /\ \A i \in 1..Len(requests) : requests'[i] = requests[i]
      /\ requests'[last] = new
      /\ Len(requests') = last
      /\ Len(requests) \in Nat
      /\ Len(requests) <= MaxRedirects
  BY SentRequest
<1> HIDE DEF new
<1>2. new.url = url /\ new.addresses = addresses /\ new.method = method
      /\ new.body = body /\ new.credentials = credentials
  BY DEF new
<1>3. CredentialsStayHome'
  <2> SUFFICES ASSUME NEW i \in 1..last, requests'[i].credentials, NEW j \in 1..i
               PROVE  requests'[j].credentials /\ SameHome(origin, requests'[j].url)
    BY <1>1 DEF CredentialsStayHome, SameHome
  <2>1. CASE i \in 1..Len(requests)
    BY <1>1, <2>1 DEF FetchInv, CredentialsStayHome
  <2>2. CASE i = last
    <3>1. credentials
      BY <1>1, <1>2, <2>2
    <3>2. CASE j \in 1..Len(requests)
      BY <1>1, <3>1, <3>2 DEF FetchInv, NextIsHome
    <3>3. CASE j = last
      BY <1>1, <1>2, <3>1, <3>3 DEF FetchInv, NextIsHome
    <3> QED
      BY <1>1, <2>2, <3>2, <3>3
  <2> QED
    BY <1>1, <2>1, <2>2
<1>4. AddressesChecked'
  <2> SUFFICES ASSUME NEW i \in 1..last, NEW k \in DOMAIN requests'[i].addresses
               PROVE  /\ requests'[i].addresses[k] # "metadata"
                      /\ requests'[i].addresses[k] = "private" => Allowlisted(requests'[i].url)
    BY <1>1 DEF AddressesChecked, Allowlisted
  <2>1. CASE i \in 1..Len(requests)
    BY <1>1, <2>1 DEF FetchInv, AddressesChecked
  <2>2. CASE i = last
    BY <1>1, <1>2, <2>2 DEF Send, Passes
  <2> QED
    BY <1>1, <2>1, <2>2
<1>5. BodyFollowsMethod'
  <2>1. Len(requests') <= MaxRedirects + 1
    BY <1>1, MaxRedirectsNat
  <2>2. ASSUME NEW i \in 1..last, requests'[i].body, NEW j \in 1..i
        PROVE  requests'[j].body /\ requests'[j].method = "POST"
    <3>1. CASE i \in 1..Len(requests)
      BY <1>1, <2>2, <3>1 DEF FetchInv, BodyFollowsMethod
    <3>2. CASE i = last
      <4>1. body
        BY <1>1, <1>2, <2>2, <3>2
      <4>2. CASE j \in 1..Len(requests)
        BY <1>1, <4>1, <4>2 DEF FetchInv, NextHasBody
      <4>3. CASE j = last
        BY <1>1, <1>2, <4>1, <4>3 DEF FetchInv, NextHasBody
      <4> QED
        BY <1>1, <2>2, <3>2, <4>2, <4>3
    <3> QED
      BY <1>1, <2>2, <3>1, <3>2
  <2> QED
    BY <1>1, <2>1, <2>2 DEF BodyFollowsMethod
<1>6. ASSUME credentials, NEW j \in 1..last
      PROVE  requests'[j].credentials /\ SameHome(origin, requests'[j].url)
  <2>1. CASE j \in 1..Len(requests)
    BY <1>1, <1>6, <2>1 DEF FetchInv, NextIsHome
  <2>2. CASE j = last
    BY <1>1, <1>2, <1>6, <2>2 DEF FetchInv, NextIsHome
  <2> QED
    BY <1>1, <2>1, <2>2
<1>7. ASSUME body, NEW j \in 1..last
      PROVE  requests'[j].body /\ requests'[j].method = "POST"
  <2>1. CASE j \in 1..Len(requests)
    BY <1>1, <1>7, <2>1 DEF FetchInv, NextHasBody
  <2>2. CASE j = last
    BY <1>1, <1>2, <1>7, <2>2 DEF FetchInv, NextHasBody
  <2> QED
    BY <1>1, <2>1, <2>2
<1> QED
  BY <1>1, <1>3, <1>4, <1>5, <1>6, <1>7

LEMMA NextInv == FetchInv /\ [Next]_vars => FetchInv'
<1> SUFFICES ASSUME FetchInv, [Next]_vars PROVE FetchInv'
  OBVIOUS
<1>1. CASE Refuse \/ GiveUp \/ UNCHANGED vars
  BY <1>1 DEF Refuse, GiveUp, vars, FetchInv, FetchTypeOK, CredentialsStayHome, AddressesChecked,
              BodyFollowsMethod, NextIsHome, NextHasBody, SameHome, Allowlisted
<1>2. ASSUME NEW addresses \in Answers, Answer(addresses) \/ Break(addresses)
      PROVE  FetchInv'
  <2>1. Send(addresses) /\ UNCHANGED <<origin, url, method, body, credentials>>
    BY <1>2 DEF Answer, Break
  <2>2. requests' \in Seq(Request) /\ DOMAIN requests' = 1..(Len(requests) + 1)
    BY <2>1, SentRequest
  <2>3. FetchTypeOK'
    BY <1>2, <2>1, <2>2 DEF FetchInv, FetchTypeOK, Answer, Break
  <2>4. CredentialsStayHome' /\ AddressesChecked' /\ BodyFollowsMethod'
    BY <2>1, SentInv
  <2>5. NextIsHome'
    BY <2>1, SentInv DEF FetchInv, NextIsHome, SameHome
  <2>6. NextHasBody'
    BY <2>1, SentInv DEF FetchInv, NextHasBody
  <2> QED
    BY <2>3, <2>4, <2>5, <2>6 DEF FetchInv
<1>3. ASSUME NEW addresses \in Answers, NEW status \in Statuses, NEW location \in Urls,
             Redirect(addresses, status, location)
      PROVE  FetchInv'
  <2>1. /\ Send(addresses)
        /\ UNCHANGED <<origin, outcome>>
        /\ url' = location
        /\ method' = IF status = 303 THEN "GET" ELSE method
        /\ body' = (body /\ status # 303)
        /\ credentials' = (credentials /\ ~StripsCredentials(origin, location))
    BY <1>3 DEF Redirect, NextMethod, NextBody, NextCredentials
  <2>2. requests' \in Seq(Request) /\ DOMAIN requests' = 1..(Len(requests) + 1)
    BY <2>1, SentRequest
  <2>3. FetchTypeOK'
    BY <2>1, <2>2 DEF FetchInv, FetchTypeOK
  <2>4. CredentialsStayHome' /\ AddressesChecked' /\ BodyFollowsMethod'
    BY <2>1, SentInv
  <2>5. NextIsHome'
    <3> SUFFICES ASSUME credentials'
                 PROVE  /\ SameHome(origin, location)
                        /\ \A j \in DOMAIN requests' :
                             requests'[j].credentials /\ SameHome(origin, requests'[j].url)
      BY <2>1 DEF NextIsHome, SameHome
    <3>1. credentials /\ ~StripsCredentials(origin, location)
      BY <2>1
    <3>2. SameHome(origin, location)
      BY <3>1, KeptIsHome, UrlsAreUrls DEF FetchInv, FetchTypeOK
    <3>3. \A j \in DOMAIN requests' : requests'[j].credentials /\ SameHome(origin, requests'[j].url)
      BY <2>1, <3>1, SentInv
    <3> QED
      BY <3>2, <3>3
  <2>6. NextHasBody'
    BY <2>1, SentInv DEF FetchInv, NextHasBody
  <2> QED
    BY <2>3, <2>4, <2>5, <2>6 DEF FetchInv
<1> QED
  BY <1>1, <1>2, <1>3 DEF Next

-----------------------------------------------------------------------------
LEMMA FetchInvariant == Spec => []FetchInv
BY InitInv, NextInv, PTL DEF Spec

\* Every variable keeps its type, whatever servers and DNS answer.
THEOREM FetchTypes == Spec => []FetchTypeOK
<1>1. FetchInv => FetchTypeOK
  BY DEF FetchInv
<1> QED
  BY FetchInvariant, <1>1, PTL

\* Credentials are shown to the caller's origin and its https upgrade only, and
\* never again after one hop elsewhere, for any chain of redirects.
THEOREM CredentialsAreContained == Spec => []CredentialsStayHome
<1>1. FetchInv => CredentialsStayHome
  BY DEF FetchInv
<1> QED
  BY FetchInvariant, <1>1, PTL

\* No hop connects on an answer with a metadata address or with a private one
\* that the list does not exempt for that hop.
THEOREM EveryHopIsChecked == Spec => []AddressesChecked
<1>1. FetchInv => AddressesChecked
  BY DEF FetchInv
<1> QED
  BY FetchInvariant, <1>1, PTL

\* A dropped body stays dropped, and the number of requests is bounded.
THEOREM BodiesAreDropped == Spec => []BodyFollowsMethod
<1>1. FetchInv => BodyFollowsMethod
  BY DEF FetchInv
<1> QED
  BY FetchInvariant, <1>1, PTL

\* Whatever servers answer and however long the chain of redirects, a fetch shows
\* no credential abroad, connects on no refused address and repeats no dropped body
\* (safe_fetch.py:325-394).
THEOREM FetchesAreSafe == Spec => []ChainIsSafe
BY CredentialsAreContained, EveryHopIsChecked, BodiesAreDropped, PTL DEF ChainIsSafe

-----------------------------------------------------------------------------
(* Induction, over sets of numbers.                                        *)

Less == {pair \in Nat \X Nat : pair[1] < pair[2]}

LEMMA LeastExists ==
  ASSUME NEW S \in SUBSET Nat, S # {}
  PROVE  \E x \in S : \A y \in S : x <= y
<1>1. IsWellFoundedOn(OpToRel(<, Nat), Nat)
  BY NatLessThanWellFounded
<1>2. OpToRel(<, Nat) = Less
  BY Zenon DEF OpToRel, Less
<1>3. IsWellFoundedOn(Less, Nat)
  BY <1>1, <1>2, Zenon
<1>4. PICK x \in S : \A y \in S : ~(<<y, x>> \in Less)
  BY <1>3, WFMin
<1>5. ASSUME NEW y \in S PROVE x <= y
  <2>1. x <= y \/ y < x
    OBVIOUS
  <2>2. ASSUME y < x PROVE FALSE
    <3>1. <<y, x>> \in Nat \X Nat  OBVIOUS
    <3>2. <<y, x>>[1] < <<y, x>>[2]  BY <2>2
    <3>3. <<y, x>> \in Less  BY <3>1, <3>2, Zenon DEF Less
    <3> QED BY <1>4, <3>3, Zenon
  <2> QED BY <2>1, <2>2
<1> QED BY <1>5

\* Induction up to n, over the set of the numbers for which a formula holds.
LEMMA UpInduction ==
  ASSUME NEW n \in Nat, NEW S, 0 \in S, \A k \in 0..(n - 1) : k \in S => k + 1 \in S
  PROVE  \A k \in 0..n : k \in S
<1> DEFINE missed == {k \in 0..n : k \notin S}
<1> SUFFICES ASSUME missed # {} PROVE FALSE
  OBVIOUS
<1>1. PICK x \in missed : \A y \in missed : x <= y
  <2>1. missed \in SUBSET Nat
    OBVIOUS
  <2> HIDE DEF missed
  <2> QED BY <2>1, LeastExists
<1>2. x # 0 /\ x - 1 \in 0..(n - 1) /\ x - 1 \notin missed
  BY <1>1
<1> QED BY <1>1, <1>2

\* Primitive recursion up to n: the step is a function, so that the lemma needs no
\* operator as a parameter.
Steps(n, V) == [(1..n) \X V -> V]
Recursion(f, n, V, first, step) ==
  f \in [0..n -> V] /\ f[0] = first /\ \A k \in 1..n : f[k] = step[<<k, f[k - 1]>>]

LEMMA RecursionExists ==
  ASSUME NEW n \in Nat, NEW V, NEW first \in V, NEW step \in Steps(n, V)
  PROVE  \E f : Recursion(f, n, V, first, step)
<1> USE DEF Steps
<1> DEFINE Upto(f, m) == f[0] = first /\ \A k \in 1..m : f[k] = step[<<k, f[k - 1]>>]
<1> DEFINE S == {m \in 0..n : \E f \in [0..m -> V] : Upto(f, m)}
<1>1. 0 \in S
  <2> DEFINE f == [k \in 0..0 |-> first]
  <2>1. f \in [0..0 -> V] /\ f[0] = first /\ 1..0 = {}
    OBVIOUS
  <2> HIDE DEF f
  <2>2. Upto(f, 0)
    BY <2>1
  <2>3. 0 \in 0..n
    OBVIOUS
  <2> QED BY <2>1, <2>2, <2>3
<1>2. ASSUME NEW m \in 0..(n - 1), m \in S PROVE m + 1 \in S
  <2>1. PICK f \in [0..m -> V] : Upto(f, m)
    BY <1>2
  <2> DEFINE g == [k \in 0..(m + 1) |-> IF k = m + 1 THEN step[<<m + 1, f[m]>>] ELSE f[k]]
  <2>2. f[m] \in V /\ <<m + 1, f[m]>> \in (1..n) \X V
    OBVIOUS
  <2>3. g \in [0..(m + 1) -> V]
    BY <2>2
  <2>4. g[0] = first
    BY <2>1
  <2>5. ASSUME NEW k \in 1..(m + 1) PROVE g[k] = step[<<k, g[k - 1]>>]
    <3>1. CASE k = m + 1
      <4>1. g[k] = step[<<m + 1, f[m]>>] /\ k - 1 = m /\ g[m] = f[m]
        BY <3>1
      <4> QED BY <3>1, <4>1
    <3>2. CASE k \in 1..m
      <4>1. f[k] = step[<<k, f[k - 1]>>] /\ g[k] = f[k] /\ g[k - 1] = f[k - 1]
        BY <2>1, <3>2
      <4> QED BY <4>1
    <3> QED BY <3>1, <3>2
  <2>6. Upto(g, m + 1)
    BY <2>4, <2>5
  <2>7. m + 1 \in 0..n
    OBVIOUS
  <2> HIDE DEF g, Upto
  <2> QED BY <2>3, <2>6, <2>7
<1>3. n \in S
  <2> HIDE DEF S
  <2>1. \A k \in 0..n : k \in S
    BY <1>1, <1>2, UpInduction
  <2> QED BY <2>1
<1> QED BY <1>3 DEF Recursion

-----------------------------------------------------------------------------
(* Filters.                                                                *)

LEMMA UpToIs ==
  ASSUME NEW S \in SUBSET Nat, IsFiniteSet(S)
  PROVE  /\ Cardinality(S) \in Nat
         /\ \A i \in S : UpTo(S, i) \in 1..Cardinality(S)
         /\ \A i, j \in S : i < j => UpTo(S, i) < UpTo(S, j)
<1>1. Cardinality(S) \in Nat
  BY FS_CardinalityType
<1>2. \A i : /\ IsFiniteSet({j \in S : j <= i})
             /\ UpTo(S, i) \in Nat
             /\ UpTo(S, i) <= Cardinality(S)
  <2> SUFFICES ASSUME NEW i
               PROVE  /\ IsFiniteSet({j \in S : j <= i})
                      /\ UpTo(S, i) \in Nat
                      /\ UpTo(S, i) <= Cardinality(S)
    OBVIOUS
  <2>1. {j \in S : j <= i} \in SUBSET S
    OBVIOUS
  <2> QED BY <2>1, FS_Subset, FS_CardinalityType DEF UpTo
<1>3. ASSUME NEW i \in S PROVE UpTo(S, i) # 0
  <2>1. i \in {j \in S : j <= i}
    OBVIOUS
  <2> QED BY <1>2, <2>1, FS_EmptySet DEF UpTo
<1>4. ASSUME NEW i \in S, NEW j \in S, i < j PROVE UpTo(S, i) < UpTo(S, j)
  <2> DEFINE A == {k \in S : k <= i}
             B == {k \in S : k <= j}
  <2>1. i \in Nat /\ j \in Nat /\ S \subseteq Nat
    OBVIOUS
  <2>1b. \A k \in S : k <= i => k <= j
    BY <1>4, <2>1
  <2>1c. ~(j <= i) /\ j <= j
    BY <1>4, <2>1
  <2>1a. A \in SUBSET B /\ j \in B /\ j \notin A
    BY <2>1b, <2>1c
  <2>2. IsFiniteSet(A) /\ IsFiniteSet(B)
    BY <1>2
  <2> HIDE DEF A, B
  <2>3. Cardinality(A) <= Cardinality(B) /\ Cardinality(A) # Cardinality(B)
    BY <2>1a, <2>2, FS_Subset
  <2>4. Cardinality(A) \in Nat /\ Cardinality(B) \in Nat
    BY <2>2, FS_CardinalityType
  <2>5. Cardinality(A) < Cardinality(B)
    BY <2>3, <2>4
  <2> QED BY <2>5 DEF UpTo, A, B
<1>5. ASSUME NEW i \in S PROVE UpTo(S, i) \in 1..Cardinality(S)
  <2>1. UpTo(S, i) \in Nat /\ UpTo(S, i) <= Cardinality(S) /\ UpTo(S, i) # 0
    BY <1>2, <1>3
  <2> QED BY <1>1, <2>1
<1> QED BY <1>1, <1>4, <1>5

LEMMA AscendingIs ==
  ASSUME NEW S \in SUBSET Nat, IsFiniteSet(S)
  PROVE  LET n == Cardinality(S)
             s == Ascending(S)
         IN /\ n \in Nat
            /\ s \in [1..n -> S]
            /\ DOMAIN s = 1..n
            /\ \A k \in 1..n : s[k] \in S /\ UpTo(S, s[k]) = k
            /\ \A k, l \in 1..n : k < l => s[k] < s[l]
            /\ \A i \in S : \E k \in 1..n : s[k] = i
<1> DEFINE n == Cardinality(S)
           s == Ascending(S)
           r == [i \in S |-> UpTo(S, i)]
<1>1. /\ n \in Nat
      /\ \A i \in S : UpTo(S, i) \in 1..n
      /\ \A i, j \in S : i < j => UpTo(S, i) < UpTo(S, j)
  BY UpToIs
<1>2. ASSUME NEW i \in S, NEW j \in S, UpTo(S, i) = UpTo(S, j) PROVE i = j
  <2>1. ~(i < j) /\ ~(j < i)
    BY <1>1, <1>2
  <2> QED BY <2>1
<1>3. r \in Injection(S, 1..n)
  BY <1>1, <1>2 DEF Injection, IsInjective
<1>4. IsFiniteSet(1..n) /\ Cardinality(1..n) = n
  BY <1>1, FS_Interval
<1>5. r \in Surjection(S, 1..n)
  BY <1>3, <1>4, FS_Injection
<1>6. \A k \in 1..n : \E i \in S : UpTo(S, i) = k
  BY <1>5 DEF Surjection
<1>7. \A k \in 1..n : s[k] \in S /\ UpTo(S, s[k]) = k
  BY <1>6 DEF Ascending
<1>8. s \in [1..n -> S] /\ DOMAIN s = 1..n
  BY <1>7 DEF Ascending
<1> HIDE DEF s, n
<1>9. ASSUME NEW k \in 1..n, NEW l \in 1..n, k < l PROVE s[k] < s[l]
  <2>1. UpTo(S, s[k]) = k /\ UpTo(S, s[l]) = l /\ s[k] \in S /\ s[l] \in S
    BY <1>7
  <2>1a. ~(s[l] < s[k]) /\ s[k] # s[l]
    <3>1. k \in Nat /\ l \in Nat /\ ~(l < k) /\ l # k
      BY <1>1, <1>9
    <3> QED BY <1>1, <2>1, <3>1
  <2>2. s[k] \in Nat /\ s[l] \in Nat
    BY <1>7
  <2> QED BY <2>1a, <2>2
<1>10. ASSUME NEW i \in S PROVE \E k \in 1..n : s[k] = i
  <2>1. UpTo(S, i) \in 1..n
    BY <1>1
  <2>2. s[UpTo(S, i)] = i
    BY <1>2, <1>7, <2>1
  <2> QED BY <2>1, <2>2
<1> QED BY <1>1, <1>7, <1>8, <1>9, <1>10 DEF s, n

-----------------------------------------------------------------------------
ItemKinds == {"usable", "skipped", "foreign"}
Usable(items) == {i \in DOMAIN items : items[i] = "usable"}

LEMMA UsableIs ==
  ASSUME NEW items \in Seq(ItemKinds)
  PROVE  /\ Len(items) \in Nat /\ DOMAIN items = 1..Len(items)
         /\ Usable(items) \in SUBSET (1..Len(items)) /\ Usable(items) \in SUBSET Nat
         /\ IsFiniteSet(Usable(items)) /\ Cardinality(Usable(items)) \in Nat
<1>1. Len(items) \in Nat /\ DOMAIN items = 1..Len(items)
  OBVIOUS
<1>2. Usable(items) \in SUBSET (1..Len(items)) /\ Usable(items) \in SUBSET Nat
  BY <1>1 DEF Usable
<1>3. IsFiniteSet(1..Len(items))
  BY <1>1, FS_Interval
<1>4. IsFiniteSet(Usable(items))
  BY <1>2, <1>3, FS_Subset
<1> QED BY <1>1, <1>2, <1>4, FS_CardinalityType

At(adr, places) == {adr} \X places

\* The usable items of a page, the first ones that there is room for.
TakesUsable(items, adr, room, taken) ==
  LET P == Usable(items)
      n == IF Cardinality(P) >= room THEN room ELSE Cardinality(P)
  IN /\ taken.full = (Cardinality(P) >= room)
     /\ taken.raises => \E i \in DOMAIN items : items[i] = "foreign"
     /\ taken.ids \in Seq(At(adr, P)) /\ Len(taken.ids) = n
     /\ \A k \in 1..n : /\ taken.ids[k] = <<adr, taken.ids[k][2]>>
                        /\ taken.ids[k][2] \in P /\ UpTo(P, taken.ids[k][2]) = k

LEMMA TakenIs ==
  ASSUME NEW items \in Seq(ItemKinds), NEW adr, NEW room \in Nat \ {0}
  PROVE  TakesUsable(items, adr, room, Taken(items, adr, room))
<1> DEFINE P == Usable(items)
           last == IF Cardinality(P) >= room THEN CHOOSE i \in P : UpTo(P, i) = room ELSE Len(items)
           Q == {i \in P : i <= last}
           kept == Ascending(Q)
           n == IF Cardinality(P) >= room THEN room ELSE Cardinality(P)
           taken == Taken(items, adr, room)
<1>1. /\ taken.full = (Cardinality(P) >= room)
      /\ taken.raises = \E i \in 1..last : items[i] = "foreign"
      /\ taken.ids = [k \in DOMAIN kept |-> <<adr, kept[k]>>]
  BY Zenon DEF Taken, Usable
<1>2. /\ Len(items) \in Nat /\ DOMAIN items = 1..Len(items)
      /\ P \in SUBSET (1..Len(items)) /\ P \in SUBSET Nat /\ IsFiniteSet(P) /\ Cardinality(P) \in Nat
  BY UsableIs
<1> HIDE DEF taken, P
<1>3. /\ last \in Nat /\ last <= Len(items)
      /\ Cardinality(P) >= room => last \in P /\ UpTo(P, last) = room
      /\ ~(Cardinality(P) >= room) => last = Len(items)
  <2>1. CASE Cardinality(P) >= room
    <3>1. room \in 1..Cardinality(P)
      BY <1>2, <2>1
    <3>2. \E i \in P : UpTo(P, i) = room
      BY <1>2, <3>1, AscendingIs
    <3>3. last \in P /\ UpTo(P, last) = room
      BY <2>1, <3>2
    <3> HIDE DEF last
    <3>4. last \in 1..Len(items)
      BY <1>2, <3>3
    <3>5. last \in Nat /\ last <= Len(items)
      BY <1>2, <3>4
    <3> QED BY <2>1, <3>3, <3>5
  <2>2. CASE ~(Cardinality(P) >= room)
    BY <1>2, <2>2
  <2> QED BY <2>1, <2>2
<1> HIDE DEF last
<1>4. Q \subseteq P /\ \A i \in Q : UpTo(Q, i) = UpTo(P, i)
  <2>1. ASSUME NEW i \in Q PROVE UpTo(Q, i) = UpTo(P, i)
    <3>1. \A j \in P : j \in Nat
      BY <1>2
    <3>2. {j \in Q : j <= i} = {j \in P : j <= i}
      BY <1>3, <3>1
    <3> QED BY <3>2 DEF UpTo
  <2> QED BY <2>1
<1>5. Cardinality(Q) = n
  <2>1. CASE Cardinality(P) >= room
    <3>1. Cardinality(Q) = UpTo(P, last)
      BY DEF UpTo
    <3> QED BY <1>3, <2>1, <3>1
  <2>2. CASE ~(Cardinality(P) >= room)
    <3>1. \A j \in P : j <= Len(items)
      BY <1>2
    <3>2. Q = P
      BY <1>3, <2>2, <3>1
    <3> QED BY <2>2, <3>2
  <2> QED BY <2>1, <2>2
<1>6. Q \in SUBSET Nat /\ IsFiniteSet(Q)
  BY <1>2, <1>4, FS_Subset
<1> HIDE DEF Q
<1>7. DOMAIN kept = 1..n /\ \A k \in 1..n : kept[k] \in Q /\ UpTo(Q, kept[k]) = k
  BY <1>5, <1>6, AscendingIs
<1> HIDE DEF kept
<1>8. n \in Nat
  BY <1>2
<1> HIDE DEF n
<1>9. \A k \in 1..n : /\ taken.ids[k] = <<adr, kept[k]>> /\ taken.ids[k][2] = kept[k]
                      /\ kept[k] \in P /\ UpTo(P, kept[k]) = k
  BY <1>1, <1>4, <1>7
<1>10. taken.ids \in Seq({adr} \X P) /\ Len(taken.ids) = n
  <2>1. \A k \in 1..n : <<adr, kept[k]>> \in {adr} \X P
    BY <1>9
  <2> DEFINE V == {adr} \X P
  <2> HIDE DEF V
  <2>2. taken.ids \in Seq(V) /\ Len(taken.ids) = n
    BY <1>1, <1>7, <1>8, <2>1 DEF V
  <2> QED BY <2>2 DEF V
<1>11. taken.raises => \E i \in DOMAIN items : items[i] = "foreign"
  <2>1. ASSUME NEW i \in 1..last PROVE i \in DOMAIN items
    <3> DEFINE m == Len(items)
    <3>1. m \in Nat /\ last \in Nat /\ last <= m
      BY <1>2, <1>3
    <3> HIDE DEF m
    <3>2. i \in 1..m
      BY <3>1
    <3> QED BY <1>2, <3>2 DEF m
  <2> QED BY <1>1, <2>1
<1> QED BY <1>1, <1>9, <1>10, <1>11 DEF n, P, taken, At, TakesUsable

\* The states of a listing, each a turn after the one before.
LEMMA StatesAre ==
  ASSUME NEW server, NEW kind, NEW limit, NEW cap, NEW turns \in Nat, NEW V,
         [url |-> 1, asked |-> <<>>, ids |-> <<>>, end |-> "going"] \in V,
         \A s \in V : s.end = "going" => Turn(server, kind, limit, cap, s) \in V
  PROVE  LET states == States(server, kind, limit, cap, turns)
         IN /\ states[0] = [url |-> 1, asked |-> <<>>, ids |-> <<>>, end |-> "going"]
            /\ \A k \in 0..turns : states[k] \in V
            /\ \A k \in 1..turns :
                 states[k] = IF states[k - 1].end # "going" THEN states[k - 1]
                             ELSE Turn(server, kind, limit, cap, states[k - 1])
<1> DEFINE first == [url |-> 1, asked |-> <<>>, ids |-> <<>>, end |-> "going"]
           After(s) == IF s.end # "going" THEN s ELSE Turn(server, kind, limit, cap, s)
           Step(f) == [n \in 0..turns |-> IF n = 0 THEN first
                                          ELSE IF f[n - 1].end # "going" THEN f[n - 1]
                                          ELSE Turn(server, kind, limit, cap, f[n - 1])]
           step == [p \in (1..turns) \X V |-> After(p[2])]
           states == States(server, kind, limit, cap, turns)
<1>1. \A s \in V : After(s) \in V
  OBVIOUS
<1>2. \A f, k : k \in 0..turns => Step(f)[k] = IF k = 0 THEN first ELSE After(f[k - 1])
  OBVIOUS
<1>3. states = CHOOSE f : f = Step(f)
  BY DEF States
<1>4. \A f : DOMAIN Step(f) = 0..turns /\ Step(f) = [n \in 0..turns |-> Step(f)[n]]
  OBVIOUS
<1>5. first \in V
  OBVIOUS
<1> HIDE DEF After, states, first, Step
<1>6. \E f \in [0..turns -> V] : f = Step(f)
  <2>1. step \in Steps(turns, V) /\ \A k \in 1..turns, s \in V : step[<<k, s>>] = After(s)
    BY <1>1 DEF Steps
  <2> HIDE DEF step
  <2>2. PICK f : Recursion(f, turns, V, first, step)
    BY <1>5, <2>1, RecursionExists
  <2>3. f \in [0..turns -> V] /\ f[0] = first /\ \A k \in 1..turns : f[k] = step[<<k, f[k - 1]>>]
    BY <2>2 DEF Recursion
  <2>4. ASSUME NEW k \in 0..turns PROVE f[k] = Step(f)[k]
    <3>1. CASE k = 0
      BY <1>2, <2>3, <3>1
    <3>2. CASE k # 0
      <4>1. k \in 1..turns /\ k - 1 \in 0..turns
        BY <3>2
      <4>2. f[k - 1] \in V
        BY <2>3, <4>1
      <4>3. f[k] = After(f[k - 1])
        BY <2>1, <2>3, <4>1, <4>2
      <4> QED BY <1>2, <3>2, <4>3
    <3> QED BY <3>1, <3>2
  <2>5. f = Step(f)
    BY <1>4, <2>3, <2>4
  <2> QED BY <2>3, <2>5
<1>7. states = Step(states)
  BY <1>3, <1>6, Zenon
<1>8. states[0] = first /\ \A k \in 1..turns : states[k] = After(states[k - 1])
  <2>1. 0 \in 0..turns /\ \A k \in 1..turns : k \in 0..turns /\ k # 0
    OBVIOUS
  <2> QED BY <1>2, <1>7, <2>1
<1> DEFINE S == {k \in 0..turns : states[k] \in V}
<1>9. \A k \in 0..turns : k \in S
  <2>1. 0 \in S
    BY <1>5, <1>8
  <2>2. ASSUME NEW k \in 0..(turns - 1), k \in S PROVE k + 1 \in S
    <3>1. k + 1 \in 1..turns /\ k + 1 \in 0..turns /\ (k + 1) - 1 = k
      OBVIOUS
    <3> QED BY <1>1, <1>8, <2>2, <3>1
  <2> HIDE DEF S
  <2> QED BY <2>1, <2>2, UpInduction
<1> QED BY <1>8, <1>9 DEF states, After, first

-----------------------------------------------------------------------------
(* Sequences without repetitions.                                          *)

Distinct(seq) == \A i, j \in 1..Len(seq) : i # j => seq[i] # seq[j]
Has(seq, x) == \E i \in 1..Len(seq) : seq[i] = x

\* c is a and then b.
Joined(V, a, b, c) ==
  /\ c \in Seq(V) /\ Len(c) = Len(a) + Len(b)
  /\ Len(a) \in Nat /\ Len(b) \in Nat
  /\ \A k \in 1..Len(a) : k \in 1..Len(c) /\ c[k] = a[k]
  /\ \A k \in 1..Len(b) : Len(a) + k \in 1..Len(c) /\ c[Len(a) + k] = b[k]
  /\ \A k \in 1..Len(c) :
       \/ k \in 1..Len(a) /\ c[k] = a[k]
       \/ \E l \in 1..Len(b) : k = Len(a) + l /\ c[k] = b[l]

LEMMA ConcatIs ==
  ASSUME NEW V, NEW a \in Seq(V), NEW b \in Seq(V)
  PROVE  Joined(V, a, b, a \o b)
<1> DEFINE m == Len(a)
           n == Len(b)
<1>1. m \in Nat /\ n \in Nat
  OBVIOUS
<1>2. a \o b \in Seq(V) /\ Len(a \o b) = m + n
  OBVIOUS
<1>3. /\ \A k \in 1..m : (a \o b)[k] = a[k]
      /\ \A k \in 1..n : (a \o b)[m + k] = b[k]
  OBVIOUS
<1> HIDE DEF m, n
<1>4. /\ \A k \in 1..m : k \in 1..(m + n)
      /\ \A k \in 1..n : m + k \in 1..(m + n)
      /\ \A k \in 1..(m + n) : k \in 1..m \/ (k - m \in 1..n /\ k = m + (k - m))
  BY <1>1
<1>5. ASSUME NEW k \in 1..(m + n), k \notin 1..m
      PROVE  \E l \in 1..n : k = m + l /\ (a \o b)[k] = b[l]
  <2>1. k - m \in 1..n /\ k = m + (k - m)
    BY <1>4, <1>5
  <2> DEFINE l == k - m
  <2>2. l \in 1..n /\ k = m + l
    BY <2>1
  <2> HIDE DEF l
  <2>3. (a \o b)[k] = b[l]
    BY <1>3, <2>2
  <2> QED BY <2>2, <2>3
<1> QED BY <1>1, <1>2, <1>3, <1>4, <1>5 DEF m, n, Joined

LEMMA ConcatDistinct ==
  ASSUME NEW V, NEW a \in Seq(V), NEW b \in Seq(V), Distinct(a), Distinct(b),
         \A i \in 1..Len(b) : ~Has(a, b[i])
  PROVE  Distinct(a \o b)
<1> DEFINE c == a \o b
<1>0. Joined(V, a, b, c)
  BY ConcatIs
<1> HIDE DEF c
<1>1. ASSUME NEW i \in 1..Len(c), NEW j \in 1..Len(c), i # j PROVE c[i] # c[j]
  <2>1. CASE i \in 1..Len(a) /\ j \in 1..Len(a)
    <3>1. c[i] = a[i] /\ c[j] = a[j]
      BY <2>1, <1>0 DEF Joined
    <3> QED BY <1>1, <2>1, <3>1 DEF Distinct
  <2>2. CASE i \in 1..Len(a) /\ j \notin 1..Len(a)
    <3>1. PICK l \in 1..Len(b) : c[i] = a[i] /\ c[j] = b[l]
      BY <2>2, <1>0 DEF Joined
    <3> QED BY <2>2, <3>1 DEF Has
  <2>3. CASE i \notin 1..Len(a) /\ j \in 1..Len(a)
    <3>1. PICK k \in 1..Len(b) : c[j] = a[j] /\ c[i] = b[k]
      BY <2>3, <1>0 DEF Joined
    <3> QED BY <2>3, <3>1 DEF Has
  <2>4. CASE i \notin 1..Len(a) /\ j \notin 1..Len(a)
    <3>1. PICK k \in 1..Len(b) : c[i] = b[k] /\ i = Len(a) + k
      BY <2>4, <1>0 DEF Joined
    <3>2. PICK l \in 1..Len(b) : c[j] = b[l] /\ j = Len(a) + l
      BY <2>4, <1>0 DEF Joined
    <3>3. k # l
      BY <1>1, <3>1, <3>2
    <3> QED BY <3>1, <3>2, <3>3 DEF Distinct
  <2> QED BY <2>1, <2>2, <2>3, <2>4
<1> QED BY <1>1 DEF Distinct, c

LEMMA SingletonIs ==
  ASSUME NEW V, NEW x \in V
  PROVE  /\ <<x>> \in Seq(V) /\ Len(<<x>>) = 1 /\ 1..1 = {1} /\ <<x>>[1] = x
         /\ Distinct(<<x>>)
BY DEF Distinct

\* b is a and then x.
Longer(V, a, x, b) == /\ b \in Seq(V) /\ Len(b) = Len(a) + 1
                      /\ \A j \in 1..Len(b) : (j \in 1..Len(a) /\ b[j] = a[j]) \/ b[j] = x
LEMMA LongerIs ==
  ASSUME NEW V, NEW a \in Seq(V), NEW x \in V
  PROVE  Longer(V, a, x, Append(a, x))
<1> DEFINE n == Len(a)
           b == Append(a, x)
<1>1. n \in Nat /\ b \in Seq(V) /\ Len(b) = n + 1 /\ b[n + 1] = x /\ \A j \in 1..n : b[j] = a[j]
  OBVIOUS
<1> HIDE DEF b, n
<1>2. \A j \in 1..(n + 1) : j \in 1..n \/ j = n + 1
  BY <1>1
<1> QED BY <1>1, <1>2 DEF Longer, b, n

LEMMA AppendIs ==
  ASSUME NEW V, NEW a \in Seq(V), NEW x \in V, Distinct(a), ~Has(a, x)
  PROVE  /\ Append(a, x) \in Seq(V) /\ Len(Append(a, x)) = Len(a) + 1
         /\ Distinct(Append(a, x)) /\ Has(Append(a, x), x)
         /\ \A y : Has(a, y) => Has(Append(a, x), y)
<1>1. Append(a, x) = a \o <<x>>
  OBVIOUS
<1>2. /\ <<x>> \in Seq(V) /\ Len(<<x>>) = 1 /\ 1 \in 1..1 /\ <<x>>[1] = x
      /\ Distinct(<<x>>) /\ \A i \in 1..Len(<<x>>) : ~Has(a, <<x>>[i])
  BY SingletonIs
<1> DEFINE b == <<x>>
           c == a \o b
<1> HIDE DEF b
<1>3. b \in Seq(V) /\ Len(b) = 1 /\ b[1] = x /\ Distinct(b) /\ \A i \in 1..Len(b) : ~Has(a, b[i])
  BY <1>2 DEF b
<1>4a. Joined(V, a, b, c)
  BY <1>3, ConcatIs
<1>4. Distinct(c)
  BY <1>3, ConcatDistinct
<1>5. /\ c \in Seq(V) /\ Len(c) = Len(a) + 1
      /\ Len(a) + 1 \in 1..Len(c) /\ c[Len(a) + 1] = x
      /\ \A k \in 1..Len(a) : k \in 1..Len(c) /\ c[k] = a[k]
  <2>1. /\ c \in Seq(V) /\ Len(c) = Len(a) + Len(b)
        /\ \A k \in 1..Len(a) : k \in 1..Len(c) /\ c[k] = a[k]
        /\ \A k \in 1..Len(b) : Len(a) + k \in 1..Len(c) /\ c[Len(a) + k] = b[k]
    BY <1>4a DEF Joined
  <2>2. 1 \in 1..Len(b)
    BY <1>3
  <2> HIDE DEF c
  <2> QED BY <1>3, <2>1, <2>2
<1> HIDE DEF c
<1>6. Has(c, x) /\ \A y : Has(a, y) => Has(c, y)
  BY <1>5 DEF Has
<1> QED BY <1>1, <1>4, <1>5, <1>6 DEF b, c

-----------------------------------------------------------------------------
(* Servers that send what they like.                                       *)

HostileServer(n) == [1..n -> [items : Seq(ItemKinds), next : {NoUrl, OffHost} \cup 1..n]]

ListingState(n) == [url   : {NoUrl, OffHost} \cup 1..n,
                    asked : Seq(1..n),
                    ids   : Seq((1..n) \X Nat),
                    end   : {"going", "done", "raised"}]

\* What a listing of such a server is at every turn.
Listed(n, cap) ==
  {s \in ListingState(n) :
     /\ Distinct(s.asked)
     /\ Distinct(s.ids)
     /\ \A i \in 1..Len(s.ids) : Has(s.asked, s.ids[i][1])
     /\ Len(s.ids) <= cap
     /\ s.end = "going" => s.url \in 1..n /\ ~Has(s.asked, s.url) /\ Len(s.ids) < cap}

LEMMA FirstListed ==
  ASSUME NEW n \in Nat \ {0}, NEW cap \in Nat \ {0}
  PROVE  [url |-> 1, asked |-> <<>>, ids |-> <<>>, end |-> "going"] \in Listed(n, cap)
<1> DEFINE s == [url |-> 1, asked |-> <<>>, ids |-> <<>>, end |-> "going"]
<1>1. s.url \in 1..n /\ Len(s.asked) = 0 /\ Len(s.ids) = 0 /\ 1..0 = {}
  OBVIOUS
<1>2. s \in ListingState(n)
  BY DEF ListingState
<1> HIDE DEF s
<1>3. s \in Listed(n, cap)
  BY <1>1, <1>2 DEF Listed, Distinct, Has
<1> QED BY <1>3 DEF s

LEMMA TurnListed ==
  ASSUME NEW n \in Nat \ {0}, NEW cap \in Nat \ {0}, NEW server \in HostileServer(n),
         NEW s \in Listed(n, cap), s.end = "going"
  PROVE  /\ Turn(server, "v2", 1, cap, s) \in Listed(n, cap)
         /\ Len(Turn(server, "v2", 1, cap, s).asked) = Len(s.asked) + 1
<1> DEFINE items == server[s.url].items
           room == cap - Len(s.ids)
           taken == Taken(items, s.url, room)
           next == server[s.url].next
           asked == Append(s.asked, s.url)
           t == Turn(server, "v2", 1, cap, s)
           Ids == (1..n) \X Nat
<1>1. s \in ListingState(n)
  BY DEF Listed
<1>2. /\ s.url \in 1..n
      /\ s.asked \in Seq(1..n)
      /\ s.ids \in Seq(Ids) /\ Len(s.ids) \in Nat
  BY <1>1 DEF Listed, ListingState
<1>3. /\ Distinct(s.asked) /\ Distinct(s.ids)
      /\ \A i \in 1..Len(s.ids) : Has(s.asked, s.ids[i][1])
      /\ ~Has(s.asked, s.url)
      /\ Len(s.ids) < cap
  BY DEF Listed
<1>4. items \in Seq(ItemKinds) /\ next \in {NoUrl, OffHost} \cup 1..n
  BY <1>2 DEF HostileServer
<1>5. room \in Nat \ {0} /\ room = cap - Len(s.ids)
  BY <1>2, <1>3
<1>6. /\ asked \in Seq(1..n) /\ Len(asked) = Len(s.asked) + 1 /\ Distinct(asked) /\ Has(asked, s.url)
      /\ \A y : Has(s.asked, y) => Has(asked, y)
  BY <1>2, <1>3, AppendIs
<1>7. CASE items = <<>>
  <2>1. t = [s EXCEPT !.asked = asked, !.end = "done"]
    BY <1>7 DEF Turn
  <2> HIDE DEF asked, t, Ids
  <2>2. t.asked = asked /\ t.ids = s.ids /\ t.end = "done" /\ t.url = s.url /\ t \in ListingState(n)
    BY <1>1, <1>6, <2>1 DEF ListingState
  <2>3. \A i \in 1..Len(t.ids) : Has(t.asked, t.ids[i][1])
    BY <1>3, <1>6, <2>2
  <2>4. Len(t.ids) <= cap
    BY <1>2, <1>3, <2>2
  <2>5. t \in Listed(n, cap)
    BY <1>3, <1>6, <2>2, <2>3, <2>4 DEF Listed
  <2> QED BY <1>6, <2>2, <2>5 DEF t
<1>8. CASE items # <<>>
  <2> DEFINE end == IF taken.raises THEN "raised"
                    ELSE IF taken.full THEN "done"
                    ELSE IF next = OffHost THEN "raised"
                    ELSE IF Followed(next, asked) THEN "going" ELSE "done"
             ids == s.ids \o taken.ids
             P == Usable(items)
             m == IF Cardinality(P) >= room THEN room ELSE Cardinality(P)
  <2>1. t = [url |-> next, asked |-> asked, ids |-> ids, end |-> end]
    BY <1>8, Zenon DEF Turn, NextByCursor
  <2>2. end = "going" => ~taken.full /\ Followed(next, asked) /\ next # OffHost
    OBVIOUS
  <2>3. end \in {"going", "done", "raised"}
    OBVIOUS
  <2> HIDE DEF asked, items, next, room, end, t
  <2>4. /\ taken.full = (Cardinality(P) >= room)
        /\ Len(taken.ids) = m
        /\ \A k \in 1..m : /\ taken.ids[k] = <<s.url, taken.ids[k][2]>>
                           /\ taken.ids[k][2] \in P /\ UpTo(P, taken.ids[k][2]) = k
        /\ taken.ids \in Seq(At(s.url, P))
    <3>1. TakesUsable(items, s.url, room, taken)
      BY <1>4, <1>5, TakenIs
    <3> HIDE DEF taken
    <3> QED BY <3>1, Zenon DEF TakesUsable
  <2>5. P \in SUBSET Nat /\ Cardinality(P) \in Nat
    BY <1>4, UsableIs
  <2>6. m \in Nat /\ m <= room /\ (~taken.full => m < room)
    <3>1. CASE Cardinality(P) >= room
      <4>1. m = room /\ taken.full
        BY <2>4, <3>1
      <4> QED BY <1>5, <4>1
    <3>2. CASE ~(Cardinality(P) >= room)
      BY <1>5, <2>5, <3>2
    <3> QED BY <3>1, <3>2
  <2> HIDE DEF m, P, taken
  <2>7. taken.ids \in Seq(Ids)
    <3>1. ASSUME NEW k \in 1..m PROVE taken.ids[k] \in Ids
      <4> DEFINE second == taken.ids[k][2]
      <4>1. taken.ids[k] = <<s.url, second>> /\ second \in Nat
        BY <2>4, <2>5
      <4> HIDE DEF second
      <4>2. <<s.url, second>> \in Ids
        BY <1>2, <4>1
      <4> QED BY <4>1, <4>2
    <3> HIDE DEF Ids
    <3> QED BY <2>4, <3>1
  <2>8. Distinct(taken.ids)
    <3>1. ASSUME NEW k \in 1..m, NEW l \in 1..m, k # l PROVE taken.ids[k] # taken.ids[l]
      <4>1. UpTo(P, taken.ids[k][2]) = k /\ UpTo(P, taken.ids[l][2]) = l
        BY <2>4
      <4> QED BY <3>1, <4>1
    <3> QED BY <2>4, <3>1 DEF Distinct
  <2>9. \A k \in 1..Len(taken.ids) : taken.ids[k][1] = s.url
    <3>1. ASSUME NEW k \in 1..m PROVE taken.ids[k][1] = s.url
      <4>1. taken.ids[k] = <<s.url, taken.ids[k][2]>>
        BY <2>4
      <4> DEFINE second == taken.ids[k][2]
      <4> HIDE DEF second
      <4>2. taken.ids[k] = <<s.url, second>>
        BY <4>1 DEF second
      <4> QED BY <4>2
    <3> QED BY <2>4, <3>1
  <2>10. \A k \in 1..Len(taken.ids) : ~Has(s.ids, taken.ids[k])
    <3> SUFFICES ASSUME NEW k \in 1..Len(taken.ids), Has(s.ids, taken.ids[k]) PROVE FALSE
      OBVIOUS
    <3>1. PICK i \in 1..Len(s.ids) : s.ids[i] = taken.ids[k]
      BY DEF Has
    <3>2. Has(s.asked, s.ids[i][1])
      BY <1>3
    <3>3. s.ids[i][1] = s.url
      BY <2>9, <3>1
    <3> QED BY <1>3, <3>2, <3>3
  <2> HIDE DEF Ids
  <2>10a. Joined(Ids, s.ids, taken.ids, ids)
    BY <1>2, <2>7, ConcatIs
  <2>11. ids \in Seq(Ids) /\ Len(ids) = Len(s.ids) + m /\ Distinct(ids)
    <3>1. Distinct(ids)
      BY <1>2, <1>3, <2>7, <2>8, <2>10, ConcatDistinct
    <3>2. ids \in Seq(Ids) /\ Len(ids) = Len(s.ids) + m
      BY <2>4, <2>10a DEF Joined
    <3> QED BY <3>1, <3>2
  <2>12. ASSUME NEW k \in 1..Len(ids) PROVE Has(asked, ids[k][1])
    <3>1. CASE k \in 1..Len(s.ids)
      <4>1. ids[k] = s.ids[k]
        BY <2>10a, <3>1 DEF Joined
      <4> QED BY <1>3, <1>6, <3>1, <4>1
    <3>2. CASE k \notin 1..Len(s.ids)
      <4>1. PICK l \in 1..Len(taken.ids) : ids[k] = taken.ids[l]
        BY <2>10a, <3>2 DEF Joined
      <4> QED BY <1>6, <2>9, <4>1
    <3> QED BY <3>1, <3>2
  <2> HIDE DEF ids
  <2>13. Len(ids) <= cap /\ (~taken.full => Len(ids) < cap)
    BY <1>2, <1>5, <2>6, <2>11
  <2>14. end = "going" => next \in 1..n /\ ~Has(asked, next)
    <3>1. DOMAIN asked = 1..Len(asked)
      BY <1>6
    <3> QED BY <1>4, <2>2, <3>1 DEF Followed, Has
  <2>15. t.url = next /\ t.asked = asked /\ t.ids = ids /\ t.end = end
    BY <2>1
  <2>16. t \in ListingState(n)
    BY <1>4, <1>6, <2>1, <2>3, <2>11 DEF ListingState, Ids
  <2>17. t \in Listed(n, cap)
    BY <1>6, <2>2, <2>11, <2>12, <2>13, <2>14, <2>15, <2>16 DEF Listed
  <2> QED BY <1>6, <2>15, <2>17 DEF t
<1> QED BY <1>7, <1>8

\* A listing ends by its last turn, since it asks a new URL each time.
LEMMA HostileIs ==
  ASSUME NEW n \in Nat \ {0}, NEW cap \in Nat \ {0}, NEW server \in HostileServer(n)
  PROVE  StopsAtHostileServers(cap, List(server, "v2", 1, cap, n + 1))
<1> DEFINE turns == n + 1
           states == States(server, "v2", 1, cap, turns)
           s == states[turns]
<1>1. turns \in Nat
  OBVIOUS
<1>2. /\ states[0] = [url |-> 1, asked |-> <<>>, ids |-> <<>>, end |-> "going"]
      /\ \A k \in 0..turns : states[k] \in Listed(n, cap)
      /\ \A k \in 1..turns :
           states[k] = IF states[k - 1].end # "going" THEN states[k - 1]
                       ELSE Turn(server, "v2", 1, cap, states[k - 1])
  <2>1. \A t \in Listed(n, cap) : t.end = "going" => Turn(server, "v2", 1, cap, t) \in Listed(n, cap)
    BY TurnListed
  <2>2. [url |-> 1, asked |-> <<>>, ids |-> <<>>, end |-> "going"] \in Listed(n, cap)
    BY FirstListed
  <2> HIDE DEF turns
  <2> QED BY <1>1, <2>1, <2>2, StatesAre
<1>3. List(server, "v2", 1, cap, n + 1) = s
  BY DEF List
<1> HIDE DEF states
<1> DEFINE S == {k \in 0..turns : states[k].end = "going" => Len(states[k].asked) = k}
<1>4. \A k \in 0..turns : k \in S
  <2>1. 0 \in S
    BY <1>2
  <2>2. ASSUME NEW k \in 0..(turns - 1), k \in S PROVE k + 1 \in S
    <3>1. k + 1 \in 1..turns /\ k + 1 \in 0..turns /\ (k + 1) - 1 = k /\ k \in 0..turns
      OBVIOUS
    <3>2. CASE states[k].end # "going"
      <4>1. states[k + 1] = states[k]
        BY <1>2, <3>1, <3>2
      <4> QED BY <3>1, <3>2, <4>1
    <3>3. CASE states[k].end = "going"
      <4>1. states[k + 1] = Turn(server, "v2", 1, cap, states[k])
        BY <1>2, <3>1, <3>3
      <4>2. Len(states[k + 1].asked) = Len(states[k].asked) + 1
        BY <1>2, <3>1, <3>3, <4>1, TurnListed
      <4> QED BY <2>2, <3>1, <3>3, <4>2
    <3> QED BY <3>2, <3>3
  <2> HIDE DEF S, turns
  <2> QED BY <1>1, <2>1, <2>2, UpInduction
<1>5. turns \in 0..turns
  OBVIOUS
<1>6. s \in Listed(n, cap) /\ (s.end = "going" => Len(s.asked) = turns)
  BY <1>2, <1>4, <1>5
<1> HIDE DEF s
<1>7. /\ s.asked \in Seq(1..n) /\ Distinct(s.asked)
      /\ s.ids \in Seq((1..n) \X Nat) /\ Distinct(s.ids)
      /\ Len(s.ids) <= cap
  BY <1>6 DEF Listed, ListingState
<1>8. s.end # "going"
  <2> SUFFICES ASSUME s.end = "going" PROVE FALSE
    OBVIOUS
  <2>1. Len(s.asked) = turns
    BY <1>6
  <2>2. s.asked \in [1..turns -> 1..n]
    BY <1>7, <2>1
  <2>3. IsFiniteSet(1..turns) /\ Cardinality(1..turns) = turns /\ IsFiniteSet(1..n) /\ Cardinality(1..n) = n
    BY <1>1, FS_Interval
  <2>4. Cardinality(1..n) < Cardinality(1..turns)
    BY <2>3
  <2> HIDE DEF turns
  <2>5. \E i, j \in 1..turns : i # j /\ s.asked[i] = s.asked[j]
    <3> DEFINE D == 1..turns
               T == 1..n
               f == s.asked
    <3>1. /\ IsFiniteSet(D) /\ IsFiniteSet(T) /\ Cardinality(T) < Cardinality(D)
          /\ f \in [D -> T]
      BY <2>2, <2>3, <2>4
    <3> HIDE DEF D, T, f
    <3>2. \E i, j \in D : i # j /\ f[i] = f[j]
      BY <3>1, FS_PigeonHole
    <3> QED BY <3>2 DEF D, f
  <2> QED BY <1>7, <2>1, <2>5 DEF Distinct
<1>9. Cardinality({s.ids[k] : k \in DOMAIN s.ids}) = Len(s.ids)
  <2> DEFINE m == Len(s.ids)
             D == 1..m
             T == {s.ids[k] : k \in DOMAIN s.ids}
             f == [k \in D |-> s.ids[k]]
  <2>1. DOMAIN s.ids = D /\ m \in Nat
    BY <1>7
  <2>2. IsFiniteSet(D) /\ Cardinality(D) = m
    BY <2>1, FS_Interval
  <2>3. f \in [D -> T] /\ \A x \in T : \E k \in D : f[k] = x
    BY <2>1
  <2>4. \A k, l \in D : f[k] = f[l] => k = l
    BY <1>7 DEF Distinct
  <2> HIDE DEF T, f, D
  <2>5. f \in Surjection(D, T) /\ f \in Injection(D, T)
    BY <2>3, <2>4 DEF Surjection, Injection, IsInjective
  <2>6. Cardinality(T) = Cardinality(D)
    BY <2>2, <2>5, FS_Surjection
  <2> QED BY <2>2, <2>6 DEF T
<1>10. \A i \in DOMAIN s.asked : s.asked[i] # OffHost
  <2>1. \A i \in DOMAIN s.asked : s.asked[i] \in 1..n
    BY <1>7
  <2> QED BY <2>1 DEF OffHost
<1>11. \A i, j \in DOMAIN s.asked : i # j => s.asked[i] # s.asked[j]
  <2>1. DOMAIN s.asked = 1..Len(s.asked)
    BY <1>7
  <2> QED BY <1>7, <2>1 DEF Distinct
<1> QED BY <1>3, <1>7, <1>8, <1>9, <1>10, <1>11 DEF StopsAtHostileServers

-----------------------------------------------------------------------------
(* Servers that keep their contract.                                       *)

HonestItems == {"usable", "skipped"}

\* How many of the usable items a page has: those up to its end that are not
\* before it.
Part(U, from, len, P) == P \in SUBSET (1..len) /\ \A j \in 1..len : j \in P <=> from + j \in U
Shifts(U, from, len, P) ==
  /\ IsFiniteSet(P) /\ UpTo(P, len) = Cardinality(P)
  /\ \A i \in 0..len : /\ UpTo(P, i) \in Nat /\ UpTo(U, from) \in Nat
                       /\ UpTo(U, from + i) = UpTo(U, from) + UpTo(P, i)

LEMMA UpToShifts ==
  ASSUME NEW U \in SUBSET Nat, IsFiniteSet(U), NEW from \in Nat, NEW len \in Nat, NEW P, Part(U, from, len, P)
  PROVE  Shifts(U, from, len, P)
<1>0. P \in SUBSET (1..len) /\ \A j \in 1..len : j \in P <=> from + j \in U
  BY DEF Part
<1>1. IsFiniteSet(P) /\ P \in SUBSET Nat
  <2>1. IsFiniteSet(1..len)
    BY FS_Interval
  <2>2. IsFiniteSet(P)
    BY <1>0, <2>1, FS_Subset
  <2> QED BY <1>0, <2>2
<1>2. UpTo(P, len) = Cardinality(P)
  <2>1. {j \in P : j <= len} = P
    <3>1. \A j \in P : j <= len
      BY <1>0
    <3> QED BY <3>1
  <2> QED BY <2>1 DEF UpTo
<1>3. ASSUME NEW i \in 0..len
      PROVE  /\ UpTo(P, i) \in Nat /\ UpTo(U, from) \in Nat
             /\ UpTo(U, from + i) = UpTo(U, from) + UpTo(P, i)
  <2> DEFINE low == {j \in U : j <= from}
             high == {j \in U : j <= from + i /\ ~(j <= from)}
             all == {j \in U : j <= from + i}
             page == {j \in P : j <= i}
             f == [j \in page |-> from + j]
  <2>1. all = low \cup high /\ low \cap high = {}
    <3>1. \A j \in U : j \in Nat /\ (j <= from => j <= from + i)
      OBVIOUS
    <3> QED BY <3>1
  <2>2. IsFiniteSet(low) /\ IsFiniteSet(high) /\ IsFiniteSet(page)
    <3>1. low \in SUBSET U /\ high \in SUBSET U /\ page \in SUBSET P
      OBVIOUS
    <3> HIDE DEF low, high, page
    <3> QED BY <1>1, <3>1, FS_Subset
  <2>3. f \in [page -> high] /\ \A j, k \in page : f[j] = f[k] => j = k
    <3>1. ASSUME NEW j \in page PROVE from + j \in high
      BY <1>0, <3>1
    <3>2. \A j, k \in page : from + j = from + k => j = k
      BY <1>0
    <3>3. f \in [page -> high]
      BY <3>1
    <3> QED BY <3>2, <3>3
  <2>4. ASSUME NEW k \in high PROVE \E j \in page : f[j] = k
    <3>1. k - from \in 1..len /\ k - from <= i /\ from + (k - from) = k
      BY <2>4
    <3>2. k - from \in page
      BY <1>0, <2>4, <3>1
    <3>3. f[k - from] = k
      BY <3>1, <3>2
    <3> QED BY <3>2, <3>3
  <2> HIDE DEF f, low, high, page, all
  <2>5. f \in Surjection(page, high) /\ f \in Injection(page, high)
    BY <2>3, <2>4 DEF Surjection, Injection, IsInjective
  <2>6. Cardinality(high) = Cardinality(page)
    BY <2>2, <2>5, FS_Surjection
  <2>7. Cardinality(low \cup high) = Cardinality(low) + Cardinality(high)
    <3>1. Cardinality(low \cup high) = Cardinality(low) + Cardinality(high) - Cardinality(low \cap high)
      BY <2>2, FS_Union
    <3>2. Cardinality(low \cap high) = 0
      BY <2>1, FS_EmptySet
    <3>3. Cardinality(low) \in Nat /\ Cardinality(high) \in Nat
      BY <2>2, FS_CardinalityType
    <3> QED BY <3>1, <3>2, <3>3
  <2>8. Cardinality(page) \in Nat /\ Cardinality(low) \in Nat
    BY <2>2, FS_CardinalityType
  <2>9. UpTo(P, i) = Cardinality(page) /\ UpTo(U, from) = Cardinality(low) /\ UpTo(U, from + i) = Cardinality(all)
    BY DEF UpTo, page, low, all
  <2> QED BY <2>1, <2>6, <2>7, <2>8, <2>9
<1> QED BY <1>1, <1>2, <1>3 DEF Shifts

LEMMA UpToOne ==
  ASSUME NEW S \in SUBSET Nat, IsFiniteSet(S), NEW i \in S, NEW j \in S, UpTo(S, i) = UpTo(S, j)
  PROVE  i = j
<1>1. UpTo(S, i) \in Nat /\ (i < j => UpTo(S, i) < UpTo(S, j)) /\ (j < i => UpTo(S, j) < UpTo(S, i))
  BY UpToIs
<1>2. i \in Nat /\ j \in Nat
  OBVIOUS
<1> QED BY <1>1, <1>2

\* A page has what the listing has from adr to stop.
Slice(V, items, adr, stop, page) ==
  /\ page \in Seq(V) /\ Len(page) = stop - adr + 1 /\ Len(page) \in Nat
  /\ \A i \in 1..Len(page) : (adr - 1) + i \in 1..Len(items) /\ page[i] = items[(adr - 1) + i]
  /\ page = <<>> <=> stop = adr - 1

LEMMA SliceIs ==
  ASSUME NEW V, NEW items \in Seq(V), NEW adr \in 1..(Len(items) + 1), NEW stop \in (adr - 1)..Len(items)
  PROVE  Slice(V, items, adr, stop, SubSeq(items, adr, stop))
<1> DEFINE page == SubSeq(items, adr, stop)
           n == Len(items)
<1>1. n \in Nat /\ adr \in Nat /\ adr >= 1 /\ stop \in Nat /\ adr <= n + 1 /\ stop <= n /\ adr <= stop + 1
  OBVIOUS
<1>2. \A i \in adr..stop : items[i] \in V
  BY <1>1
<1>3. /\ page \in Seq(V)
      /\ Len(page) = IF adr <= stop THEN stop - adr + 1 ELSE 0
      /\ \A i \in 1..(stop - adr + 1) : page[i] = items[adr + i - 1]
  BY <1>1, <1>2, SubSeqProperties
<1> HIDE DEF page, n
<1>4. Len(page) = stop - adr + 1 /\ Len(page) \in Nat
  BY <1>1, <1>3
<1>5. page = <<>> <=> Len(page) = 0
  BY <1>3
<1>6. ASSUME NEW i \in 1..Len(page) PROVE (adr - 1) + i \in 1..n /\ page[i] = items[(adr - 1) + i]
  <2>1. i \in 1..(stop - adr + 1) /\ adr + i - 1 = (adr - 1) + i /\ (adr - 1) + i \in 1..n
    BY <1>1, <1>4
  <2> QED BY <1>3, <2>1
<1>7. page = <<>> <=> stop = adr - 1
  BY <1>1, <1>4, <1>5
<1> QED BY <1>3, <1>4, <1>6, <1>7 DEF page, n, Slice

\* What both kinds of servers keep: a page ends where the next begins.
NextOf(server, kind, limit, adr) ==
  IF kind = "v1" THEN NextByStart(server, adr, limit) ELSE NextByCursor(server, adr)
Contract(server, kind, limit, items) ==
  \A adr \in 1..(Len(items) + 1) : \E stop \in (adr - 1)..Len(items) :
    /\ server[adr].items = SubSeq(items, adr, stop)
    /\ stop = adr - 1 => adr = Len(items) + 1
    /\ \/ stop = adr - 1
       \/ NextOf(server, kind, limit, adr) = NoUrl /\ stop = Len(items)
       \/ NextOf(server, kind, limit, adr) = stop + 1 /\ stop >= adr

LEMMA V1KeepsContract ==
  ASSUME NEW items \in Seq(HonestItems), NEW limit \in Nat \ {0}
  PROVE  Contract(V1Server(items, limit), "v1", limit, items)
<1> DEFINE server == V1Server(items, limit)
           n == Len(items)
<1>1. n \in Nat
  OBVIOUS
<1>2. ASSUME NEW adr \in 1..(n + 1)
      PROVE  \E stop \in (adr - 1)..n :
               /\ server[adr].items = SubSeq(items, adr, stop)
               /\ stop = adr - 1 => adr = n + 1
               /\ \/ stop = adr - 1
                  \/ NextOf(server, "v1", limit, adr) = NoUrl /\ stop = n
                  \/ NextOf(server, "v1", limit, adr) = stop + 1 /\ stop >= adr
  <2> DEFINE stop == IF adr + limit - 1 < n THEN adr + limit - 1 ELSE n
             page == SubSeq(items, adr, stop)
  <2>1. adr \in 1..(n + limit + 1)
    BY <1>1
  <2>2. server[adr].items = page
    BY <2>1 DEF V1Server
  <2> HIDE DEF server
  <2>3. stop \in (adr - 1)..n /\ (stop = adr - 1 => adr = n + 1)
    <3> HIDE DEF n
    <3> QED BY <1>1
  <2>4. Len(page) = stop - adr + 1 /\ Len(page) \in Nat
    <3> HIDE DEF stop
    <3>1. Slice(HonestItems, items, adr, stop, page)
      BY <2>3, SliceIs
    <3> QED BY <3>1 DEF Slice
  <2>5. NextOf(server, "v1", limit, adr) = IF Len(page) < limit THEN NoUrl ELSE adr + limit
    BY <2>2 DEF NextOf, NextByStart
  <2>6. Len(page) < limit => stop = n
    <3> HIDE DEF page, n
    <3> QED BY <1>1, <2>4
  <2>7. ~(Len(page) < limit) => adr + limit = stop + 1 /\ stop >= adr
    <3> HIDE DEF page, n
    <3> QED BY <1>1, <2>4
  <2> HIDE DEF stop, page, n
  <2> QED BY <2>2, <2>3, <2>5, <2>6, <2>7 DEF page
<1> QED BY <1>2 DEF Contract

LEMMA V2KeepsContract ==
  ASSUME NEW items \in Seq(HonestItems), NEW limit, NEW cuts \in SUBSET (1..(Len(items) + 1))
  PROVE  Contract(V2Server(items, cuts), "v2", limit, items)
<1> DEFINE server == V2Server(items, cuts)
           n == Len(items)
<1>1. n \in Nat
  OBVIOUS
<1>2. ASSUME NEW adr \in 1..(n + 1)
      PROVE  \E stop \in (adr - 1)..n :
               /\ server[adr].items = SubSeq(items, adr, stop)
               /\ stop = adr - 1 => adr = n + 1
               /\ \/ stop = adr - 1
                  \/ NextOf(server, "v2", limit, adr) = NoUrl /\ stop = n
                  \/ NextOf(server, "v2", limit, adr) = stop + 1 /\ stop >= adr
  <2> DEFINE later == {c \in cuts : c > adr}
             next == IF later = {} THEN n + 1 ELSE CHOOSE c \in later : \A d \in later : c <= d
  <2>1. server[adr] = [items |-> SubSeq(items, adr, next - 1), next |-> IF later = {} THEN NoUrl ELSE next]
    BY DEF V2Server
  <2> HIDE DEF server
  <2>2. NextOf(server, "v2", limit, adr) = IF later = {} THEN NoUrl ELSE next
    BY <2>1 DEF NextOf, NextByCursor
  <2>3. CASE later = {}
    <3>1. next - 1 = n
      BY <1>1, <2>3
    <3>2. server[adr].items = SubSeq(items, adr, n) /\ NextOf(server, "v2", limit, adr) = NoUrl
      BY <2>1, <2>2, <2>3, <3>1
    <3>3. n \in (adr - 1)..n /\ (n = adr - 1 => adr = n + 1)
      BY <1>1
    <3> QED BY <3>2, <3>3
  <2>4. CASE later # {}
    <3>1. later \in SUBSET Nat /\ \A c \in later : c \in Nat /\ c > adr /\ c <= n + 1
      <4>1. \A c \in cuts : c \in Nat /\ c <= n + 1
        BY <1>1
      <4> QED BY <4>1
    <3>2. \E c \in later : \A d \in later : c <= d
      <4> HIDE DEF later
      <4> QED BY <2>4, <3>1, LeastExists
    <3>3. next \in later
      BY <2>4, <3>2
    <3> HIDE DEF next, n, later
    <3>4. next \in Nat /\ next > adr /\ next <= n + 1
      BY <3>1, <3>3
    <3>5. next - 1 \in (adr - 1)..n /\ next - 1 >= adr /\ next - 1 # adr - 1 /\ next = (next - 1) + 1
      BY <1>1, <3>4
    <3> DEFINE stop == next - 1
    <3>6. server[adr].items = SubSeq(items, adr, stop) /\ NextOf(server, "v2", limit, adr) = stop + 1
      BY <2>1, <2>2, <2>4, <3>5
    <3>7. stop \in (adr - 1)..n /\ stop >= adr /\ stop # adr - 1
      BY <3>5
    <3> HIDE DEF stop
    <3> QED BY <3>6, <3>7
  <2> QED BY <2>3, <2>4
<1> QED BY <1>2 DEF Contract

\* The place in the whole listing of what a page has.
PlaceOf(id) == id[1] + id[2] - 1

\* What a listing of an honest server is at every turn: it has the usable items
\* before its URL, in order.
Faithful(items, cap) ==
  {s \in [url : Nat, asked : Seq(Nat), ids : Seq(Nat \X Nat), end : {"going", "done"}] :
     /\ \A k \in 1..Len(s.ids) : PlaceOf(s.ids[k]) \in Usable(items) /\ UpTo(Usable(items), PlaceOf(s.ids[k])) = k
     /\ s.end = "going" =>
          /\ s.url \in 1..(Len(items) + 1)
          /\ \A j \in 1..Len(s.asked) : s.asked[j] < s.url
          /\ Len(s.ids) = UpTo(Usable(items), s.url - 1)
          /\ Len(s.ids) < cap
     /\ s.end = "done" =>
          Len(s.ids) = IF cap < Cardinality(Usable(items)) THEN cap ELSE Cardinality(Usable(items))}

LEMMA HonestIsKnown ==
  ASSUME NEW items \in Seq(HonestItems)
  PROVE  items \in Seq(ItemKinds) /\ \A i \in DOMAIN items : items[i] # "foreign"
<1>1. \A i \in 1..Len(items) : items[i] \in HonestItems
  OBVIOUS
<1>2. \A i \in 1..Len(items) : items[i] \in ItemKinds /\ items[i] # "foreign"
  BY <1>1 DEF HonestItems, ItemKinds
<1> QED BY <1>2

LEMMA FirstFaithful ==
  ASSUME NEW items \in Seq(HonestItems), NEW cap \in Nat \ {0}
  PROVE  [url |-> 1, asked |-> <<>>, ids |-> <<>>, end |-> "going"] \in Faithful(items, cap)
<1> DEFINE s == [url |-> 1, asked |-> <<>>, ids |-> <<>>, end |-> "going"]
           U == Usable(items)
<1>1. /\ s.url = 1 /\ 1 \in 1..(Len(items) + 1) /\ Len(s.asked) = 0 /\ Len(s.ids) = 0 /\ 1..0 = {}
      /\ s.end = "going" /\ s.url - 1 = 0
  OBVIOUS
<1>2. s \in [url : Nat, asked : Seq(Nat), ids : Seq(Nat \X Nat), end : {"going", "done"}]
  OBVIOUS
<1>3. UpTo(U, 0) = 0
  <2>1. U \in SUBSET (1..Len(items))
    BY HonestIsKnown, UsableIs
  <2>2. {j \in U : j <= 0} = {}
    BY <2>1
  <2> QED BY <2>2, FS_EmptySet DEF UpTo
<1> HIDE DEF s
<1>4. s \in Faithful(items, cap)
  BY <1>1, <1>2, <1>3 DEF Faithful
<1> QED BY <1>4 DEF s

LEMMA TurnFaithful ==
  ASSUME NEW items \in Seq(HonestItems), NEW cap \in Nat \ {0}, NEW server, NEW kind, NEW limit,
         Contract(server, kind, limit, items),
         NEW s \in Faithful(items, cap), s.end = "going"
  PROVE  /\ Turn(server, kind, limit, cap, s) \in Faithful(items, cap)
         /\ Turn(server, kind, limit, cap, s).end = "going" => Turn(server, kind, limit, cap, s).url > s.url
<1> DEFINE page == server[s.url].items
           room == cap - Len(s.ids)
           taken == Taken(page, s.url, room)
           next == NextOf(server, kind, limit, s.url)
           asked == Append(s.asked, s.url)
           t == Turn(server, kind, limit, cap, s)
           U == Usable(items)
           n == Len(items)
           from == s.url - 1
           Ids == Nat \X Nat
<1>0. /\ items \in Seq(ItemKinds) /\ \A i \in DOMAIN items : items[i] # "foreign"
      /\ n \in Nat /\ DOMAIN items = 1..n /\ U \in SUBSET (1..n) /\ U \in SUBSET Nat
      /\ IsFiniteSet(U) /\ Cardinality(U) \in Nat
  BY HonestIsKnown, UsableIs
<1>1. /\ s.url \in 1..(n + 1) /\ s.url \in Nat /\ from \in Nat /\ s.url = from + 1
      /\ s.asked \in Seq(Nat) /\ Len(s.asked) \in Nat
      /\ s.ids \in Seq(Ids) /\ Len(s.ids) \in Nat
  <2>1. s.url \in 1..(n + 1) /\ s.asked \in Seq(Nat) /\ s.ids \in Seq(Ids)
    BY DEF Faithful
  <2> QED BY <1>0, <2>1
<1>2. /\ \A k \in 1..Len(s.ids) : PlaceOf(s.ids[k]) \in U /\ UpTo(U, PlaceOf(s.ids[k])) = k
      /\ \A j \in 1..Len(s.asked) : s.asked[j] < s.url
      /\ Len(s.ids) = UpTo(U, from)
      /\ Len(s.ids) < cap
  BY DEF Faithful
<1>3. room \in Nat \ {0} /\ room = cap - Len(s.ids)
  BY <1>1, <1>2
<1>4. asked \in Seq(Nat) /\ Len(asked) = Len(s.asked) + 1 /\ \A j \in 1..Len(asked) : asked[j] <= s.url
  <2>1. Longer(Nat, s.asked, s.url, asked)
    BY <1>1, LongerIs
  <2>2. \A j \in 1..Len(s.asked) : s.asked[j] <= s.url
    <3> SUFFICES ASSUME NEW j \in 1..Len(s.asked) PROVE s.asked[j] <= s.url
      OBVIOUS
    <3> DEFINE before == s.asked
    <3>0. before \in Seq(Nat)
      BY <1>1
    <3> HIDE DEF from, before, U, n, t, asked, next, taken, room, page
    <3>1. before[j] \in Nat
      BY <3>0 DEF before
    <3>2. s.asked[j] < s.url
      BY <1>2
    <3>3. s.asked[j] \in Nat
      BY <3>1 DEF before
    <3> QED BY <1>1, <3>2, <3>3
  <2>3. s.url <= s.url
    BY <1>1
  <2> HIDE DEF asked
  <2> QED BY <2>1, <2>2, <2>3 DEF Longer
<1>5. PICK stop \in from..n :
         /\ page = SubSeq(items, s.url, stop)
         /\ stop = from => s.url = n + 1
         /\ \/ stop = from
            \/ next = NoUrl /\ stop = n
            \/ next = stop + 1 /\ stop >= s.url
  BY <1>1 DEF Contract
<1> DEFINE len == stop - from
           P == Usable(page)
<1>6. /\ page \in Seq(ItemKinds) /\ Len(page) = len /\ len \in Nat
      /\ \A i \in 1..len : from + i \in 1..n /\ page[i] = items[from + i]
      /\ page = <<>> <=> stop = from
  <2>1. /\ page \in Seq(ItemKinds) /\ Len(page) = stop - s.url + 1 /\ Len(page) \in Nat
        /\ \A i \in 1..Len(page) : (s.url - 1) + i \in 1..Len(items) /\ page[i] = items[(s.url - 1) + i]
        /\ page = <<>> <=> stop = s.url - 1
    <3>1. Slice(ItemKinds, items, s.url, stop, SubSeq(items, s.url, stop))
      BY <1>0, <1>1, <1>5, SliceIs
    <3>2. Slice(ItemKinds, items, s.url, stop, page)
      BY <1>5, <3>1
    <3> HIDE DEF page
    <3> QED BY <3>2 DEF Slice
  <2>2. stop - s.url + 1 = len
    <3> HIDE DEF from, n
    <3>1. stop \in Int /\ from \in Nat /\ s.url = from + 1
      BY <1>0, <1>1, <1>5
    <3> QED BY <3>1
  <2> HIDE DEF len
  <2> QED BY <2>1, <2>2
<1> HIDE DEF len, page, next, room, asked, t, from, n, U
<1>7. from + len = stop /\ stop \in Nat /\ stop <= n
  BY <1>0, <1>1, <1>5 DEF len
<1>8. P \in SUBSET (1..len) /\ \A j \in 1..len : j \in P <=> from + j \in U
  BY <1>0, <1>6 DEF Usable, U
<1> HIDE DEF P
<1>9. /\ UpTo(P, len) = Cardinality(P)
      /\ \A i \in 0..len : UpTo(P, i) \in Nat /\ UpTo(U, from) \in Nat /\ UpTo(U, from + i) = UpTo(U, from) + UpTo(P, i)
  <2>1. Part(U, from, len, P)
    BY <1>8 DEF Part
  <2>2. Shifts(U, from, len, P)
    BY <1>0, <1>1, <1>6, <2>1, UpToShifts
  <2> QED BY <2>2 DEF Shifts
<1>10. UpTo(U, stop) = Len(s.ids) + Cardinality(P) /\ Cardinality(P) \in Nat
  <2>1. len \in 0..len
    BY <1>6
  <2> QED BY <1>2, <1>7, <1>9, <2>1
<1>11. UpTo(U, n) = Cardinality(U)
  <2>0. \A j \in U : j <= n
    BY <1>0
  <2>1. {j \in U : j <= n} = U
    BY <2>0
  <2> QED BY <2>1 DEF UpTo
<1>12. CASE page = <<>>
  <2>1. t = [s EXCEPT !.asked = asked, !.end = "done"]
    BY <1>12 DEF Turn, t, page, asked
  <2>2. /\ t.asked = asked /\ t.ids = s.ids /\ t.end = "done"
        /\ t \in [url : Nat, asked : Seq(Nat), ids : Seq(Ids), end : {"going", "done"}]
    <3> HIDE DEF Ids
    <3> QED BY <1>1, <1>4, <2>1 DEF Faithful
  <2>3. Len(s.ids) = Cardinality(U)
    <3>1. from = n
      <4>1. s.url = n + 1 /\ s.url = from + 1 /\ n \in Nat /\ from \in Nat
        BY <1>0, <1>1, <1>5, <1>6, <1>12
      <4> QED BY <4>1
    <3> QED BY <1>2, <1>11, <3>1
  <2>4. Len(t.ids) = IF cap < Cardinality(U) THEN cap ELSE Cardinality(U)
    BY <1>0, <1>2, <2>2, <2>3
  <2>5. t \in Faithful(items, cap)
    BY <1>2, <2>2, <2>4 DEF Faithful, U
  <2> QED BY <2>2, <2>5 DEF t
<1>13. CASE page # <<>>
  <2> DEFINE end == IF taken.raises THEN "raised"
                    ELSE IF taken.full THEN "done"
                    ELSE IF next = OffHost THEN "raised"
                    ELSE IF Followed(next, asked) THEN "going" ELSE "done"
             ids == s.ids \o taken.ids
             m == IF Cardinality(P) >= room THEN room ELSE Cardinality(P)
  <2>1. t = [url |-> next, asked |-> asked, ids |-> ids, end |-> end]
    BY <1>13, Zenon DEF Turn, NextOf, t, page, asked, next, room
  <2>2. /\ taken.full = (Cardinality(P) >= room)
        /\ taken.raises => \E i \in DOMAIN page : page[i] = "foreign"
        /\ Len(taken.ids) = m
        /\ \A k \in 1..m : /\ taken.ids[k] = <<s.url, taken.ids[k][2]>>
                           /\ taken.ids[k][2] \in P /\ UpTo(P, taken.ids[k][2]) = k
        /\ taken.ids \in Seq(At(s.url, P))
    <3>1. TakesUsable(page, s.url, room, taken)
      BY <1>3, <1>6, TakenIs
    <3> HIDE DEF taken
    <3> QED BY <3>1, Zenon DEF TakesUsable, P
  <2>3. ~taken.raises
    <3>1. \A i \in DOMAIN page : i \in 1..len
      BY <1>6
    <3>2. \A i \in 1..len : page[i] # "foreign"
      BY <1>0, <1>6
    <3> QED BY <2>2, <3>1, <3>2
  <2>4. next \in Nat /\ next # OffHost /\ ((next = NoUrl /\ stop = n) \/ (next = stop + 1 /\ stop >= s.url))
    <3>1. (next = NoUrl /\ stop = n) \/ (next = stop + 1 /\ stop >= s.url)
      BY <1>5, <1>6, <1>13
    <3>2. next \in Nat
      BY <1>7, <3>1 DEF NoUrl
    <3> QED BY <3>1, <3>2 DEF OffHost
  <2>5. end = IF taken.full THEN "done" ELSE IF Followed(next, asked) THEN "going" ELSE "done"
    BY <2>3, <2>4
  <2>6. m \in Nat /\ (taken.full => m = room) /\ (~taken.full => m < room /\ m = Cardinality(P))
    <3>1. CASE Cardinality(P) >= room
      <4>1. m = room /\ taken.full
        BY <2>2, <3>1
      <4> QED BY <1>3, <4>1
    <3>2. CASE ~(Cardinality(P) >= room)
      <4>1. m = Cardinality(P) /\ ~taken.full
        BY <2>2, <3>2
      <4> QED BY <1>3, <1>10, <3>2, <4>1
    <3> QED BY <3>1, <3>2
  <2> HIDE DEF m, taken, end
  <2>7. ASSUME NEW k \in 1..m
        PROVE  /\ taken.ids[k] \in Ids
               /\ PlaceOf(taken.ids[k]) \in U
               /\ UpTo(U, PlaceOf(taken.ids[k])) = Len(s.ids) + k
    <3> DEFINE i == taken.ids[k][2]
    <3>1. taken.ids[k] = <<s.url, i>> /\ i \in P /\ UpTo(P, i) = k
      BY <2>2
    <3> HIDE DEF i
    <3>2. i \in 1..len /\ i \in 0..len /\ i \in Nat
      <4>1. i \in 1..len
        BY <1>8, <3>1
      <4> QED BY <1>6, <4>1
    <3>3. PlaceOf(taken.ids[k]) = from + i
      BY <1>1, <3>1, <3>2 DEF PlaceOf
    <3>4. taken.ids[k] \in Ids
      BY <1>1, <3>1, <3>2
    <3>5. UpTo(U, from + i) = Len(s.ids) + k /\ from + i \in U
      BY <1>2, <1>8, <1>9, <3>1, <3>2
    <3> QED BY <3>3, <3>4, <3>5
  <2>8. taken.ids \in Seq(Ids)
    <3> HIDE DEF Ids
    <3>1. taken.ids \in Seq(At(s.url, P)) /\ Len(taken.ids) = m
      BY <2>2
    <3>2. taken.ids = [k \in 1..m |-> taken.ids[k]] /\ m \in Nat
      BY <3>1
    <3>3. [k \in 1..m |-> taken.ids[k]] \in [1..m -> Ids]
      BY <2>7
    <3> DEFINE ids_ == taken.ids
    <3>4. ids_ \in [1..m -> Ids]
      BY <3>2, <3>3
    <3> HIDE DEF ids_
    <3>5. ids_ \in Seq(Ids)
      BY <3>2, <3>4
    <3> QED BY <3>5 DEF ids_
  <2>9. Joined(Ids, s.ids, taken.ids, ids)
    <3> HIDE DEF Ids
    <3> QED BY <1>1, <2>8, ConcatIs
  <2> HIDE DEF ids
  <2>10. ids \in Seq(Ids) /\ Len(ids) = Len(s.ids) + m
    BY <2>2, <2>9 DEF Joined
  <2>11. ASSUME NEW k \in 1..Len(ids) PROVE PlaceOf(ids[k]) \in U /\ UpTo(U, PlaceOf(ids[k])) = k
    <3>1. CASE k \in 1..Len(s.ids) /\ ids[k] = s.ids[k]
      BY <1>2, <3>1
    <3>2. ASSUME NEW l \in 1..Len(taken.ids), k = Len(s.ids) + l, ids[k] = taken.ids[l]
          PROVE  PlaceOf(ids[k]) \in U /\ UpTo(U, PlaceOf(ids[k])) = k
      BY <2>2, <2>7, <3>2
    <3> QED BY <2>9, <3>1, <3>2 DEF Joined
  <2>12. UpTo(U, stop) <= Cardinality(U)
    <3>1. {j \in U : j <= stop} \in SUBSET U
      OBVIOUS
    <3> QED BY <1>0, <3>1, FS_Subset DEF UpTo
  <2>13. ASSUME end = "done" PROVE Len(ids) = IF cap < Cardinality(U) THEN cap ELSE Cardinality(U)
    <3>1. CASE taken.full
      <4>1. Len(ids) = cap
        BY <1>1, <1>3, <2>6, <2>10, <3>1
      <4>2. Cardinality(P) >= room
        BY <2>2, <3>1
      <4>3. cap <= Cardinality(U)
        BY <1>0, <1>1, <1>3, <1>10, <2>12, <4>2
      <4> QED BY <1>0, <4>1, <4>3
    <3>2. CASE ~taken.full
      <4>1. ~Followed(next, asked)
        BY <2>5, <2>13, <3>2
      <4>2. next = NoUrl
        <5>1. DOMAIN asked = 1..Len(asked)
          BY <1>4
        <5>2. \A j \in 1..Len(asked) : asked[j] \in Nat /\ asked[j] <= s.url
          BY <1>4
        <5>3. next = stop + 1 /\ stop >= s.url => \A j \in 1..Len(asked) : asked[j] # next
          BY <1>1, <1>7, <5>2
        <5> QED BY <2>4, <4>1, <5>1, <5>3 DEF Followed
      <4>3. stop = n
        BY <1>7, <2>4, <4>2 DEF NoUrl
      <4>4. Len(ids) = Cardinality(U) /\ Len(ids) < cap
        BY <1>1, <1>3, <1>10, <1>11, <2>6, <2>10, <3>2, <4>3
      <4> QED BY <1>0, <4>4
    <3> QED BY <3>1, <3>2
  <2>14. ASSUME end = "going"
         PROVE  /\ next \in 1..(n + 1) /\ next > s.url
                /\ \A j \in 1..Len(asked) : asked[j] < next
                /\ Len(ids) = UpTo(U, next - 1)
                /\ Len(ids) < cap
    <3>1. ~taken.full /\ next # NoUrl
      BY <2>5, <2>14 DEF Followed
    <3>2. next = stop + 1 /\ stop >= s.url
      BY <2>4, <3>1
    <3>3. next \in 1..(n + 1) /\ next > s.url /\ next - 1 = stop
      BY <1>0, <1>1, <1>7, <3>2
    <3>4. \A j \in 1..Len(asked) : asked[j] \in Nat /\ asked[j] <= s.url
      BY <1>4
    <3>5. \A j \in 1..Len(asked) : asked[j] < next
      BY <1>1, <1>7, <3>2, <3>4
    <3>6. Len(ids) = UpTo(U, next - 1)
      BY <1>10, <2>6, <2>10, <3>1, <3>3
    <3>7. Len(ids) < cap
      BY <1>1, <1>3, <2>6, <2>10, <3>1
    <3> QED BY <3>3, <3>5, <3>6, <3>7
  <2>15. t.url = next /\ t.asked = asked /\ t.ids = ids /\ t.end = end
    BY <2>1
  <2>16. end \in {"going", "done"}
    BY <2>5
  <2>17. t \in [url : Nat, asked : Seq(Nat), ids : Seq(Ids), end : {"going", "done"}]
    <3> HIDE DEF Ids
    <3> QED BY <1>4, <2>1, <2>4, <2>10, <2>16
  <2>18. t \in Faithful(items, cap)
    BY <2>11, <2>13, <2>14, <2>15, <2>17 DEF Faithful, U, n
  <2> QED BY <2>14, <2>15, <2>18 DEF t
<1> QED BY <1>12, <1>13

\* Every usable item once, in order, up to the cap, within a turn for each item
\* and one more.
LEMMA HonestIs ==
  ASSUME NEW items \in Seq(HonestItems), NEW cap \in Nat \ {0}, NEW server, NEW kind, NEW limit,
         Contract(server, kind, limit, items)
  PROVE  ListsEverything(items, cap, List(server, kind, limit, cap, Len(items) + 1))
<1> DEFINE n == Len(items)
           turns == n + 1
           V == Faithful(items, cap)
           states == States(server, kind, limit, cap, turns)
           s == states[turns]
           U == Usable(items)
<1>1. /\ n \in Nat /\ turns \in Nat /\ U \in SUBSET Nat
      /\ IsFiniteSet(U) /\ Cardinality(U) \in Nat
  BY HonestIsKnown, UsableIs
<1>2. /\ states[0] = [url |-> 1, asked |-> <<>>, ids |-> <<>>, end |-> "going"]
      /\ \A k \in 0..turns : states[k] \in V
      /\ \A k \in 1..turns :
           states[k] = IF states[k - 1].end # "going" THEN states[k - 1]
                       ELSE Turn(server, kind, limit, cap, states[k - 1])
  <2>1. \A t \in V : t.end = "going" => Turn(server, kind, limit, cap, t) \in V
    BY TurnFaithful
  <2>2. [url |-> 1, asked |-> <<>>, ids |-> <<>>, end |-> "going"] \in V
    BY FirstFaithful
  <2> HIDE DEF turns, V
  <2> QED BY <1>1, <2>1, <2>2, StatesAre
<1>3. List(server, kind, limit, cap, Len(items) + 1) = s
  BY DEF List
<1> HIDE DEF states
<1> DEFINE S == {k \in 0..turns : states[k].end = "going" => states[k].url >= k + 1}
<1>4. \A k \in 0..turns : k \in S
  <2>1. 0 \in S
    <3>1. states[0].url = 1 /\ 0 \in 0..turns
      BY <1>1, <1>2
    <3> QED BY <3>1
  <2>2. ASSUME NEW k \in 0..(turns - 1), k \in S PROVE k + 1 \in S
    <3>1. k + 1 \in 1..turns /\ k + 1 \in 0..turns /\ (k + 1) - 1 = k /\ k \in 0..turns
      BY <1>1
    <3>2. CASE states[k].end # "going"
      <4>1. states[k + 1] = states[k]
        BY <1>2, <3>1, <3>2
      <4> QED BY <3>1, <3>2, <4>1
    <3>3. CASE states[k].end = "going"
      <4>1. states[k + 1] = Turn(server, kind, limit, cap, states[k])
        BY <1>2, <3>1, <3>3
      <4>2. states[k + 1].end = "going" => states[k + 1].url > states[k].url
        BY <1>2, <3>1, <3>3, <4>1, TurnFaithful
      <4>3. states[k].url \in Nat /\ states[k + 1].url \in Nat /\ states[k].url >= k + 1
        BY <1>2, <2>2, <3>1, <3>3 DEF Faithful
      <4>4. states[k + 1].end = "going" => states[k + 1].url >= (k + 1) + 1
        BY <4>2, <4>3
      <4> QED BY <3>1, <4>4
    <3> QED BY <3>2, <3>3
  <2> HIDE DEF S, turns
  <2> QED BY <1>1, <2>1, <2>2, UpInduction
<1>5. turns \in 0..turns
  BY <1>1
<1>6. s \in V /\ (s.end = "going" => s.url >= turns + 1)
  BY <1>2, <1>4, <1>5
<1> HIDE DEF s
<1> DEFINE m == IF cap < Cardinality(U) THEN cap ELSE Cardinality(U)
<1>7. s.end = "done"
  <2>1. s.end = "going" => s.url \in 1..turns
    BY <1>6 DEF Faithful
  <2>2. s.end \in {"going", "done"}
    BY <1>6 DEF Faithful
  <2> HIDE DEF turns
  <2> QED BY <1>1, <1>6, <2>1, <2>2
<1>8. /\ s.ids \in Seq(Nat \X Nat) /\ Len(s.ids) = m /\ m \in Nat /\ m <= Cardinality(U)
      /\ \A k \in 1..m : PlaceOf(s.ids[k]) \in U /\ UpTo(U, PlaceOf(s.ids[k])) = k
  <2>1. /\ s.ids \in Seq(Nat \X Nat) /\ Len(s.ids) = m
        /\ \A k \in 1..Len(s.ids) : PlaceOf(s.ids[k]) \in U /\ UpTo(U, PlaceOf(s.ids[k])) = k
    BY <1>6, <1>7 DEF Faithful
  <2>2. m \in Nat /\ m <= Cardinality(U)
    BY <1>1
  <2> QED BY <2>1, <2>2
<1> DEFINE usable == Ascending(U)
           c == Cardinality(U)
<1>9. c \in Nat /\ usable \in [1..c -> U] /\ \A k \in 1..c : usable[k] \in U /\ UpTo(U, usable[k]) = k
  BY <1>1, AscendingIs
<1>10. Expected(items, cap) = SubSeq(usable, 1, IF cap < Len(usable) THEN cap ELSE Len(usable))
  BY DEF Expected, Usable
<1> HIDE DEF usable
<1>11. usable \in Seq(U) /\ Len(usable) = c
  <2> HIDE DEF c, U
  <2> QED BY <1>9
<1>12. Expected(items, cap) = SubSeq(usable, 1, m)
  BY <1>10, <1>11
<1> HIDE DEF m, c, U
<1>13. /\ SubSeq(usable, 1, m) \in Seq(U) /\ Len(SubSeq(usable, 1, m)) = m
       /\ \A k \in 1..m : SubSeq(usable, 1, m)[k] = usable[k]
  <2>1. \A k \in 1..m : usable[k] \in U
    BY <1>8, <1>9 DEF c
  <2>2. /\ SubSeq(usable, 1, m) \in Seq(U)
        /\ Len(SubSeq(usable, 1, m)) = IF 1 <= m THEN m - 1 + 1 ELSE 0
        /\ \A k \in 1..(m - 1 + 1) : SubSeq(usable, 1, m)[k] = usable[1 + k - 1]
    BY <1>8, <2>1, SubSeqProperties
  <2> QED BY <1>8, <2>2
<1>14. \A k \in 1..m : PlaceOf(s.ids[k]) = usable[k]
  <2>1. ASSUME NEW k \in 1..m PROVE PlaceOf(s.ids[k]) = usable[k]
    <3>1. usable[k] \in U /\ UpTo(U, usable[k]) = k
      BY <1>8, <1>9 DEF c
    <3>2. PlaceOf(s.ids[k]) \in U /\ UpTo(U, PlaceOf(s.ids[k])) = UpTo(U, usable[k])
      BY <1>8, <3>1
    <3>3. U \in SUBSET Nat /\ IsFiniteSet(U)
      BY <1>1 DEF U
    <3>4. \A i, j \in U : UpTo(U, i) = UpTo(U, j) => i = j
      <4> HIDE DEF U
      <4> QED BY <3>3, UpToOne
    <3> QED BY <3>1, <3>2, <3>4
  <2> QED BY <2>1
<1>15. [k \in DOMAIN s.ids |-> PlaceOf(s.ids[k])] = SubSeq(usable, 1, m)
  <2>1. DOMAIN s.ids = 1..m
    BY <1>8
  <2>2. SubSeq(usable, 1, m) = [k \in 1..m |-> SubSeq(usable, 1, m)[k]]
    BY <1>13
  <2> QED BY <1>13, <1>14, <2>1, <2>2
<1> QED BY <1>3, <1>7, <1>12, <1>15, Zenon DEF ListsEverything, PlaceOf

-----------------------------------------------------------------------------
\* The manifest is the ascending list of the leaves the walk does not pass over.
LEMMA ManifestIs ==
  ASSUME NEW tree \in Seq([kind : Kinds, parent : Nat])
  PROVE  LET parts == Manifest(tree)
             listed == {i \in DOMAIN tree : IsLeaf(tree, i) /\ ~PassedOver(tree, GetBody(tree), i)}
         IN \E n \in Nat :
              /\ parts \in [1..n -> [node : DOMAIN tree, outcome : {Outcome(tree, i) : i \in DOMAIN tree}]]
              /\ \A k \in 1..n : parts[k].node \in listed
              /\ \A k \in 1..n : parts[k].outcome = Outcome(tree, parts[k].node)
              /\ \A k, l \in 1..n : k < l => parts[k].node < parts[l].node
              /\ \A i \in listed : \E k \in 1..n : parts[k].node = i
<1> DEFINE listed == {i \in DOMAIN tree : IsLeaf(tree, i) /\ ~PassedOver(tree, GetBody(tree), i)}
           n == Cardinality(listed)
           s == Ascending(listed)
           parts == Manifest(tree)
<1>1. listed \subseteq DOMAIN tree /\ DOMAIN tree = 1..Len(tree) /\ Len(tree) \in Nat
  OBVIOUS
<1>2. parts = [k \in DOMAIN s |-> [node |-> s[k], outcome |-> Outcome(tree, s[k])]]
  BY DEF Manifest
<1> HIDE DEF listed, parts
<1>3. listed \in SUBSET Nat /\ IsFiniteSet(listed)
  <2>1. IsFiniteSet(1..Len(tree))
    BY <1>1, FS_Interval
  <2>2. listed \in SUBSET (1..Len(tree))
    BY <1>1
  <2>3. IsFiniteSet(listed)
    BY <2>1, <2>2, FS_Subset
  <2> QED BY <1>1, <2>2, <2>3
<1>4. /\ n \in Nat /\ DOMAIN s = 1..n
      /\ \A k \in 1..n : s[k] \in listed
      /\ \A k, l \in 1..n : k < l => s[k] < s[l]
      /\ \A i \in listed : \E k \in 1..n : s[k] = i
  BY <1>3, AscendingIs
<1> HIDE DEF s, n
<1>5. \A k \in 1..n : parts[k].node = s[k] /\ parts[k].outcome = Outcome(tree, s[k])
  BY <1>2, <1>4
<1>6. parts \in [1..n -> [node : DOMAIN tree, outcome : {Outcome(tree, i) : i \in DOMAIN tree}]]
  <2> DEFINE told == [node : DOMAIN tree, outcome : {Outcome(tree, i) : i \in DOMAIN tree}]
  <2>1. ASSUME NEW k \in 1..n PROVE [node |-> s[k], outcome |-> Outcome(tree, s[k])] \in told
    BY <1>1, <1>4
  <2> HIDE DEF told
  <2>2. parts \in [1..n -> told]
    BY <1>2, <1>4, <2>1
  <2> QED BY <2>2 DEF told
<1>7. /\ \A k \in 1..n : parts[k].node \in listed
      /\ \A k \in 1..n : parts[k].outcome = Outcome(tree, parts[k].node)
      /\ \A k, l \in 1..n : k < l => parts[k].node < parts[l].node
      /\ \A i \in listed : \E k \in 1..n : parts[k].node = i
  BY <1>4, <1>5
<1> QED BY <1>4, <1>6, <1>7 DEF listed, parts

LEMMA ListedIs ==
  ASSUME NEW tree \in Seq([kind : Kinds, parent : Nat])
  PROVE  EveryPartListed(tree)
<1> DEFINE parts == Manifest(tree)
           main == GetBody(tree)
           listed == {i \in DOMAIN tree : IsLeaf(tree, i) /\ ~PassedOver(tree, main, i)}
<1>1. PICK n \in Nat :
        /\ DOMAIN parts = 1..n
        /\ \A k \in 1..n : parts[k].node \in listed
        /\ \A k, l \in 1..n : k < l => parts[k].node < parts[l].node
        /\ \A i \in listed : \E k \in 1..n : parts[k].node = i
  BY ManifestIs
<1>2. ASSUME NEW i \in DOMAIN tree, IsLeaf(tree, i), i # main
      PROVE  \/ \E k \in DOMAIN parts : parts[k].node = i
             \/ IsText(tree[i].kind) /\ i # 1 /\ tree[tree[i].parent].kind = "alternative"
  <2>1. CASE i \in listed
    BY <1>1, <2>1
  <2>2. CASE i \notin listed
    BY <1>2, <2>2 DEF PassedOver
  <2> QED BY <2>1, <2>2
<1>3. ASSUME NEW k \in DOMAIN parts PROVE parts[k].node # main /\ Extract(tree, k - 1) = parts[k].node
  <2>1. parts[k].node # main
    BY <1>1 DEF PassedOver
  <2>2. k - 1 + 1 = k
    BY <1>1
  <2> QED BY <2>1, <2>2 DEF Extract
<1> HIDE DEF parts, main, listed
<1>4. \A k, l \in DOMAIN parts : k < l => parts[k].node < parts[l].node
  BY <1>1
<1> QED BY <1>2, <1>3, <1>4 DEF EveryPartListed, parts, main

LEMMA MentionedIs ==
  ASSUME NEW tree \in Seq([kind : Kinds, parent : Nat]),
         NEW converts \in [{i \in DOMAIN tree : tree[i].kind = "pdf"} -> {"works", "empty", "fails"}]
  PROVE  EveryPartMentioned(tree, converts)
<1> DEFINE parts == Manifest(tree)
           main == GetBody(tree)
           places == {k \in DOMAIN parts : Told(parts[k], converts)}
           told == Keep(parts, places)
           m == Cardinality(places)
           Section(part) == IF part.outcome # "job" THEN <<"skipped", part.node>>
                            ELSE IF converts[part.node] = "fails" THEN <<"skipped", part.node>>
                            ELSE <<"text", part.node>>
           first == IF main = 0 THEN <<>> ELSE << <<"text", main>> >>
           rest == [k \in DOMAIN told |-> Section(told[k])]
<1>1. PICK n \in Nat : DOMAIN parts = 1..n
  BY ManifestIs
<1>2. EmlSections(tree, converts) = first \o rest
  BY DEF EmlSections
<1>3. places \in SUBSET Nat /\ IsFiniteSet(places)
  <2>1. places \in SUBSET (1..n) /\ IsFiniteSet(1..n)
    BY <1>1, FS_Interval
  <2> QED BY <2>1, FS_Subset
<1> HIDE DEF parts, places
<1> DEFINE s == Ascending(places)
<1>4. m \in Nat /\ \A i \in places : \E k \in 1..m : s[k] = i
  BY <1>3, AscendingIs
<1>5. told = [k \in 1..m |-> parts[s[k]]]
  BY DEF Keep
<1> HIDE DEF s, m, told
<1>6. rest = [k \in 1..m |-> Section(parts[s[k]])]
  BY <1>4, <1>5
<1>7. \A k \in 1..m : rest[k][2] = parts[s[k]].node
  BY <1>6
<1>8. first \in Seq({<<"text", main>>}) /\ Len(first) \in Nat
  <2>1. CASE main = 0
    BY <2>1
  <2>2. CASE main # 0
    <3>1. first = << <<"text", main>> >>
      BY <2>2
    <3> DEFINE section == <<"text", main>>
    <3>2. first = <<section>>
      BY <3>1
    <3> HIDE DEF first, section
    <3>3. <<section>> \in Seq({section}) /\ Len(<<section>>) = 1
      OBVIOUS
    <3> QED BY <3>2, <3>3 DEF section
  <2> QED BY <2>1, <2>2
<1> HIDE DEF first, Section
<1>9. rest \in Seq({Section(parts[s[k]]) : k \in 1..m}) /\ Len(rest) = m
  <2> DEFINE S == {Section(parts[s[k]]) : k \in 1..m}
  <2>1. rest \in [1..m -> S]
    BY <1>6
  <2> HIDE DEF S, rest
  <2>2. rest \in Seq(S) /\ Len(rest) = m
    BY <1>4, <2>1
  <2> QED BY <2>2 DEF S
<1> HIDE DEF rest
<1>10. ASSUME NEW k \in 1..m
       PROVE  Len(first) + k \in DOMAIN (first \o rest) /\ (first \o rest)[Len(first) + k] = rest[k]
  BY <1>4, <1>8, <1>9
<1>11. ASSUME NEW i \in places
       PROVE  \E t \in DOMAIN (first \o rest) : (first \o rest)[t][2] = parts[i].node
  <2>1. PICK k \in 1..m : s[k] = i
    BY <1>4
  <2>2. rest[k][2] = parts[i].node
    BY <1>7, <2>1
  <2> QED BY <1>10, <2>2
<1>12. ASSUME NEW k \in DOMAIN parts, ~Told(parts[k], converts)
       PROVE  parts[k].outcome = "inline" \/ (parts[k].outcome = "job" /\ converts[parts[k].node] = "empty")
  BY <1>12 DEF Told
<1>13. \A k \in DOMAIN parts : k \in places <=> Told(parts[k], converts)
  BY DEF places
<1> QED BY <1>2, <1>11, <1>12, <1>13 DEF EveryPartMentioned, parts

-----------------------------------------------------------------------------
LEMMA DivIs ==
  ASSUME NEW a \in Nat, NEW d \in Nat \ {0}
  PROVE  a \div d \in Nat /\ d * (a \div d) <= a /\ a < d * (a \div d) + d
OBVIOUS

LEMMA MulMono ==
  ASSUME NEW d \in Nat, NEW p \in Nat, NEW q \in Nat, p <= q
  PROVE  d * p \in Nat /\ d * q \in Nat /\ d * p <= d * q
<1>1. PICK e \in Nat : q = p + e
  <2>1. q - p \in Nat /\ q = p + (q - p)
    OBVIOUS
  <2> QED BY <2>1
<1>2. d * q = d * p + d * e
  BY <1>1
<1>3. d * e \in Nat /\ d * p \in Nat
  BY <1>1
<1> QED BY <1>2, <1>3

LEMMA DivMono ==
  ASSUME NEW a \in Nat, NEW b \in Nat, NEW d \in Nat \ {0}, a <= b
  PROVE  a \div d <= b \div d
<1> DEFINE p == b \div d
           q == a \div d
<1>1. p \in Nat /\ q \in Nat /\ d * q <= a /\ b < d * p + d
  BY DivIs
<1> HIDE DEF p, q
<1> SUFFICES ASSUME p + 1 <= q PROVE FALSE
  BY <1>1 DEF p, q
<1>2. d * (p + 1) <= d * q /\ d * (p + 1) \in Nat /\ d * q \in Nat
  BY <1>1, MulMono
<1>3. d * (p + 1) = d * p + d
  BY <1>1
<1>4. d * p \in Nat
  BY <1>1
<1> QED BY <1>1, <1>2, <1>3, <1>4

-----------------------------------------------------------------------------
(* Readings.                                                               *)

Leaf == [key : {"score", "other"}, value : Nat]

\* The sums Total goes through, of readings.
Sums(seq) == CHOOSE f : f = [k \in 0..Len(seq) |-> IF k = 0 THEN 0 ELSE f[k - 1] + seq[k].value]

LEMMA SumsIs ==
  ASSUME NEW seq \in Seq(Leaf)
  PROVE  /\ Sums(seq)[0] = 0
         /\ \A k \in 1..Len(seq) : Sums(seq)[k] = Sums(seq)[k - 1] + seq[k].value
         /\ \A k \in 0..Len(seq) : Sums(seq)[k] \in Nat
<1> DEFINE n == Len(seq)
           Step(f) == [k \in 0..n |-> IF k = 0 THEN 0 ELSE f[k - 1] + seq[k].value]
           step == [p \in (1..n) \X Nat |-> p[2] + seq[p[1]].value]
           sum == Sums(seq)
<1>1. n \in Nat /\ \A k \in 1..n : seq[k].value \in Nat
  <2>1. \A k \in 1..n : seq[k] \in Leaf
    OBVIOUS
  <2> QED BY <2>1 DEF Leaf
<1> HIDE DEF n
<1>2. \E f \in [0..n -> Nat] : f = Step(f)
  <2>1. step \in Steps(n, Nat) /\ \A k \in 1..n, s \in Nat : step[<<k, s>>] = s + seq[k].value
    <3>1. \A q \in (1..n) \X Nat : q[2] + seq[q[1]].value \in Nat
      BY <1>1
    <3> QED BY <3>1 DEF Steps
  <2> HIDE DEF step
  <2>2. PICK f : Recursion(f, n, Nat, 0, step)
    BY <1>1, <2>1, RecursionExists
  <2>3. f \in [0..n -> Nat] /\ f[0] = 0 /\ \A k \in 1..n : f[k] = step[<<k, f[k - 1]>>]
    BY <2>2 DEF Recursion
  <2>4. ASSUME NEW k \in 0..n PROVE f[k] = IF k = 0 THEN 0 ELSE f[k - 1] + seq[k].value
    <3>1. CASE k = 0
      BY <2>3, <3>1
    <3>2. CASE k # 0
      <4>1. k \in 1..n /\ k - 1 \in 0..n
        BY <1>1, <3>2
      <4> QED BY <2>1, <2>3, <3>2, <4>1
    <3> QED BY <3>1, <3>2
  <2>5. f = Step(f)
    BY <2>3, <2>4
  <2> QED BY <2>3, <2>5
<1>3. sum = CHOOSE f : f = Step(f)
  BY DEF Sums, n
<1>4. sum = Step(sum)
  <2> HIDE DEF Step, sum
  <2> QED BY <1>2, <1>3, Zenon
<1> HIDE DEF sum
<1>5. \A k \in 0..n : sum[k] = IF k = 0 THEN 0 ELSE sum[k - 1] + seq[k].value
  BY <1>4
<1>6. sum[0] = 0 /\ \A k \in 1..n : sum[k] = sum[k - 1] + seq[k].value
  <2>1. 0 \in 0..n /\ \A k \in 1..n : k \in 0..n /\ k # 0
    BY <1>1
  <2> QED BY <1>5, <2>1
<1> DEFINE S == {k \in 0..n : sum[k] \in Nat}
<1>7. \A k \in 0..n : k \in S
  <2>1. 0 \in S
    BY <1>1, <1>6
  <2>2. ASSUME NEW k \in 0..(n - 1), k \in S PROVE k + 1 \in S
    <3>1. k + 1 \in 1..n /\ k + 1 \in 0..n /\ (k + 1) - 1 = k
      BY <1>1
    <3>2. sum[k + 1] = sum[k] + seq[k + 1].value
      BY <1>6, <3>1
    <3>3. sum[k] \in Nat /\ seq[k + 1].value \in Nat
      BY <1>1, <2>2, <3>1
    <3> QED BY <3>1, <3>2, <3>3
  <2> HIDE DEF S
  <2> QED BY <1>1, <2>1, <2>2, UpInduction
<1> QED BY <1>6, <1>7 DEF sum, n

LEMMA SumsMono ==
  ASSUME NEW seq \in Seq(Leaf), NEW other \in Seq(Leaf), Len(seq) = Len(other),
         \A k \in 1..Len(seq) : seq[k].value <= other[k].value
  PROVE  Sums(seq)[Len(seq)] <= Sums(other)[Len(seq)]
<1> DEFINE n == Len(seq)
           S == {k \in 0..n : Sums(seq)[k] <= Sums(other)[k]}
<1>1. n \in Nat /\ \A k \in 1..n : seq[k].value \in Nat /\ other[k].value \in Nat
  <2>1. \A k \in 1..n : seq[k] \in Leaf /\ other[k] \in Leaf
    OBVIOUS
  <2> QED BY <2>1 DEF Leaf
<1>2. 0 \in S
  BY SumsIs
<1>3. ASSUME NEW k \in 0..(n - 1), k \in S PROVE k + 1 \in S
  <2>1. k + 1 \in 1..n /\ k \in 0..n /\ k + 1 \in 0..n /\ (k + 1) - 1 = k
    BY <1>1
  <2>2. Sums(seq)[k + 1] = Sums(seq)[k] + seq[k + 1].value
    BY <2>1, SumsIs
  <2>3. Sums(other)[k + 1] = Sums(other)[k] + other[k + 1].value
    BY <2>1, SumsIs
  <2>4. Sums(seq)[k] \in Nat /\ Sums(other)[k] \in Nat
    BY <2>1, SumsIs
  <2> QED BY <1>1, <1>3, <2>1, <2>2, <2>3, <2>4
<1>4. n \in S
  <2> HIDE DEF S, n
  <2>1. \A k \in 0..n : k \in S
    BY <1>1, <1>2, <1>3, UpInduction
  <2> QED BY <1>1, <2>1
<1> QED BY <1>4

LEMMA KeepIs ==
  ASSUME NEW V, NEW seq \in Seq(V), NEW places \in SUBSET DOMAIN seq
  PROVE  /\ IsFiniteSet(places) /\ Cardinality(places) \in Nat
         /\ Ascending(places) \in [1..Cardinality(places) -> places]
         /\ Keep(seq, places) \in Seq(V)
         /\ Len(Keep(seq, places)) = Cardinality(places)
         /\ \A k \in 1..Cardinality(places) : Keep(seq, places)[k] = seq[Ascending(places)[k]]
<1>1. DOMAIN seq = 1..Len(seq) /\ Len(seq) \in Nat
  OBVIOUS
<1>2. IsFiniteSet(places)
  <2>1. IsFiniteSet(1..Len(seq))
    BY <1>1, FS_Interval
  <2> QED BY <1>1, <2>1, FS_Subset
<1>3. places \in SUBSET Nat
  BY <1>1
<1> DEFINE n == Cardinality(places)
           s == Ascending(places)
<1>4. n \in Nat /\ s \in [1..n -> places] /\ \A k \in 1..n : s[k] \in places
  BY <1>2, <1>3, AscendingIs
<1> HIDE DEF n, s
<1>5. Keep(seq, places) = [k \in 1..n |-> seq[s[k]]]
  BY DEF Keep, n, s
<1>6. \A k \in 1..n : seq[s[k]] \in V
  BY <1>1, <1>4
<1>7. Keep(seq, places) \in Seq(V) /\ Len(Keep(seq, places)) = n
  BY <1>4, <1>5, <1>6
<1>8. \A k \in 1..n : Keep(seq, places)[k] = seq[s[k]]
  BY <1>5
<1> QED BY <1>2, <1>4, <1>7, <1>8 DEF n, s

LEMMA ConfidenceIs ==
  ASSUME NEW leaves
  PROVE  LET readings == Keep(leaves, {i \in DOMAIN leaves : IsReading(leaves[i])})
         IN /\ Confidence(leaves).known = (readings # <<>>)
            /\ Confidence(leaves).score =
                 IF readings = <<>> THEN 0
                 ELSE (Full * (Sums(readings)[Len(readings)]
                               + 10 * Cardinality({i \in DOMAIN readings : readings[i].value >= 8})))
                      \div (20 * Len(readings))
BY DEF Confidence, Total, Sums, Count

\* Surer readings give no less confidence.
LEMMA ConfidenceMono ==
  ASSUME NEW leaves \in Seq(Leaf), NEW better \in Seq(Leaf), Len(leaves) = Len(better),
         \A i \in DOMAIN leaves :
            \/ leaves[i] = better[i]
            \/ leaves[i].key = better[i].key /\ better[i].value \in leaves[i].value..10
  PROVE  /\ Confidence(leaves).known = Confidence(better).known
         /\ Confidence(leaves).known \in BOOLEAN
         /\ Confidence(leaves).score \in Nat /\ Confidence(better).score \in Nat
         /\ Confidence(leaves).score <= Confidence(better).score
<1> DEFINE places == {i \in DOMAIN leaves : IsReading(leaves[i])}
           readings == Keep(leaves, places)
           surer == Keep(better, places)
           n == Cardinality(places)
           s == Ascending(places)
<1>1. \A i \in DOMAIN leaves : leaves[i] \in Leaf /\ better[i] \in Leaf
  OBVIOUS
<1>2. /\ DOMAIN leaves = DOMAIN better
      /\ \A i \in DOMAIN leaves : leaves[i].value <= better[i].value /\ (IsReading(leaves[i]) <=> IsReading(better[i]))
  <2>1. DOMAIN leaves = DOMAIN better
    OBVIOUS
  <2>2. ASSUME NEW i \in DOMAIN leaves
        PROVE  leaves[i].value <= better[i].value /\ (IsReading(leaves[i]) <=> IsReading(better[i]))
    <3>1. leaves[i].value \in Nat /\ better[i].value \in Nat
      BY <1>1 DEF Leaf
    <3>2. CASE leaves[i] = better[i]
      BY <3>1, <3>2
    <3>3. CASE leaves[i].key = better[i].key /\ better[i].value \in leaves[i].value..10
      <4>1. leaves[i].value <= better[i].value /\ better[i].value <= 10
        BY <3>1, <3>3
      <4>2. leaves[i].value \in 0..10 /\ better[i].value \in 0..10
        <5> DEFINE a == leaves[i].value
                   b == better[i].value
        <5>1. a \in Nat /\ b \in Nat /\ a <= b /\ b <= 10
          BY <3>1, <4>1
        <5> HIDE DEF a, b
        <5>2. a \in 0..10 /\ b \in 0..10
          BY <5>1
        <5> QED BY <5>2 DEF a, b
      <4> QED BY <3>3, <4>1, <4>2 DEF IsReading
    <3> QED BY <3>2, <3>3
  <2> QED BY <2>1, <2>2
<1>3. places = {i \in DOMAIN better : IsReading(better[i])} /\ places \in SUBSET DOMAIN leaves
  BY <1>2
<1> HIDE DEF places
<1>4. /\ n \in Nat /\ s \in [1..n -> places]
      /\ readings \in Seq(Leaf) /\ Len(readings) = n /\ \A k \in 1..n : readings[k] = leaves[s[k]]
  BY <1>3, KeepIs
<1>5. surer \in Seq(Leaf) /\ Len(surer) = n /\ \A k \in 1..n : surer[k] = better[s[k]]
  BY <1>2, <1>3, KeepIs
<1> DEFINE Reliable(seq) == {i \in DOMAIN seq : seq[i].value >= 8}
           Sum(seq) == Sums(seq)[Len(seq)]
           Scored(seq) == IF seq = <<>> THEN 0
                          ELSE (Full * (Sum(seq) + 10 * Cardinality(Reliable(seq)))) \div (20 * Len(seq))
<1>6. /\ Confidence(leaves).known = (readings # <<>>) /\ Confidence(leaves).score = Scored(readings)
      /\ Confidence(better).known = (surer # <<>>) /\ Confidence(better).score = Scored(surer)
  <2>1. Confidence(leaves).known = (readings # <<>>) /\ Confidence(leaves).score = Scored(readings)
    BY ConfidenceIs DEF places
  <2>2. Confidence(better).known = (surer # <<>>) /\ Confidence(better).score = Scored(surer)
    BY <1>3, ConfidenceIs
  <2> QED BY <2>1, <2>2
<1> HIDE DEF readings, surer, n, s
<1>7. (readings = <<>> <=> n = 0) /\ (surer = <<>> <=> n = 0)
  BY <1>4, <1>5
<1>8. \A k \in 1..n : readings[k].value <= surer[k].value /\ readings[k].value \in Nat /\ surer[k].value \in Nat
  <2>1. \A k \in 1..n : s[k] \in DOMAIN leaves
    BY <1>3, <1>4
  <2>2. \A k \in 1..n : readings[k] \in Leaf /\ surer[k] \in Leaf
    BY <1>4, <1>5
  <2>3. \A k \in 1..n : readings[k].value \in Nat /\ surer[k].value \in Nat
    BY <2>2 DEF Leaf
  <2> QED BY <1>2, <1>4, <1>5, <2>1, <2>3
<1>9. Sum(readings) \in Nat /\ Sum(surer) \in Nat /\ Sum(readings) <= Sum(surer)
  <2>1. Sum(readings) \in Nat /\ Sum(surer) \in Nat
    BY <1>4, <1>5, SumsIs
  <2>2. Sum(readings) <= Sum(surer)
    BY <1>4, <1>5, <1>8, SumsMono
  <2> QED BY <2>1, <2>2
<1>10. /\ Cardinality(Reliable(readings)) \in Nat /\ Cardinality(Reliable(surer)) \in Nat
       /\ Cardinality(Reliable(readings)) <= Cardinality(Reliable(surer))
  <2>1. Reliable(readings) \subseteq 1..n /\ Reliable(surer) \subseteq 1..n
    BY <1>4, <1>5
  <2>2. Reliable(readings) \subseteq Reliable(surer)
    <3>1. DOMAIN readings = 1..n /\ DOMAIN surer = 1..n
      BY <1>4, <1>5
    <3> QED BY <1>8, <3>1
  <2>3. IsFiniteSet(1..n)
    BY <1>4, FS_Interval
  <2> HIDE DEF Reliable
  <2> QED BY <2>1, <2>2, <2>3, FS_Subset, FS_CardinalityType
<1> HIDE DEF Sum, Reliable
<1>11. CASE n = 0
  BY <1>6, <1>7, <1>11
<1>12. CASE n # 0
  <2> DEFINE a == Full * (Sum(readings) + 10 * Cardinality(Reliable(readings)))
             b == Full * (Sum(surer) + 10 * Cardinality(Reliable(surer)))
             d == 20 * n
  <2>1. a \in Nat /\ b \in Nat /\ a <= b /\ d \in Nat \ {0}
    <3> DEFINE x == Sum(readings)
               y == Sum(surer)
               z == Cardinality(Reliable(readings))
               w == Cardinality(Reliable(surer))
    <3>1. x \in Nat /\ y \in Nat /\ z \in Nat /\ w \in Nat /\ x <= y /\ z <= w /\ n \in Nat /\ n # 0
      BY <1>4, <1>9, <1>10, <1>12
    <3> HIDE DEF x, y, z, w
    <3>2. x + 10 * z \in Nat /\ y + 10 * w \in Nat /\ x + 10 * z <= y + 10 * w /\ 20 * n \in Nat \ {0}
      BY <3>1
    <3>3. /\ Full * (x + 10 * z) \in Nat /\ Full * (y + 10 * w) \in Nat
          /\ Full * (x + 10 * z) <= Full * (y + 10 * w)
      BY <3>2 DEF Full
    <3> QED BY <3>2, <3>3 DEF x, y, z, w
  <2>2. Scored(readings) = a \div d /\ Scored(surer) = b \div d
    BY <1>4, <1>5, <1>7, <1>12
  <2> HIDE DEF a, b, d, Scored
  <2>3. a \div d \in Nat /\ b \div d \in Nat /\ a \div d <= b \div d
    BY <2>1, DivIs, DivMono
  <2> QED BY <1>6, <1>7, <2>2, <2>3
<1> QED BY <1>11, <1>12

-----------------------------------------------------------------------------
(* Blocks.                                                                 *)

Block == [label : {"table", "formula", "text"}, ordered : BOOLEAN, content : BOOLEAN]

LEMMA ShareIs ==
  ASSUME NEW part \in Nat, NEW more \in Nat, NEW whole \in Nat, part <= more
  PROVE  Share(part, whole) \in Nat /\ Share(more, whole) \in Nat /\ Share(part, whole) <= Share(more, whole)
<1>1. CASE whole = 0
  BY <1>1 DEF Share
<1>2. CASE whole # 0
  <2> DEFINE a == Full * part
             b == Full * more
  <2>1. a \in Nat /\ b \in Nat /\ a <= b
    BY DEF Full
  <2>2. Share(part, whole) = a \div whole /\ Share(more, whole) = b \div whole
    BY <1>2 DEF Share
  <2> HIDE DEF a, b
  <2> QED BY <1>2, <2>1, <2>2, DivIs, DivMono
<1> QED BY <1>1, <1>2

StructureOf(n, tables, full, formulas, ordered) ==
  (40 * (IF n > 0 THEN Full ELSE 0)
   + 25 * Share(ordered, n)
   + 20 * (IF tables = 0 THEN Full ELSE Share(full, tables))
   + 15 * (IF 10 * Share(formulas, n) >= Full THEN 0 ELSE Full - 10 * Share(formulas, n))) \div 100

Places(blocks, which) ==
  {i \in DOMAIN blocks : CASE which = "table" -> blocks[i].label = "table"
                          [] which = "full" -> blocks[i].label = "table" /\ blocks[i].content
                          [] which = "formula" -> blocks[i].label = "formula"
                          [] OTHER -> blocks[i].ordered}

LEMMA StructureIs ==
  ASSUME NEW blocks
  PROVE  Structure(blocks) = StructureOf(Len(blocks), Cardinality(Places(blocks, "table")),
                                         Cardinality(Places(blocks, "full")), Cardinality(Places(blocks, "formula")),
                                         Cardinality(Places(blocks, "ordered")))
<1>1. /\ Places(blocks, "table") = {i \in DOMAIN blocks : blocks[i].label = "table"}
      /\ Places(blocks, "full") = {i \in DOMAIN blocks : blocks[i].label = "table" /\ blocks[i].content}
      /\ Places(blocks, "formula") = {i \in DOMAIN blocks : blocks[i].label = "formula"}
      /\ Places(blocks, "ordered") = {i \in DOMAIN blocks : blocks[i].ordered}
  BY DEF Places
<1> QED BY <1>1, ZenonT(60) DEF Structure, StructureOf, Count

LEMMA StructureOfMono ==
  ASSUME NEW n \in Nat, NEW tables \in Nat, NEW full \in Nat, NEW fuller \in Nat, full <= fuller,
         NEW formulas \in Nat, NEW fewer \in Nat, fewer <= formulas,
         NEW ordered \in Nat, NEW more \in Nat, ordered <= more
  PROVE  /\ StructureOf(n, tables, full, formulas, ordered) \in Nat
         /\ StructureOf(n, tables, fuller, fewer, more) \in Nat
         /\ StructureOf(n, tables, full, formulas, ordered) <= StructureOf(n, tables, fuller, fewer, more)
<1> DEFINE blocksThere == IF n > 0 THEN Full ELSE 0
           t == IF tables = 0 THEN Full ELSE Share(full, tables)
           u == IF tables = 0 THEN Full ELSE Share(fuller, tables)
           Clear(share) == IF 10 * share >= Full THEN 0 ELSE Full - 10 * share
           c == Clear(Share(formulas, n))
           d == Clear(Share(fewer, n))
           o == Share(ordered, n)
           p == Share(more, n)
           a == 40 * blocksThere + 25 * o + 20 * t + 15 * c
           b == 40 * blocksThere + 25 * p + 20 * u + 15 * d
<1>1. blocksThere \in Nat /\ Full \in Nat
  BY DEF Full
<1>2. t \in Nat /\ u \in Nat /\ t <= u
  BY <1>1, ShareIs
<1>3. o \in Nat /\ p \in Nat /\ o <= p
  BY ShareIs
<1>4. c \in Nat /\ d \in Nat /\ c <= d
  <2>1. Share(fewer, n) \in Nat /\ Share(formulas, n) \in Nat /\ Share(fewer, n) <= Share(formulas, n)
    BY ShareIs
  <2> QED BY <1>1, <2>1
<1>5. /\ StructureOf(n, tables, full, formulas, ordered) = a \div 100
      /\ StructureOf(n, tables, fuller, fewer, more) = b \div 100
  BY DEF StructureOf
<1> HIDE DEF t, u, c, d, o, p, blocksThere
<1>6. a \in Nat /\ b \in Nat /\ a <= b
  BY <1>1, <1>2, <1>3, <1>4
<1> HIDE DEF a, b
<1>7. 100 \in Nat \ {0}
  OBVIOUS
<1> QED BY <1>5, <1>6, <1>7, DivIs, DivMono

LEMMA StructureMono ==
  ASSUME NEW blocks \in Seq(Block), NEW better \in Seq(Block), Len(blocks) = Len(better),
         \A i \in DOMAIN blocks :
            /\ blocks[i].ordered => better[i].ordered
            /\ blocks[i].content => better[i].content
            /\ \/ blocks[i].label = better[i].label
               \/ blocks[i].label = "formula" /\ better[i].label = "text"
  PROVE  /\ Structure(blocks) \in Nat /\ Structure(better) \in Nat
         /\ Structure(blocks) <= Structure(better)
<1> DEFINE n == Len(blocks)
<1>1. n \in Nat /\ DOMAIN blocks = 1..n /\ DOMAIN better = 1..n
  OBVIOUS
<1>2. \A which : Places(blocks, which) \in SUBSET (1..n) /\ Places(better, which) \in SUBSET (1..n)
  BY <1>1 DEF Places
<1>3. \A S \in SUBSET (1..n) : IsFiniteSet(S) /\ Cardinality(S) \in Nat
  <2>1. IsFiniteSet(1..n)
    BY <1>1, FS_Interval
  <2> QED BY <2>1, FS_Subset, FS_CardinalityType
<1>4. /\ Places(blocks, "table") = Places(better, "table")
      /\ Places(blocks, "full") \subseteq Places(better, "full")
      /\ Places(better, "formula") \subseteq Places(blocks, "formula")
      /\ Places(blocks, "ordered") \subseteq Places(better, "ordered")
  <2>1. \A i \in 1..n : /\ blocks[i].label = "table" <=> better[i].label = "table"
                        /\ better[i].label = "formula" => blocks[i].label = "formula"
    BY <1>1
  <2> QED BY <1>1, <2>1 DEF Places
<1>5. \A S, T \in SUBSET (1..n) : S \subseteq T => Cardinality(S) <= Cardinality(T)
  BY <1>3, FS_Subset
<1>6. /\ Cardinality(Places(blocks, "full")) <= Cardinality(Places(better, "full"))
      /\ Cardinality(Places(better, "formula")) <= Cardinality(Places(blocks, "formula"))
      /\ Cardinality(Places(blocks, "ordered")) <= Cardinality(Places(better, "ordered"))
  BY <1>2, <1>4, <1>5
<1>7. \A which : Cardinality(Places(blocks, which)) \in Nat /\ Cardinality(Places(better, which)) \in Nat
  BY <1>2, <1>3
<1> QED BY <1>1, <1>4, <1>6, <1>7, StructureIs, StructureOfMono

-----------------------------------------------------------------------------
\* An improvement of any document gives no lower a score.
LEMMA ScoreMono ==
  ASSUME NEW doc, NEW better, doc.readings \in Seq(Leaf), better.readings \in Seq(Leaf),
         doc.blocks \in Seq(Block), better.blocks \in Seq(Block),
         doc.text \in 0..10 \cup {NoText}, better.text \in 0..10 \cup {NoText}
  PROVE  BetterNeverScoresLess(doc, better)
<1> SUFFICES ASSUME Improves(doc, better) PROVE Score(doc) <= Score(better)
  BY DEF BetterNeverScoresLess
<1> DEFINE c == Confidence(doc.readings).score
           d == Confidence(better.readings).score
           known == Confidence(doc.readings).known
           s == Structure(doc.blocks)
           t == Structure(better.blocks)
<1>1. /\ Confidence(better.readings).known = known /\ known \in BOOLEAN
      /\ c \in Nat /\ d \in Nat /\ c <= d
  <2>1. /\ Len(doc.readings) = Len(better.readings)
        /\ \A i \in DOMAIN doc.readings :
              \/ doc.readings[i] = better.readings[i]
              \/ /\ doc.readings[i].key = better.readings[i].key
                 /\ better.readings[i].value \in doc.readings[i].value..10
    BY DEF Improves
  <2> QED BY <2>1, ConfidenceMono
<1>2. s \in Nat /\ t \in Nat /\ s <= t
  <2>1. /\ Len(doc.blocks) = Len(better.blocks)
        /\ \A i \in DOMAIN doc.blocks :
             /\ doc.blocks[i].ordered => better.blocks[i].ordered
             /\ doc.blocks[i].content => better.blocks[i].content
             /\ \/ doc.blocks[i].label = better.blocks[i].label
                \/ doc.blocks[i].label = "formula" /\ better.blocks[i].label = "text"
    BY DEF Improves
  <2> QED BY <2>1, StructureMono
<1>3. /\ doc.text = NoText <=> better.text = NoText
      /\ doc.text # NoText => doc.text \in 0..10 /\ better.text \in 0..10 /\ doc.text <= better.text
  BY DEF Improves, NoText
<1> DEFINE Sum(conf, struct, text) == (IF known THEN 5 * conf ELSE 0) + 3 * struct
                                      + (IF text = NoText THEN 0 ELSE 2 * (Full \div 10) * text)
           weights == (IF known THEN 5 ELSE 0) + 3 + (IF doc.text = NoText THEN 0 ELSE 2)
           a == Sum(c, s, doc.text)
           b == Sum(d, t, better.text)
<1>4. Score(doc) = a \div weights
  BY Zenon DEF Score
<1>5. Score(better) = b \div weights
  BY <1>1, <1>3, Zenon DEF Score
<1> HIDE DEF c, d, known, s, t
<1>6. weights \in Nat \ {0}
  BY <1>1
<1>7. a \in Nat /\ b \in Nat /\ a <= b
  <2>1. 2 * (Full \div 10) = 2000
    BY DEF Full
  <2> DEFINE e == IF known THEN 5 * c ELSE 0
             f == IF known THEN 5 * d ELSE 0
             g == IF doc.text = NoText THEN 0 ELSE 2 * (Full \div 10) * doc.text
             h == IF better.text = NoText THEN 0 ELSE 2 * (Full \div 10) * better.text
  <2>2. e \in Nat /\ f \in Nat /\ e <= f
    BY <1>1
  <2>3. g \in Nat /\ h \in Nat /\ g <= h
    <3>1. CASE doc.text = NoText
      <4>1. g = 0 /\ h = 0
        BY <1>3, <3>1
      <4> QED BY <4>1
    <3>2. CASE doc.text # NoText
      <4> DEFINE x == doc.text
                 y == better.text
      <4>1. x \in Nat /\ y \in Nat /\ x <= y
        BY <1>3, <3>2
      <4>2. g = 2000 * x /\ h = 2000 * y
        BY <1>3, <2>1, <3>2
      <4> HIDE DEF x, y, g, h
      <4> QED BY <4>1, <4>2
    <3> QED BY <3>1, <3>2
  <2>4. a = e + 3 * s + g /\ b = f + 3 * t + h
    OBVIOUS
  <2> HIDE DEF a, b, e, f, g, h
  <2> QED BY <1>2, <2>2, <2>3, <2>4
<1> HIDE DEF a, b, weights
<1> QED BY <1>4, <1>5, <1>6, <1>7, DivMono

-----------------------------------------------------------------------------
\* finditer's matches stand at places of the pattern, a length apart at least.
LEMMA MatchesIs ==
  ASSUME NEW n \in Nat, NEW places \in SUBSET (1..n), NEW length \in Nat
  PROVE  /\ Matches(places, length, n) \subseteq places
         /\ \A s, t \in Matches(places, length, n) : s < t => s + length <= t
<1> DEFINE Grow(S, i) == IF i \in places /\ \A start \in S : start + length <= i THEN S \cup {i} ELSE S
           Step(f) == [i \in 0..n |-> IF i = 0 THEN {} ELSE Grow(f[i - 1], i)]
           found == CHOOSE f : f = Step(f)
           V == SUBSET (1..n)
           step == [p \in (1..n) \X V |-> Grow(p[2], p[1])]
<1>1. \E f : f = Step(f)
  <2>1. step \in [(1..n) \X V -> V] /\ {} \in V
    OBVIOUS
  <2>1a. \A k \in 1..n, S \in V : step[<<k, S>>] = Grow(S, k)
    OBVIOUS
  <2> HIDE DEF step, V
  <2>2. PICK f \in [0..n -> V] : f[0] = {} /\ \A k \in 1..n : f[k] = step[<<k, f[k - 1]>>]
    <3>1. step \in Steps(n, V)
      BY <2>1 DEF Steps
    <3>2. \E f : Recursion(f, n, V, {}, step)
      BY <2>1, <3>1, RecursionExists
    <3> QED BY <3>2 DEF Recursion
  <2>3. \A k \in 1..n : f[k] = Grow(f[k - 1], k)
    <3>1. \A k \in 1..n : f[k - 1] \in V
      OBVIOUS
    <3> HIDE DEF Grow
    <3> QED BY <2>1a, <2>2, <3>1
  <2>4. \A k \in 0..n : f[k] = Step(f)[k]
    <3> HIDE DEF Grow
    <3> QED BY <2>2, <2>3
  <2>5. f = Step(f)
    BY <2>4
  <2> QED BY <2>5
<1>2. found = Step(found)
  <2> HIDE DEF Step
  <2> QED BY <1>1, Zenon
<1>3. Matches(places, length, n) = found[n]
  BY DEF Matches
<1> HIDE DEF found, Grow
<1>4. found[0] = {} /\ \A k \in 1..n : found[k] = Grow(found[k - 1], k)
  <2>1. \A k \in 0..n : found[k] = IF k = 0 THEN {} ELSE Grow(found[k - 1], k)
    BY <1>2
  <2>2. 0 \in 0..n /\ \A k \in 1..n : k \in 0..n /\ k # 0
    OBVIOUS
  <2> QED BY <2>1, <2>2
<1> DEFINE S == {k \in 0..n : /\ found[k] \subseteq places
                              /\ \A s \in found[k] : s <= k
                              /\ \A s, t \in found[k] : s < t => s + length <= t}
<1>5. 0 \in S
  BY <1>4
<1>6. ASSUME NEW k \in 0..(n - 1), k \in S PROVE k + 1 \in S
  <2>1. found[k + 1] = Grow(found[k], k + 1)
    <3>1. k + 1 \in 1..n /\ (k + 1) - 1 = k
      OBVIOUS
    <3> QED BY <1>4, <3>1
  <2>2. /\ found[k] \subseteq places
        /\ \A s \in found[k] : s \in Nat /\ s <= k
        /\ \A s, t \in found[k] : s < t => s + length <= t
    <3>1. /\ found[k] \subseteq places
          /\ \A s \in found[k] : s <= k
          /\ \A s, t \in found[k] : s < t => s + length <= t
      BY <1>6
    <3>2. \A s \in places : s \in Nat
      OBVIOUS
    <3> QED BY <3>1, <3>2
  <2>3. CASE (k + 1) \in places /\ \A start \in found[k] : start + length <= k + 1
    <3>1. found[k + 1] = found[k] \cup {k + 1}
      BY <2>1, <2>3 DEF Grow
    <3>2. found[k + 1] \subseteq places /\ \A s \in found[k + 1] : s \in Nat /\ s <= k + 1
      BY <2>2, <2>3, <3>1
    <3>3. ASSUME NEW s \in found[k + 1], NEW t \in found[k + 1], s < t PROVE s + length <= t
      <4>1. CASE t = k + 1
        BY <2>2, <2>3, <3>1, <3>3, <4>1
      <4>2. CASE t \in found[k]
        <5>1. s # k + 1
          BY <2>2, <3>3, <4>2
        <5> QED BY <2>2, <3>1, <3>3, <4>2, <5>1
      <4> QED BY <3>1, <4>1, <4>2
    <3>4. k + 1 \in 0..n
      OBVIOUS
    <3> QED BY <3>2, <3>3, <3>4
  <2>4. CASE ~((k + 1) \in places /\ \A start \in found[k] : start + length <= k + 1)
    <3>1. found[k + 1] = found[k]
      BY <2>1, <2>4 DEF Grow
    <3>2. k + 1 \in 0..n /\ \A s \in found[k] : s <= k + 1
      BY <2>2
    <3> QED BY <2>2, <3>1, <3>2
  <2> QED BY <2>3, <2>4
<1>7. n \in S
  <2> HIDE DEF S
  <2>1. \A k \in 0..n : k \in S
    BY <1>5, <1>6, UpInduction
  <2> QED BY <2>1
<1> QED BY <1>3, <1>7

\* A set of spans that do not overlap.
Apart(spans) == \A s, t \in spans : s # t => ~Overlap(s, t)

\* The spans of one pattern.
SpansOf(n, spans) == /\ spans \in SUBSET ((1..n) \X (1..(n + 4)))
                     /\ \A s \in spans : s[1] \in Nat /\ s[2] \in Nat /\ s[1] <= s[2]
                     /\ Apart(spans)

LEMMA SpansApart ==
  ASSUME NEW n \in Nat, NEW places \in SUBSET (1..n), NEW length \in 1..4
  PROVE  SpansOf(n, Spans(Matches(places, length, n), length))
<1> DEFINE M == Matches(places, length, n)
<1>1. M \subseteq places /\ \A s, t \in M : s < t => s + length <= t
  BY MatchesIs
<1> HIDE DEF M
<1>2. \A s \in M : s \in 1..n /\ s \in Nat /\ s + length - 1 \in 1..(n + 4) /\ s <= s + length - 1
  BY <1>1
<1>3. ASSUME NEW a \in Spans(M, length), NEW b \in Spans(M, length), a # b PROVE ~Overlap(a, b)
  <2>1. PICK s \in M : a = <<s, s + length - 1>>
    BY DEF Spans
  <2>2. PICK t \in M : b = <<t, t + length - 1>>
    BY DEF Spans
  <2>3. s < t \/ t < s
    BY <1>2, <1>3, <2>1, <2>2
  <2>4. s + length <= t \/ t + length <= s
    BY <1>1, <2>3
  <2> QED BY <1>2, <2>1, <2>2, <2>4 DEF Overlap
<1>4. Spans(M, length) \in SUBSET ((1..n) \X (1..(n + 4)))
  BY <1>2 DEF Spans
<1>5. \A s \in Spans(M, length) : s[1] \in Nat /\ s[2] \in Nat /\ s[1] <= s[2]
  BY <1>2 DEF Spans
<1>6. Apart(Spans(M, length))
  BY <1>3 DEF Apart
<1> QED BY <1>4, <1>5, <1>6 DEF SpansOf, M

LEMMA SomeSpans ==
  ASSUME NEW n \in Nat, NEW spans, SpansOf(n, spans), NEW some \in SUBSET spans
  PROVE  SpansOf(n, some)
BY DEF SpansOf, Apart

\* What is free does not overlap what is claimed, and is no part of it.
LEMMA FreeApart ==
  ASSUME NEW n \in Nat, NEW spans, NEW claimed, SpansOf(n, spans), SpansOf(n, claimed),
         NEW some \in SUBSET Free(spans, claimed)
  PROVE  /\ SpansOf(n, claimed \cup some)
         /\ claimed \cap some = {}
<1>1. some \subseteq spans /\ \A s \in some, c \in claimed : ~Overlap(s, c) /\ ~Overlap(c, s)
  BY DEF Free, Overlap
<1>2. \A s \in spans : Overlap(s, s)
  BY DEF Overlap, SpansOf
<1>3. claimed \cap some = {}
  BY <1>1, <1>2
<1>4. Apart(claimed \cup some)
  BY <1>1 DEF Apart, SpansOf
<1>5. /\ claimed \cup some \in SUBSET ((1..n) \X (1..(n + 4)))
      /\ \A s \in claimed \cup some : s[1] \in Nat /\ s[2] \in Nat /\ s[1] <= s[2]
  BY <1>1 DEF SpansOf
<1> QED BY <1>3, <1>4, <1>5 DEF SpansOf

LEMMA SpansFinite ==
  ASSUME NEW n \in Nat, NEW spans, SpansOf(n, spans)
  PROVE  IsFiniteSet(spans) /\ Cardinality(spans) \in Nat
<1>1. IsFiniteSet(1..n) /\ IsFiniteSet(1..(n + 4))
  <2>1. 1 \in Int /\ n \in Int /\ n + 4 \in Int
    OBVIOUS
  <2> QED BY <2>1, FS_Interval
<1>2. IsFiniteSet((1..n) \X (1..(n + 4)))
  BY <1>1, FS_Product
<1> DEFINE all == (1..n) \X (1..(n + 4))
<1>3. spans \in SUBSET all
  BY DEF SpansOf
<1> HIDE DEF all
<1>4. IsFiniteSet(spans)
  BY <1>2, <1>3, FS_Subset DEF all
<1> QED BY <1>4, FS_CardinalityType

LEMMA DisjointUnion ==
  ASSUME NEW A, NEW B, IsFiniteSet(A), IsFiniteSet(B), A \cap B = {}
  PROVE  Cardinality(A \cup B) = Cardinality(A) + Cardinality(B)
<1>1. Cardinality(A \cup B) = Cardinality(A) + Cardinality(B) - Cardinality(A \cap B)
  BY FS_Union
<1>2. Cardinality(A \cap B) = 0
  BY FS_EmptySet
<1>3. Cardinality(A) \in Nat /\ Cardinality(B) \in Nat
  BY FS_CardinalityType
<1> QED BY <1>1, <1>2, <1>3

\* No text of any length has digits in two of the dates that are counted.
LEMMA DatesIs ==
  ASSUME NEW text, Len(text.numbers) \in Nat
  PROVE  DatesCountedOnce(Dates(text))
<1> DEFINE n == Len(text.numbers)
           is(i, kinds) == text.numbers[i] \in kinds
           torn    == {s \in Spans(Matches({i \in 1..n : TornPrefixAt(text, i)}, 4, n), 4) : is(s[1], {"month", "day"})}
           four    == {s \in Free(Spans(Matches({i \in 1..n : TornFourAt(text, i)}, 4, n), 4), torn) :
                         is(s[1], {"month", "day"}) /\ is(s[1] + 1, {"month"})}
           compact == Free(Spans(Matches({i \in 1..n : CompactAt(text, i)}, 3, n), 3), torn \cup four)
           slash   == Free(Spans(Matches({i \in 1..n : SlashAt(text, i)}, 3, n), 3), torn \cup four \cup compact)
           counted == torn \cup four \cup compact \cup slash
<1>1. /\ Dates(text).counted = counted
      /\ Dates(text).total = Cardinality(torn) + Cardinality(four) + Cardinality(compact) + Cardinality(slash)
  BY Zenon DEF Dates
<1>2. \A places \in SUBSET (1..n) : /\ SpansOf(n, Spans(Matches(places, 4, n), 4))
                                    /\ SpansOf(n, Spans(Matches(places, 3, n), 3))
  <2>1. 3 \in 1..4 /\ 4 \in 1..4
    OBVIOUS
  <2> QED BY <2>1, SpansApart
<1> DEFINE tornAt == {i \in 1..n : TornPrefixAt(text, i)}
           fourAt == {i \in 1..n : TornFourAt(text, i)}
           compactAt == {i \in 1..n : CompactAt(text, i)}
           slashAt == {i \in 1..n : SlashAt(text, i)}
           tornSpans == Spans(Matches(tornAt, 4, n), 4)
           fourSpans == Spans(Matches(fourAt, 4, n), 4)
           compactSpans == Spans(Matches(compactAt, 3, n), 3)
           slashSpans == Spans(Matches(slashAt, 3, n), 3)
<1>3. /\ SpansOf(n, tornSpans) /\ SpansOf(n, fourSpans)
      /\ SpansOf(n, compactSpans) /\ SpansOf(n, slashSpans)
  <2>1. /\ tornAt \in SUBSET (1..n) /\ fourAt \in SUBSET (1..n)
        /\ compactAt \in SUBSET (1..n) /\ slashAt \in SUBSET (1..n)
    OBVIOUS
  <2> HIDE DEF tornAt, fourAt, compactAt, slashAt
  <2> QED BY <1>2, <2>1
<1>4. /\ torn \in SUBSET tornSpans
      /\ four \in SUBSET Free(fourSpans, torn)
      /\ compact = Free(compactSpans, torn \cup four)
      /\ slash = Free(slashSpans, torn \cup four \cup compact)
  <2> HIDE DEF tornAt, fourAt, compactAt, slashAt
  <2> QED BY Zenon DEF tornAt, fourAt, compactAt, slashAt
<1> HIDE DEF tornSpans, fourSpans, compactSpans, slashSpans, torn, four, compact, slash
<1>5. SpansOf(n, torn)
  BY <1>3, <1>4, SomeSpans
<1>6. SpansOf(n, torn \cup four) /\ torn \cap four = {}
  BY <1>3, <1>4, <1>5, FreeApart
<1>7. SpansOf(n, torn \cup four \cup compact) /\ (torn \cup four) \cap compact = {}
  <2> DEFINE claimed == torn \cup four
  <2>1. compact \in SUBSET Free(compactSpans, claimed)
    BY <1>4
  <2>2. SpansOf(n, claimed)
    BY <1>6
  <2> HIDE DEF claimed
  <2>3. SpansOf(n, claimed \cup compact) /\ claimed \cap compact = {}
    BY <1>3, <2>1, <2>2, FreeApart
  <2> QED BY <2>3 DEF claimed
<1>8. SpansOf(n, counted) /\ (torn \cup four \cup compact) \cap slash = {}
  <2> DEFINE claimed == torn \cup four \cup compact
  <2>1. slash \in SUBSET Free(slashSpans, claimed)
    BY <1>4
  <2>2. SpansOf(n, claimed)
    BY <1>7
  <2> HIDE DEF claimed
  <2>3. SpansOf(n, claimed \cup slash) /\ claimed \cap slash = {}
    BY <1>3, <2>1, <2>2, FreeApart
  <2> QED BY <2>3 DEF claimed
<1>9. \A some \in SUBSET counted : IsFiniteSet(some)
  BY <1>8, SomeSpans, SpansFinite
<1>10. /\ IsFiniteSet(torn) /\ IsFiniteSet(four) /\ IsFiniteSet(compact) /\ IsFiniteSet(slash)
       /\ IsFiniteSet(torn \cup four) /\ IsFiniteSet(torn \cup four \cup compact)
  BY <1>9
<1>11. Cardinality(counted) = Cardinality(torn) + Cardinality(four) + Cardinality(compact) + Cardinality(slash)
  <2>1. Cardinality(torn \cup four) = Cardinality(torn) + Cardinality(four)
    BY <1>6, <1>10, DisjointUnion
  <2>2. Cardinality(torn \cup four \cup compact) = Cardinality(torn \cup four) + Cardinality(compact)
    BY <1>7, <1>10, DisjointUnion
  <2>3. Cardinality(counted) = Cardinality(torn \cup four \cup compact) + Cardinality(slash)
    BY <1>8, <1>10, DisjointUnion
  <2> QED BY <2>1, <2>2, <2>3
<1>12. \A s, t \in counted : s # t => ~Overlap(s, t)
  BY <1>8 DEF SpansOf, Apart
<1> HIDE DEF counted
<1> QED BY <1>1, <1>11, <1>12 DEF DatesCountedOnce

-----------------------------------------------------------------------------
LEMMA FirstExists ==
  ASSUME NEW S \in SUBSET Nat, S # {}, NEW key \in [S -> Nat]
  PROVE  \E i \in S : \A j \in S : key[i] < key[j] \/ (key[i] = key[j] /\ i <= j)
<1> DEFINE keys == {key[i] : i \in S}
<1>1. PICK k \in keys : \A l \in keys : k <= l
  <2>1. keys \in SUBSET Nat /\ keys # {}
    OBVIOUS
  <2> HIDE DEF keys
  <2> QED BY <2>1, LeastExists
<1> DEFINE best == {i \in S : key[i] = k}
<1>2. PICK i \in best : \A j \in best : i <= j
  <2>1. best \in SUBSET Nat /\ best # {}
    BY <1>1
  <2> HIDE DEF best
  <2> QED BY <2>1, LeastExists
<1>3. i \in S /\ key[i] = k
  BY <1>2
<1>4. ASSUME NEW j \in S PROVE key[i] < key[j] \/ (key[i] = key[j] /\ i <= j)
  <2>1. k <= key[j] /\ key[j] \in Nat /\ k \in Nat
    BY <1>1
  <2>2. CASE key[j] = k
    BY <1>2, <1>3, <2>2
  <2> QED BY <1>3, <2>1, <2>2
<1> QED BY <1>3, <1>4

JobType == [status : {"failed", "pending", "finished"}, fallback : BOOLEAN, duration : Nat, grade : 0..3]

LEMMA FastestIs ==
  ASSUME NEW n \in Nat, NEW jobs \in [1..n -> JobType]
  PROVE  /\ Fastest(jobs) = 0 <=> Contenders(jobs) = {}
         /\ Fastest(jobs) # 0 => /\ Fastest(jobs) \in Contenders(jobs)
                                 /\ \A i \in Contenders(jobs) : jobs[Fastest(jobs)].duration <= jobs[i].duration
<1> DEFINE S == Contenders(jobs)
<1>1. S \in SUBSET Nat /\ 0 \notin S /\ \A i \in S : i \in 1..n /\ jobs[i].duration \in Nat
  BY DEF Contenders, JobType
<1>2. CASE S = {}
  BY <1>2 DEF Fastest
<1>3. CASE S # {}
  <2> DEFINE Ahead(i, j) == jobs[i].duration < jobs[j].duration \/ (jobs[i].duration = jobs[j].duration /\ i <= j)
  <2> DEFINE key == [i \in S |-> jobs[i].duration]
  <2>1. key \in [S -> Nat]
    BY <1>1
  <2>2. \E i \in S : \A j \in S : key[i] < key[j] \/ (key[i] = key[j] /\ i <= j)
    <3> HIDE DEF key, S
    <3> QED BY <1>1, <1>3, <2>1, FirstExists
  <2>3. \E i \in S : \A j \in S : Ahead(i, j)
    BY <2>2
  <2>4. Fastest(jobs) = CHOOSE i \in S : \A j \in S : Ahead(i, j)
    BY <1>3 DEF Fastest
  <2>5. Fastest(jobs) \in S /\ \A j \in S : Ahead(Fastest(jobs), j)
    <3> HIDE DEF S, Ahead
    <3> QED BY <2>3, <2>4
  <2> QED BY <1>1, <2>5
<1> QED BY <1>2, <1>3

LEMMA BestGradedIs ==
  ASSUME NEW n \in Nat, NEW jobs \in [1..n -> JobType]
  PROVE  BestGraded(jobs) # 0 => /\ BestGraded(jobs) \in Contenders(jobs)
                                 /\ \A i \in Contenders(jobs) : jobs[i].grade <= jobs[BestGraded(jobs)].grade
<1> DEFINE S == {i \in Contenders(jobs) : jobs[i].grade # 0}
<1>1. \A i \in Contenders(jobs) : i \in 1..n /\ jobs[i].grade \in 0..3
  BY DEF Contenders, JobType
<1>2. CASE S = {}
  BY <1>2 DEF BestGraded
<1>3. CASE S # {}
  <2> DEFINE Ahead(i, j) == jobs[i].grade > jobs[j].grade \/ (jobs[i].grade = jobs[j].grade /\ i <= j)
  <2> DEFINE key == [i \in S |-> 3 - jobs[i].grade]
  <2>1. key \in [S -> Nat] /\ S \in SUBSET Nat
    BY <1>1
  <2>2. \E i \in S : \A j \in S : key[i] < key[j] \/ (key[i] = key[j] /\ i <= j)
    <3> HIDE DEF key, S
    <3> QED BY <1>3, <2>1, FirstExists
  <2>3. \E i \in S : \A j \in S : Ahead(i, j)
    <3>1. PICK i \in S : \A j \in S : key[i] < key[j] \/ (key[i] = key[j] /\ i <= j)
      BY <2>2
    <3>2. ASSUME NEW j \in S PROVE Ahead(i, j)
      <4>1. jobs[i].grade \in 0..3 /\ jobs[j].grade \in 0..3
        BY <1>1
      <4>2. key[i] = 3 - jobs[i].grade /\ key[j] = 3 - jobs[j].grade
        OBVIOUS
      <4>3. key[i] < key[j] \/ (key[i] = key[j] /\ i <= j)
        BY <3>1
      <4> QED BY <4>1, <4>2, <4>3
    <3> QED BY <3>2
  <2>4. BestGraded(jobs) = CHOOSE i \in S : \A j \in S : Ahead(i, j)
    BY <1>3 DEF BestGraded
  <2>5. BestGraded(jobs) \in S /\ \A j \in S : Ahead(BestGraded(jobs), j)
    <3> HIDE DEF S, Ahead
    <3> QED BY <2>3, <2>4
  <2>6. ASSUME NEW i \in Contenders(jobs) PROVE jobs[i].grade <= jobs[BestGraded(jobs)].grade
    BY <1>1, <2>5
  <2> QED BY <2>5, <2>6
<1> QED BY <1>2, <1>3

\* Winners ran their engine whoever else did.
LEMMA ReportIsReal ==
  ASSUME NEW n \in Nat, NEW jobs \in [1..n -> JobType], NEW ran, ran = Contenders(jobs)
  PROVE  WinnersRanTheirEngine(jobs, ran, Report(jobs))
<1> DEFINE report == Report(jobs)
<1>1. report.fastest = Fastest(jobs) /\ report.best = BestGraded(jobs) /\ report.status = BenchmarkStatus(jobs)
  BY DEF Report
<1>2. ASSUME Contenders(jobs) # {} PROVE BenchmarkStatus(jobs) \in {"running", "completed"}
  <2> DEFINE all == {jobs[i].status : i \in DOMAIN jobs}
  <2>1. "finished" \in all
    BY <1>2 DEF Contenders
  <2>2. ~(all \subseteq {"pending"})
    BY <2>1
  <2> QED BY <2>1, <2>2 DEF BenchmarkStatus
<1> HIDE DEF report
<1> QED BY <1>1, <1>2, FastestIs, BestGradedIs DEF WinnersRanTheirEngine, report

LEMMA ComparedIsReal ==
  ASSUME NEW run, run.available \in BOOLEAN, run.suffix # "mail",
         run.variants \in Seq([engine : {"works", "fails", "waits"}, duration : Nat, grade : 0..3])
  PROVE  LET End(v) == IF v.engine = "waits" THEN "waits"
                       ELSE Converted([suffix |-> run.suffix, engine |-> v.engine, fallback |-> run.fallback],
                                      run.available)
             jobs == [i \in DOMAIN run.variants |->
                        JobOf(End(run.variants[i]), run.variants[i].duration, run.variants[i].grade)]
             ran == {i \in DOMAIN run.variants : run.available /\ run.variants[i].engine = "works"}
         IN WinnersRanTheirEngine(jobs, ran, Report(jobs))
<1> DEFINE End(v) == IF v.engine = "waits" THEN "waits"
                     ELSE Converted([suffix |-> run.suffix, engine |-> v.engine, fallback |-> run.fallback],
                                    run.available)
           n == Len(run.variants)
           jobs == [i \in DOMAIN run.variants |->
                      JobOf(End(run.variants[i]), run.variants[i].duration, run.variants[i].grade)]
           ran == {i \in DOMAIN run.variants : run.available /\ run.variants[i].engine = "works"}
<1>1. n \in Nat /\ DOMAIN run.variants = 1..n
      /\ \A i \in 1..n : /\ run.variants[i].engine \in {"works", "fails", "waits"}
                          /\ run.variants[i].duration \in Nat
                          /\ run.variants[i].grade \in 0..3
  <2> DEFINE V == [engine : {"works", "fails", "waits"}, duration : Nat, grade : 0..3]
  <2>1. run.variants \in Seq(V)
    OBVIOUS
  <2>2. n \in Nat /\ DOMAIN run.variants = 1..n /\ \A i \in 1..n : run.variants[i] \in V
    <3> HIDE DEF V
    <3> QED BY <2>1
  <2> QED BY <2>2
<1>2. ASSUME NEW i \in 1..n
      PROVE  /\ jobs[i] \in JobType
             /\ (jobs[i].status = "finished" /\ ~jobs[i].fallback) <=> (run.available /\ run.variants[i].engine = "works")
  <2>1. jobs[i] = JobOf(End(run.variants[i]), run.variants[i].duration, run.variants[i].grade)
    BY <1>1
  <2>2. CASE run.variants[i].engine = "waits"
    <3>1. End(run.variants[i]) = "waits"
      BY <2>2
    <3> QED BY <1>1, <2>1, <2>2, <3>1 DEF JobOf, JobType
  <2>3. CASE run.variants[i].engine # "waits"
    <3>1. /\ End(run.variants[i]) \in {"engine", "fallback", "fails"}
          /\ End(run.variants[i]) = "engine" <=> run.available /\ run.variants[i].engine = "works"
      BY <2>3 DEF Converted
    <3> QED BY <1>1, <2>1, <3>1 DEF JobOf, JobType
  <2> QED BY <2>2, <2>3
<1>3. jobs \in [1..n -> JobType]
  BY <1>1, <1>2
<1>4. ran = Contenders(jobs)
  <2> HIDE DEF jobs
  <2> QED BY <1>1, <1>2, <1>3 DEF Contenders
<1> HIDE DEF jobs, ran, n, End
<1>5. WinnersRanTheirEngine(jobs, ran, Report(jobs))
  BY <1>1, <1>3, <1>4, ReportIsReal
<1> QED BY <1>5 DEF jobs, ran, End

-----------------------------------------------------------------------------
(* The log.                                                                *)

\* The cap newest rows and those as old as the next one stay.
LEMMA PruneIs ==
  ASSUME NEW rows \in Seq(Nat), NEW cap \in Nat
  PROVE  PruneKeepsNewest(rows, cap, Prune(rows, cap))
<1> DEFINE D == DOMAIN rows
           Newer(i) == {j \in D : rows[j] > rows[i]}
           AsNew(i) == {j \in D : rows[j] >= rows[i]}
           at == {i \in D : Cardinality(Newer(i)) <= cap /\ Cardinality(AsNew(i)) > cap}
<1>1. D = 1..Len(rows) /\ Len(rows) \in Nat /\ IsFiniteSet(D) /\ \A i \in D : rows[i] \in Nat
  BY FS_Interval
<1>2. \A S \in SUBSET D : IsFiniteSet(S) /\ Cardinality(S) \in Nat
  BY <1>1, FS_Subset, FS_CardinalityType
<1>3. ASSUME Cardinality(D) > cap PROVE at # {}
  <2> DEFINE big == {i \in D : Cardinality(AsNew(i)) > cap}
             sizes == {Cardinality(AsNew(i)) : i \in big}
  <2>1. \A i \in D : AsNew(i) \in SUBSET D /\ Newer(i) \in SUBSET D
    OBVIOUS
  <2>2. big # {}
    <3>1. D # {}
      BY <1>1, <1>3, FS_EmptySet
    <3> DEFINE times == {rows[i] : i \in D}
    <3>2. times \in SUBSET Nat /\ times # {}
      BY <1>1, <3>1
    <3>3. PICK t \in times : \A u \in times : t <= u
      <4> HIDE DEF times
      <4> QED BY <3>2, LeastExists
    <3>4. PICK i \in D : rows[i] = t
      BY <3>3
    <3>5. AsNew(i) = D
      BY <1>1, <3>3, <3>4
    <3> QED BY <1>3, <3>5
  <2>3. PICK i \in big : \A j \in big : Cardinality(AsNew(i)) <= Cardinality(AsNew(j))
    <3>1. sizes \in SUBSET Nat /\ sizes # {}
      BY <1>2, <2>1, <2>2
    <3>2. PICK s \in sizes : \A r \in sizes : s <= r
      <4> HIDE DEF sizes
      <4> QED BY <3>1, LeastExists
    <3>3. PICK i \in big : s = Cardinality(AsNew(i))
      OBVIOUS
    <3>4. \A j \in big : Cardinality(AsNew(j)) \in sizes
      OBVIOUS
    <3> HIDE DEF sizes, big
    <3>5. \A j \in big : s <= Cardinality(AsNew(j))
      BY <3>2, <3>4
    <3> QED BY <3>3, <3>5
  <2>4. ASSUME Cardinality(Newer(i)) > cap PROVE FALSE
    <3>1. Newer(i) # {}
      <4>1. Cardinality({}) = 0 /\ ~(0 > cap)
        BY FS_EmptySet
      <4> HIDE DEF Newer
      <4> QED BY <2>4, <4>1
    <3> DEFINE times == {rows[j] : j \in Newer(i)}
    <3>2. times \in SUBSET Nat /\ times # {}
      BY <1>1, <3>1
    <3>3. PICK t \in times : \A u \in times : t <= u
      <4> HIDE DEF times
      <4> QED BY <3>2, LeastExists
    <3>4. PICK j \in Newer(i) : rows[j] = t
      BY <3>3
    <3>5. j \in D /\ i \in D /\ rows[i] < rows[j]
      BY <1>1, <3>4
    <3>6. Newer(i) \subseteq AsNew(j)
      BY <1>1, <3>3, <3>4
    <3>7. Cardinality(Newer(i)) <= Cardinality(AsNew(j))
      BY <1>2, <2>1, <3>5, <3>6, FS_Subset
    <3>8. j \in big
      BY <1>2, <2>1, <2>4, <3>5, <3>7
    <3>9. AsNew(j) \subseteq AsNew(i) /\ i \in AsNew(i) /\ i \notin AsNew(j)
      BY <1>1, <3>5
    <3>10. Cardinality(AsNew(j)) <= Cardinality(AsNew(i)) /\ Cardinality(AsNew(i)) # Cardinality(AsNew(j))
      BY <1>2, <2>1, <3>5, <3>9, FS_Subset
    <3>11. Cardinality(AsNew(i)) <= Cardinality(AsNew(j))
      BY <2>3, <3>8
    <3>12. Cardinality(AsNew(i)) \in Nat /\ Cardinality(AsNew(j)) \in Nat
      BY <1>2, <2>1, <3>5
    <3> HIDE DEF AsNew
    <3> QED BY <3>10, <3>11, <3>12
  <2>5. i \in at
    BY <1>2, <2>1, <2>3, <2>4
  <2> QED BY <2>5
<1>4. CASE cap = 0 \/ at = {}
  <2>1. Prune(rows, cap) = D
    BY <1>4 DEF Prune
  <2>2. cap > 0 => Cardinality(D) <= cap + 1
    <3>1. ASSUME cap > 0, Cardinality(D) > cap PROVE FALSE
      <4>1. at # {}
        BY <1>3, <3>1
      <4>2. cap # 0
        BY <3>1
      <4> HIDE DEF at
      <4> QED BY <1>4, <4>1, <4>2
    <3>2. Cardinality(D) \in Nat
      BY <1>2
    <3> QED BY <3>1, <3>2
  <2> QED BY <2>1, <2>2 DEF PruneKeepsNewest
<1>5. CASE cap # 0 /\ at # {}
  <2> DEFINE i == CHOOSE i \in at : TRUE
  <2>1. i \in at
    BY <1>5
  <2>2. Prune(rows, cap) = {j \in D : ~(rows[j] < rows[i])}
    BY <1>5 DEF Prune, Older
  <2> HIDE DEF i
  <2>3. i \in D /\ Cardinality(Newer(i)) <= cap /\ Cardinality(AsNew(i)) > cap
    BY <2>1
  <2>4. Prune(rows, cap) = AsNew(i)
    BY <1>1, <2>2, <2>3
  <2>5. ASSUME \A k, l \in D : k # l => rows[k] # rows[l] PROVE Cardinality(AsNew(i)) <= cap + 1
    <3>1. AsNew(i) = Newer(i) \cup {i} /\ i \notin Newer(i)
      BY <1>1, <2>3, <2>5
    <3>2. IsFiniteSet(Newer(i)) /\ Cardinality(Newer(i)) \in Nat
      BY <1>2
    <3>3. Cardinality(AsNew(i)) = Cardinality(Newer(i)) + 1
      BY <3>1, <3>2, FS_AddElement
    <3> QED BY <2>3, <3>2, <3>3
  <2>6. \A j \in AsNew(i), k \in D \ AsNew(i) : rows[k] < rows[j]
    BY <1>1, <2>3
  <2>7. Cardinality(AsNew(i)) >= cap
    BY <1>2, <2>3
  <2> QED BY <2>4, <2>5, <2>6, <2>7 DEF PruneKeepsNewest
<1> QED BY <1>4, <1>5

-----------------------------------------------------------------------------
(* Clients.                                                                *)

IsNamed(named, header, blank) == \A i : i \in named <=> i \in DOMAIN header /\ header[i] # blank

\* What the proxies append is never dropped as blank, so the outermost of them is
\* that many places from the right.
LEMMA HopIs ==
  ASSUME NEW Names, NEW blank, NEW written \in Seq(Names), NEW path \in Seq(Names), NEW n \in Nat, n > 0,
         Len(path) = n + 1, \A k \in DOMAIN path : path[k] # blank, NEW named,
         IsNamed(named, written \o SubSeq(path, 1, n), blank)
  PROVE  LET entries == Keep(written \o SubSeq(path, 1, n), named)
         IN entries # <<>> /\ Hop(entries, n) = path[1]
<1> DEFINE m == Len(written)
           header == written \o SubSeq(path, 1, n)
           entries == Keep(header, named)
<1>0. \A i : i \in named <=> i \in DOMAIN header /\ header[i] # blank
  BY DEF IsNamed
<1>1. /\ m \in Nat
      /\ \A k \in 1..n : path[k] \in Names /\ path[k] # blank
  OBVIOUS
<1>2. /\ SubSeq(path, 1, n) \in Seq(Names) /\ Len(SubSeq(path, 1, n)) = n
      /\ \A k \in 1..n : SubSeq(path, 1, n)[k] = path[k]
  <2>1. /\ SubSeq(path, 1, n) \in Seq(Names)
        /\ Len(SubSeq(path, 1, n)) = IF 1 <= n THEN n - 1 + 1 ELSE 0
        /\ \A k \in 1..(n - 1 + 1) : SubSeq(path, 1, n)[k] = path[1 + k - 1]
    BY <1>1, SubSeqProperties
  <2> QED BY <2>1
<1> HIDE DEF m
<1>3. /\ DOMAIN header = 1..(m + n)
      /\ \A k \in 1..n : header[m + k] = path[k]
  <2> DEFINE tail == SubSeq(path, 1, n)
  <2>1. tail \in Seq(Names) /\ Len(tail) = n /\ \A k \in 1..n : tail[k] = path[k]
    BY <1>2
  <2> HIDE DEF tail
  <2>2. /\ Len(written \o tail) = m + n /\ written \o tail \in Seq(Names)
        /\ \A k \in 1..n : (written \o tail)[m + k] = tail[k]
    BY <2>1 DEF m
  <2>3. DOMAIN (written \o tail) = 1..(m + n)
    BY <2>2
  <2> QED BY <2>1, <2>2, <2>3 DEF tail
<1>4. named \in SUBSET Nat /\ IsFiniteSet(named) /\ \A i \in named : i <= m + n
  <2>0. named \subseteq DOMAIN header
    BY <1>0
  <2>1. named \in SUBSET (1..(m + n)) /\ IsFiniteSet(1..(m + n))
    <3> HIDE DEF header
    <3>1. m + n \in Int
      BY <1>1
    <3>2. IsFiniteSet(1..(m + n))
      BY <3>1, FS_Interval
    <3> QED BY <1>3, <2>0, <3>2
  <2>2. IsFiniteSet(named)
    <3> HIDE DEF header
    <3> QED BY <2>1, FS_Subset
  <2>3. \A i \in named : i \in Nat /\ i <= m + n
    <3> HIDE DEF header
    <3> QED BY <1>1, <2>1
  <2> QED BY <2>2, <2>3
<1> HIDE DEF header
<1>5. \A k \in 1..n : m + k \in named
  <2>1. ASSUME NEW k \in 1..n PROVE m + k \in named
    <3>1. m + k \in 1..(m + n)
      BY <1>1
    <3>2. header[m + k] # blank
      BY <1>1, <1>3
    <3> QED BY <1>0, <1>3, <3>1, <3>2
  <2> QED BY <2>1
<1> DEFINE c == Cardinality(named)
           s == Ascending(named)
<1>6. /\ c \in Nat /\ DOMAIN s = 1..c /\ \A k \in 1..c : s[k] \in named /\ UpTo(named, s[k]) = k
      /\ \A i \in named : \E k \in 1..c : s[k] = i
  BY <1>4, AscendingIs
<1>7. c = UpTo(named, m + 1) + (n - 1)
  <2> DEFINE low == {j \in named : j <= m + 1}
             high == (m + 2)..(m + n)
  <2>1. named = low \cup high /\ low \cap high = {}
    <3>1. \A i \in named : i \in Nat /\ (i <= m + 1 \/ i \in high)
      BY <1>1, <1>4
    <3>2. ASSUME NEW i \in high PROVE i \in named /\ ~(i <= m + 1)
      <4>1. i - m \in 1..n /\ m + (i - m) = i
        BY <1>1
      <4>2. ~(i <= m + 1)
        BY <1>1
      <4> QED BY <1>5, <4>1, <4>2
    <3> HIDE DEF high
    <3> QED BY <3>1, <3>2
  <2>2. IsFiniteSet(low) /\ IsFiniteSet(high) /\ Cardinality(high) = n - 1
    <3>1. low \in SUBSET named
      OBVIOUS
    <3>2. IsFiniteSet(low)
      BY <1>4, <3>1, FS_Subset
    <3>3. IsFiniteSet(high) /\ Cardinality(high) = n - 1
      <4>1. m + 2 \in Int /\ m + n \in Int
        BY <1>1
      <4>2. IsFiniteSet(high) /\ Cardinality(high) = IF m + 2 > m + n THEN 0 ELSE (m + n) - (m + 2) + 1
        BY <4>1, FS_Interval
      <4> QED BY <1>1, <4>2
    <3> QED BY <3>2, <3>3
  <2>3. Cardinality(low) \in Nat
    BY <2>2, FS_CardinalityType
  <2> HIDE DEF low, high
  <2>4. Cardinality(low \cup high) = Cardinality(low) + Cardinality(high) - Cardinality(low \cap high)
    BY <2>2, FS_Union
  <2>5. Cardinality(low \cap high) = 0
    BY <2>1, FS_EmptySet
  <2>6. c = Cardinality(low) + (n - 1)
    BY <1>1, <2>1, <2>2, <2>3, <2>4, <2>5
  <2> QED BY <2>6 DEF UpTo, low
<1>8. m + 1 \in named /\ header[m + 1] = path[1]
  BY <1>1, <1>3, <1>5
<1>9. PICK k \in 1..c : s[k] = m + 1
  BY <1>6, <1>8
<1>10. k = c - n + 1 /\ n \in 1..c
  <2>1. UpTo(named, m + 1) = k /\ c = k + (n - 1) /\ c \in Nat
    BY <1>6, <1>7, <1>9
  <2> HIDE DEF c
  <2> QED BY <2>1
<1>11. entries = [l \in 1..c |-> header[s[l]]]
  BY DEF Keep
<1>12. entries[k] = path[1] /\ entries # <<>> /\ Len(entries) = c
  <2> HIDE DEF c, s, entries
  <2>1. entries[k] = path[1]
    BY <1>8, <1>9, <1>11
  <2>2. Len(entries) = c
    BY <1>6, <1>11
  <2> QED BY <1>10, <2>1, <2>2
<1> HIDE DEF entries, c, s
<1>13. Hop(entries, n) = path[1]
  BY <1>10, <1>12 DEF Hop
<1> QED BY <1>12, <1>13 DEF entries, header

LEMMA ClientIs ==
  ASSUME NEW Names, NEW written \in Seq(Names), NEW path \in Seq(Names), NEW n \in Nat, Len(path) = n + 1,
         \A k \in DOMAIN path : path[k] # Blank, NEW trusted, NEW realIp,
         path[n + 1] \in trusted => n > 0
  PROVE  LET header == written \o SubSeq(path, 1, n)
         IN ClientIsObserved(path[1], trusted, path[n + 1], ClientId(path[n + 1], trusted, header, realIp, n))
<1> DEFINE header == written \o SubSeq(path, 1, n)
           peer == path[n + 1]
           entries == Keep(header, {i \in DOMAIN header : header[i] # Blank})
           id == ClientId(peer, trusted, header, realIp, n)
<1>1. CASE peer \notin trusted
  BY <1>1, Zenon DEF ClientIsObserved, ClientId
<1>2. CASE peer \in trusted
  <2> DEFINE named == {i \in DOMAIN header : header[i] # Blank}
  <2>0. \A i : i \in named <=> i \in DOMAIN header /\ header[i] # Blank
    OBVIOUS
  <2>1. entries # <<>> /\ Hop(entries, n) = path[1]
    <3> HIDE DEF named
    <3>1. LET kept == Keep(header, named) IN kept # <<>> /\ Hop(kept, n) = path[1]
      <4>1. n > 0
        BY <1>2
      <4>2. IsNamed(named, header, Blank)
        BY <2>0, Zenon DEF IsNamed
      <4> QED BY <4>1, <4>2, HopIs
    <3> QED BY <3>1, Zenon DEF named
  <2>2. id = Hop(entries, n)
    BY <1>2, <2>1, Zenon DEF ClientId
  <2> QED BY <1>2, <2>1, <2>2, Zenon DEF ClientIsObserved
<1> QED BY <1>1, <1>2, Zenon

-----------------------------------------------------------------------------
(* Chunks of a PDF.                                                        *)

LEMMA ModIs ==
  ASSUME NEW n \in Nat, NEW size \in Nat \ {0}
  PROVE  (n % size = 0) <=> \E q \in Nat : n = size * q
<1> DEFINE d == n \div size
<1>1. d \in Nat /\ size * d <= n /\ n < size * d + size
  BY DivIs
<1>2. n % size = n - size * d
  OBVIOUS
<1>3. ASSUME n % size = 0 PROVE \E q \in Nat : n = size * q
  <2> HIDE DEF d
  <2>1. size * d \in Nat
    BY <1>1
  <2>2. n = size * d
    BY <1>2, <1>3, <2>1
  <2> QED BY <1>1, <2>2
<1> HIDE DEF d
<1>4. ASSUME NEW q \in Nat, n = size * q PROVE n % size = 0
  <2>1. size * d \in Nat /\ size * q \in Nat
    BY <1>1
  <2>2. \A a \in Nat : size * (a + 1) = size * a + size
    OBVIOUS
  <2>3. ~(q + 1 <= d)
    <3> SUFFICES ASSUME q + 1 <= d PROVE FALSE
      OBVIOUS
    <3>1. size * (q + 1) <= size * d
      BY <1>1, MulMono
    <3> QED BY <1>1, <1>4, <2>1, <2>2, <3>1
  <2>4. ~(d + 1 <= q)
    <3> SUFFICES ASSUME d + 1 <= q PROVE FALSE
      OBVIOUS
    <3>1. size * (d + 1) <= size * q
      BY <1>1, MulMono
    <3> QED BY <1>1, <1>4, <2>1, <2>2, <3>1
  <2>5. d = q
    BY <1>1, <2>3, <2>4
  <2> QED BY <1>2, <1>4, <2>1, <2>5
<1> QED BY <1>3, <1>4

\* Chunks follow each other without a gap.
LEMMA NextMultiple ==
  ASSUME NEW size \in Nat \ {0}, NEW c \in Nat, c % size = 0
  PROVE  /\ (c + size) % size = 0
         /\ \A n \in Nat : c < n /\ n % size = 0 => c + size <= n
<1>1. PICK q \in Nat : c = size * q
  BY ModIs
<1>2. c + size = size * (q + 1)
  BY <1>1
<1>3. (c + size) % size = 0
  <2>1. q + 1 \in Nat /\ c + size \in Nat
    OBVIOUS
  <2> QED BY <1>2, <2>1, ModIs
<1>4. ASSUME NEW n \in Nat, c < n, n % size = 0 PROVE c + size <= n
  <2>1. PICK p \in Nat : n = size * p
    BY <1>4, ModIs
  <2>2. ASSUME p <= q PROVE FALSE
    <3>1. size * p <= size * q
      BY <2>2, MulMono
    <3> QED BY <1>1, <1>4, <2>1, <3>1
  <2>3. q + 1 <= p
    BY <2>2
  <2>4. size * (q + 1) <= size * p
    BY <2>3, MulMono
  <2> QED BY <1>2, <2>1, <2>4
<1> QED BY <1>3, <1>4

\* The pages 1 to n, in order.
Run(n) == [k \in 1..n |-> k]

LEMMA RunGrows ==
  ASSUME NEW n \in Nat, NEW m \in Nat
  PROVE  /\ Run(n) \o [k \in 1..m |-> n + k] = Run(n + m)
         /\ Run(n) \in Seq(Nat) /\ [k \in 1..m |-> n + k] \in Seq(Nat)
<1> DEFINE a == Run(n)
           b == [k \in 1..m |-> n + k]
<1>1. a \in [1..n -> Nat] /\ b \in [1..m -> Nat]
  BY DEF Run
<1>2. a \in Seq(Nat) /\ b \in Seq(Nat) /\ Len(a) = n /\ Len(b) = m
  <2> HIDE DEF a, b
  <2> QED BY <1>1
<1>3. (\A k \in 1..n : a[k] = k) /\ (\A k \in 1..m : b[k] = n + k)
  BY DEF Run
<1> HIDE DEF a, b
<1>4. Joined(Nat, a, b, a \o b)
  BY <1>2, ConcatIs
<1>5. a \o b \in Seq(Nat) /\ Len(a \o b) = n + m /\ \A k \in 1..(n + m) : (a \o b)[k] = k
  BY <1>2, <1>3, <1>4 DEF Joined
<1>6. a \o b = [k \in 1..(n + m) |-> k]
  <2> DEFINE c == a \o b
  <2>1. c \in Seq(Nat) /\ Len(c) = n + m /\ \A k \in 1..(n + m) : c[k] = k
    BY <1>5
  <2> HIDE DEF c
  <2>2. DOMAIN c = 1..(n + m) /\ c = [k \in DOMAIN c |-> c[k]]
    BY <2>1
  <2>3. c = [k \in 1..(n + m) |-> k]
    BY <2>1, <2>2
  <2> QED BY <2>3 DEF c
<1> QED BY <1>2, <1>6 DEF a, b, Run

\* Whatever the chunks, the pages are predicted one by one.
LEMMA PredictedIs ==
  ASSUME NEW pages \in Nat, NEW size \in Nat \ {0}
  PROVE  Predicted(pages, size) = Run(pages)
<1> DEFINE Chunk(n) == [k \in 1..(ChunkEnd(n - 1, size, pages) - (n - 1)) |-> n - 1 + k]
           Grow(s, n) == IF n - 1 \in Chunks(pages, size) THEN s \o Chunk(n) ELSE s
           Step(f) == [n \in 0..pages |-> IF n = 0 THEN <<>> ELSE Grow(f[n - 1], n)]
           found == CHOOSE f : f = Step(f)
           V == Seq(Nat)
           step == [p \in (1..pages) \X V |-> Grow(p[2], p[1])]
<1>1. \A n \in 1..pages : ChunkEnd(n - 1, size, pages) - (n - 1) \in Nat /\ Chunk(n) \in V
  <2> SUFFICES ASSUME NEW n \in 1..pages
               PROVE  ChunkEnd(n - 1, size, pages) - (n - 1) \in Nat /\ Chunk(n) \in V
    OBVIOUS
  <2> DEFINE m == ChunkEnd(n - 1, size, pages) - (n - 1)
  <2>1. m \in Nat
    BY DEF ChunkEnd, FloorTo
  <2> HIDE DEF m
  <2>2. [k \in 1..m |-> n - 1 + k] \in [1..m -> Nat]
    BY <2>1
  <2> QED BY <2>1, <2>2 DEF m
<1> HIDE DEF Chunk
<1>2. \A n \in 1..pages, s \in V : Grow(s, n) \in V
  BY <1>1
<1>3. \E f : f = Step(f)
  <2>1. step \in [(1..pages) \X V -> V] /\ <<>> \in V
    <3> HIDE DEF Grow, V
    <3>1. step \in [(1..pages) \X V -> V]
      BY <1>2
    <3>2. <<>> \in V
      BY DEF V
    <3> QED BY <3>1, <3>2
  <2>2. \A k \in 1..pages, s \in V : step[<<k, s>>] = Grow(s, k)
    <3> HIDE DEF Grow, V
    <3> QED OBVIOUS
  <2> HIDE DEF step, V, Grow
  <2>3. PICK f \in [0..pages -> V] : f[0] = <<>> /\ \A k \in 1..pages : f[k] = step[<<k, f[k - 1]>>]
    <3>1. step \in Steps(pages, V)
      BY <2>1 DEF Steps
    <3>2. \E f : Recursion(f, pages, V, <<>>, step)
      BY <2>1, <3>1, RecursionExists
    <3> QED BY <3>2 DEF Recursion
  <2>4. \A k \in 1..pages : f[k] = Grow(f[k - 1], k)
    <3>1. \A k \in 1..pages : f[k - 1] \in V
      OBVIOUS
    <3> QED BY <2>2, <2>3, <3>1
  <2>5. \A k \in 0..pages : f[k] = Step(f)[k]
    BY <2>3, <2>4
  <2>6. f = Step(f)
    BY <2>5
  <2> QED BY <2>6
<1>4. found = Step(found)
  <2> HIDE DEF Step
  <2> QED BY <1>3, Zenon
<1>5. Predicted(pages, size) = found[pages]
  BY Zenon DEF Predicted, Chunk
<1> HIDE DEF found, Grow
<1>6. found[0] = <<>> /\ \A k \in 1..pages : found[k] = Grow(found[k - 1], k)
  <2>1. \A k \in 0..pages : found[k] = IF k = 0 THEN <<>> ELSE Grow(found[k - 1], k)
    BY <1>4
  <2>2. 0 \in 0..pages /\ \A k \in 1..pages : k \in 0..pages /\ k # 0
    OBVIOUS
  <2> QED BY <2>1, <2>2
<1> DEFINE Within(n, c) == /\ c \in 0..(n - 1) /\ c % size = 0 /\ n - 1 < c + size
                           /\ found[n] = Run(FloorTo(c + size, pages))
           S == {n \in 0..pages : IF n = 0 THEN found[n] = <<>> ELSE \E c \in Nat : Within(n, c)}
<1>7. 0 \in S
  BY <1>6
<1>8. ASSUME NEW n \in 0..(pages - 1), n \in S PROVE n + 1 \in S
  <2>1. found[n + 1] = Grow(found[n], n + 1)
    <3>1. n + 1 \in 1..pages /\ (n + 1) - 1 = n
      OBVIOUS
    <3> QED BY <1>6, <3>1
  <2>2. n + 1 \in 0..pages /\ n + 1 # 0 /\ (n + 1) - 1 = n /\ n \in Nat
    OBVIOUS
  <2>3. ASSUME n % size = 0, found[n] = Run(n) PROVE n + 1 \in S
    <3> DEFINE end == FloorTo(n + size, pages)
    <3>1. end \in Nat /\ end - n \in Nat /\ n + (end - n) = end
      BY DEF FloorTo
    <3>2. n \in Chunks(pages, size)
      BY <2>3 DEF Chunks
    <3>3. Chunk(n + 1) = [k \in 1..(end - n) |-> n + k]
      BY <2>2 DEF Chunk, ChunkEnd
    <3> HIDE DEF end
    <3>4. Run(n) \o Chunk(n + 1) = Run(end)
      <4> DEFINE m == end - n
      <4>1. m \in Nat /\ n + m = end /\ n \in Nat
        BY <2>2, <3>1
      <4>2. Chunk(n + 1) = [k \in 1..m |-> n + k]
        BY <3>3
      <4> HIDE DEF m
      <4>3. Run(n) \o [k \in 1..m |-> n + k] = Run(n + m)
        BY <4>1, RunGrows
      <4> QED BY <4>1, <4>2, <4>3
    <3>5. found[n + 1] = Run(end)
      BY <2>1, <2>2, <2>3, <3>2, <3>4 DEF Grow
    <3>6. Within(n + 1, n)
      BY <2>2, <2>3, <3>5 DEF end
    <3> HIDE DEF Within
    <3> QED BY <2>2, <3>6
  <2>4. CASE n = 0
    <3>1. 0 % size = 0
      OBVIOUS
    <3>2. Run(0) = <<>>
      BY DEF Run
    <3>3. found[0] = <<>>
      BY <1>6
    <3> HIDE DEF S
    <3> QED BY <2>3, <2>4, <3>1, <3>2, <3>3
  <2>5. CASE n # 0
    <3>1. PICK c \in Nat : Within(n, c)
      BY <1>8, <2>5
    <3>2. /\ (c + size) % size = 0
          /\ c < n /\ n % size = 0 => c + size <= n
      BY <2>2, <3>1, NextMultiple
    <3>3. CASE n % size = 0
      <4>1. c + size = n
        BY <2>2, <3>1, <3>2, <3>3
      <4>2. FloorTo(c + size, pages) = n
        BY <4>1 DEF FloorTo
      <4>3. found[n] = Run(n)
        BY <3>1, <4>2
      <4> HIDE DEF S
      <4> QED BY <2>3, <3>3, <4>3
    <3>4. CASE n % size # 0
      <4>1. c + size # n
        BY <3>2, <3>4
      <4>2. found[n + 1] = found[n]
        BY <2>1, <2>2, <3>4 DEF Grow, Chunks
      <4>3. Within(n + 1, c)
        BY <2>2, <3>1, <4>1, <4>2
      <4> HIDE DEF Within
      <4> QED BY <2>2, <4>3
    <3> QED BY <3>3, <3>4
  <2> QED BY <2>4, <2>5
<1>9. pages \in S
  <2>1. pages \in 0..pages
    OBVIOUS
  <2> HIDE DEF S
  <2> QED BY <1>7, <1>8, <2>1, UpInduction
<1>10. CASE pages = 0
  <2>1. Run(0) = <<>>
    BY DEF Run
  <2> QED BY <1>5, <1>6, <1>10, <2>1
<1>11. CASE pages # 0
  <2>1. PICK c \in Nat : Within(pages, c)
    BY <1>9, <1>11
  <2>2. FloorTo(c + size, pages) = pages
    BY <2>1 DEF FloorTo
  <2> QED BY <1>5, <2>1, <2>2
<1> QED BY <1>10, <1>11

\* Of the pages 1 to n, i are up to i.
LEMMA UpToRun ==
  ASSUME NEW n \in Nat, NEW i \in 1..n
  PROVE  UpTo(1..n, i) = i
<1>1. {j \in 1..n : j <= i} = 1..i
  OBVIOUS
<1>2. Cardinality(1..i) = i
  BY FS_Interval
<1> QED BY <1>1, <1>2 DEF UpTo

LEMMA CollectedIs ==
  ASSUME NEW pages \in Nat, NEW size \in Nat \ {0}, NEW payloads \in SUBSET (1..pages)
  PROVE  PagesOnceInOrder(pages, payloads, Collected(pages, size, payloads))
<1> DEFINE predicted == Predicted(pages, size)
           places == {k \in DOMAIN predicted : predicted[k] \in payloads}
           collected == Collected(pages, size, payloads)
           n == Cardinality(payloads)
           s == Ascending(payloads)
<1>1. predicted = [k \in 1..pages |-> k]
  BY PredictedIs DEF Run
<1>2. places = payloads
  BY <1>1
<1>3. collected = Keep(predicted, payloads)
  BY <1>2, Zenon DEF Collected
<1> HIDE DEF predicted, collected
<1>4. payloads \in SUBSET Nat /\ IsFiniteSet(payloads)
  <2>1. IsFiniteSet(1..pages)
    BY FS_Interval
  <2>2. IsFiniteSet(payloads)
    BY <2>1, FS_Subset
  <2>3. 1..pages \subseteq Nat
    OBVIOUS
  <2> QED BY <2>2, <2>3
<1>5. /\ n \in Nat
      /\ \A k \in 1..n : s[k] \in payloads /\ UpTo(payloads, s[k]) = k
      /\ \A k, l \in 1..n : k < l => s[k] < s[l]
      /\ \A i \in payloads : \E k \in 1..n : s[k] = i
  BY <1>4, AscendingIs
<1>6. collected = [k \in 1..n |-> predicted[s[k]]]
  BY <1>3 DEF Keep
<1> HIDE DEF s, n
<1>7. DOMAIN collected = 1..n /\ \A k \in 1..n : collected[k] = s[k]
  BY <1>1, <1>5, <1>6
<1>8. payloads = 1..pages => \A k \in 1..n : s[k] = k
  BY <1>5, UpToRun
<1>9. {collected[k] : k \in DOMAIN collected} = payloads
  <2>1. \A k \in DOMAIN collected : collected[k] \in payloads
    BY <1>5, <1>7
  <2>2. \A i \in payloads : \E k \in DOMAIN collected : collected[k] = i
    BY <1>5, <1>7
  <2> HIDE DEF collected
  <2> QED BY <2>1, <2>2, Zenon
<1>10. \A k, l \in DOMAIN collected : k < l => collected[k] < collected[l]
  BY <1>5, <1>7
<1>11. payloads = 1..pages => \A k \in DOMAIN collected : collected[k] = k
  BY <1>7, <1>8
<1> QED BY <1>9, <1>10, <1>11, Zenon DEF PagesOnceInOrder, collected

-----------------------------------------------------------------------------
(* The blocks of a page.                                                   *)

\* What is kept of a sequence has what stands at each of the places.
LEMMA KeepHas ==
  ASSUME NEW n \in Nat, NEW seq, DOMAIN seq = 1..n, NEW places \in SUBSET (1..n), NEW i \in places
  PROVE  \E k \in DOMAIN Keep(seq, places) : Keep(seq, places)[k] = seq[i]
<1> DEFINE m == Cardinality(places)
           s == Ascending(places)
<1>1. IsFiniteSet(places) /\ places \in SUBSET Nat
  <2>1. IsFiniteSet(1..n) /\ 1..n \subseteq Nat
    BY FS_Interval
  <2>2. IsFiniteSet(places)
    BY <2>1, FS_Subset
  <2> QED BY <2>1, <2>2
<1>2. \E k \in 1..m : s[k] = i
  BY <1>1, AscendingIs
<1>3. Keep(seq, places) = [k \in 1..m |-> seq[s[k]]]
  BY DEF Keep
<1> HIDE DEF m, s
<1> QED BY <1>2, <1>3

\* Blocks whose ids differ.
Blocks(blocks, n) ==
  /\ DOMAIN blocks = 1..n
  /\ \A i \in 1..n : blocks[i].order \in Nat /\ blocks[i].id \in Nat
  /\ \A i, j \in 1..n : i # j => blocks[i].id # blocks[j].id

\* Sorting loses no block.
LEMMA OrderedIs ==
  ASSUME NEW n \in Nat, NEW blocks, Blocks(blocks, n)
  PROVE  /\ DOMAIN Ordered(blocks) = 1..n
         /\ \A i \in 1..n : \E r \in 1..n : Ordered(blocks)[r] = blocks[i]
<1> DEFINE Before(j, i) == \/ blocks[j].order < blocks[i].order
                           \/ blocks[j].order = blocks[i].order /\ blocks[j].id < blocks[i].id
           Lower(i) == {j \in 1..n : Before(j, i)}
           r == [i \in 1..n |-> Rank(blocks, i)]
<1>1. /\ DOMAIN blocks = 1..n
      /\ \A i \in 1..n : blocks[i].order \in Nat /\ blocks[i].id \in Nat
      /\ \A i, j \in 1..n : i # j => blocks[i].id # blocks[j].id
  BY DEF Blocks
<1>2. \A i : Rank(blocks, i) = Cardinality(Lower(i)) + 1
  BY <1>1 DEF Rank
<1>3. /\ \A i \in 1..n : ~Before(i, i)
      /\ \A i, j, k \in 1..n : Before(i, j) /\ Before(j, k) => Before(i, k)
      /\ \A i, j \in 1..n : i # j => Before(i, j) \/ Before(j, i)
  BY <1>1
<1> HIDE DEF Before
<1>4. IsFiniteSet(1..n) /\ Cardinality(1..n) = n
  BY FS_Interval
<1>5. ASSUME NEW i \in 1..n
      PROVE  IsFiniteSet(Lower(i)) /\ Cardinality(Lower(i)) \in Nat /\ Cardinality(Lower(i)) < n
  <2>1. Lower(i) \in SUBSET (1..n) /\ i \notin Lower(i) /\ Lower(i) # 1..n
    BY <1>3
  <2> HIDE DEF Lower
  <2>2. IsFiniteSet(Lower(i)) /\ Cardinality(Lower(i)) \in Nat
    BY <1>4, <2>1, FS_Subset, FS_CardinalityType
  <2>3. Cardinality(Lower(i)) <= n /\ Cardinality(Lower(i)) # n
    BY <1>4, <2>1, FS_Subset
  <2> QED BY <2>2, <2>3
<1>6. ASSUME NEW i \in 1..n, NEW j \in 1..n, Before(i, j)
      PROVE  Cardinality(Lower(i)) < Cardinality(Lower(j))
  <2>1. Lower(i) \in SUBSET Lower(j) /\ i \in Lower(j) /\ i \notin Lower(i)
    BY <1>3, <1>6
  <2> HIDE DEF Lower
  <2>2. Cardinality(Lower(i)) <= Cardinality(Lower(j)) /\ Cardinality(Lower(i)) # Cardinality(Lower(j))
    BY <1>5, <2>1, FS_Subset
  <2> QED BY <1>5, <2>2
<1> HIDE DEF Lower
<1>7. r \in Injection(1..n, 1..n)
  <2>1. \A i \in 1..n : Rank(blocks, i) \in 1..n
    BY <1>2, <1>5
  <2>2. ASSUME NEW i \in 1..n, NEW j \in 1..n, i # j PROVE Rank(blocks, i) # Rank(blocks, j)
    <3>1. Before(i, j) \/ Before(j, i)
      BY <1>3, <2>2
    <3> QED BY <1>2, <1>5, <1>6, <3>1
  <2> QED BY <2>1, <2>2 DEF Injection, IsInjective
<1>8. r \in Surjection(1..n, 1..n)
  BY <1>4, <1>7, FS_Injection
<1>9. \A i, j \in 1..n : Rank(blocks, i) = Rank(blocks, j) => i = j
  BY <1>7 DEF Injection, IsInjective
<1>10. \A i \in 1..n : Rank(blocks, i) \in 1..n
  BY <1>7 DEF Injection
<1>11. ASSUME NEW i \in 1..n PROVE Ordered(blocks)[Rank(blocks, i)] = blocks[i]
  <2>1. (CHOOSE j \in 1..n : Rank(blocks, j) = Rank(blocks, i)) = i
    BY <1>9
  <2> QED BY <1>1, <1>10, <2>1 DEF Ordered
<1>12. DOMAIN Ordered(blocks) = 1..n
  BY <1>1 DEF Ordered
<1> QED BY <1>10, <1>11, <1>12

\* Pages in order, and what is shown of each.
Pages(ordered, n) == DOMAIN ordered = 1..n /\ \A p \in 1..n : \E m \in Nat : DOMAIN ordered[p] = 1..m
ShownAt(ordered, p) == {i \in DOMAIN ordered[p] : Renders(ordered[p][i]) /\ ~Repeats(ordered, p, i)}

\* The first of the equal headers, footers or numbers is shown.
LEMMA FirstIsShown ==
  ASSUME NEW n \in Nat, NEW ordered, Pages(ordered, n),
         NEW p \in 1..n, NEW i \in DOMAIN ordered[p], Renders(ordered[p][i]), i \notin ShownAt(ordered, p)
  PROVE  /\ ordered[p][i].label \in Boilerplate
         /\ \E q \in 1..p : \E j \in ShownAt(ordered, q) : /\ ordered[q][j].label \in Boilerplate
                                                          /\ ordered[q][j].text = ordered[p][i].text
<1> DEFINE Match(q, j) == /\ ordered[q][j].label \in Boilerplate
                          /\ Renders(ordered[q][j])
                          /\ ordered[q][j].text = ordered[p][i].text
           Q == {q \in 1..p : \E j \in DOMAIN ordered[q] : Match(q, j)}
<1>1. Repeats(ordered, p, i)
  BY DEF ShownAt
<1>2. /\ ordered[p][i].label \in Boilerplate
      /\ \E q \in 1..p : \E j \in DOMAIN ordered[q] : Match(q, j)
  BY <1>1 DEF Repeats
<1>3. \A q \in 1..p : \E m \in Nat : DOMAIN ordered[q] = 1..m
  BY DEF Pages
<1> HIDE DEF Match
<1>4. PICK q \in Q : \A x \in Q : q <= x
  <2>1. Q \in SUBSET Nat /\ Q # {}
    BY <1>2
  <2> HIDE DEF Q
  <2> QED BY <2>1, LeastExists
<1> DEFINE J == {j \in DOMAIN ordered[q] : Match(q, j)}
<1>5. PICK j \in J : \A x \in J : j <= x
  <2>1. J \in SUBSET Nat
    BY <1>3, <1>4
  <2>2. J # {}
    BY <1>4
  <2> HIDE DEF J
  <2> QED BY <2>1, <2>2, LeastExists
<1>6. q \in 1..p /\ j \in DOMAIN ordered[q] /\ Match(q, j)
  BY <1>4, <1>5
<1>7. ~Repeats(ordered, q, j)
  <2> SUFFICES ASSUME Repeats(ordered, q, j) PROVE FALSE
    OBVIOUS
  <2>0. PICK r \in 1..q : \E k \in DOMAIN ordered[r] :
          /\ r < q \/ k < j
          /\ ordered[r][k].label \in Boilerplate
          /\ Renders(ordered[r][k])
          /\ ordered[r][k].text = ordered[q][j].text
    BY DEF Repeats
  <2>1. PICK k \in DOMAIN ordered[r] :
          /\ r < q \/ k < j
          /\ ordered[r][k].label \in Boilerplate
          /\ Renders(ordered[r][k])
          /\ ordered[r][k].text = ordered[q][j].text
    BY <2>0
  <2>2. Match(r, k)
    BY <1>6, <2>1 DEF Match
  <2>3. r \in 1..p
    BY <1>6
  <2>4. r \in Q
    BY <2>2, <2>3
  <2>5. q <= r
    BY <1>4, <2>4
  <2>6. r = q /\ k < j
    BY <1>6, <2>1, <2>5
  <2>7. k \in J
    BY <2>2, <2>6
  <2>8. j <= k
    BY <1>5, <2>7
  <2>9. j \in Nat /\ k \in Nat
    BY <1>3, <1>6, <2>6
  <2> QED BY <2>6, <2>8, <2>9
<1>8. j \in ShownAt(ordered, q)
  BY <1>6, <1>7 DEF ShownAt, Match
<1> QED BY <1>2, <1>6, <1>8 DEF Match

\* What is shown of a page is in the section with its number.
HasBlock(sections, p, block) ==
  \E s \in DOMAIN sections : /\ sections[s].header = p
                             /\ \E r \in DOMAIN sections[s].records : sections[s].records[r].block = block

LEMMA SectionsHave ==
  ASSUME NEW n \in Nat, NEW pages, DOMAIN pages = 1..n,
         NEW ordered, ordered = [p \in DOMAIN pages |-> Ordered(pages[p])], Pages(ordered, n),
         NEW p \in 1..n, NEW i \in ShownAt(ordered, p)
  PROVE  HasBlock(Sections(pages), p, ordered[p][i])
<1> DEFINE kept == Kept(pages)
           rows == [q \in DOMAIN pages |-> [header |-> q, records |-> kept[q]]]
           full == {q \in DOMAIN pages : kept[q] # <<>>}
           records == [j \in DOMAIN ordered[p] |-> [page |-> p, block |-> ordered[p][j], at |-> j]]
<1>1. kept[p] = Keep(records, ShownAt(ordered, p))
  <2> DEFINE Shown(q) == {j \in DOMAIN ordered[q] : Renders(ordered[q][j]) /\ ~Repeats(ordered, q, j)}
             KeptOf(q) == Keep([j \in DOMAIN ordered[q] |-> [page |-> q, block |-> ordered[q][j], at |-> j]], Shown(q))
  <2>1. kept = [q \in DOMAIN pages |-> KeptOf(q)]
    BY Zenon DEF Kept
  <2> HIDE DEF KeptOf, kept
  <2>2. kept[p] = KeptOf(p)
    BY <2>1
  <2> QED BY <2>2, Zenon DEF KeptOf, ShownAt
<1>2. Sections(pages) = Keep(rows, full)
  BY Zenon DEF Sections
<1>3. PICK m \in Nat : DOMAIN ordered[p] = 1..m
  BY DEF Pages
<1>4. ShownAt(ordered, p) \in SUBSET (1..m) /\ DOMAIN records = 1..m /\ records[i].block = ordered[p][i]
  BY <1>3 DEF ShownAt
<1> HIDE DEF kept, records
<1>5. PICK r \in DOMAIN kept[p] : kept[p][r] = records[i]
  <2> DEFINE places == ShownAt(ordered, p)
  <2>1. places \in SUBSET (1..m) /\ i \in places /\ DOMAIN records = 1..m /\ m \in Nat
    BY <1>4
  <2> HIDE DEF places
  <2>2. \E k \in DOMAIN Keep(records, places) : Keep(records, places)[k] = records[i]
    BY <2>1, KeepHas
  <2> QED BY <1>1, <2>2 DEF places
<1>6. kept[p] # <<>>
  BY <1>5
<1>7. p \in full /\ full \in SUBSET (1..n) /\ DOMAIN rows = 1..n
  BY <1>6
<1>8. rows[p].header = p /\ rows[p].records = kept[p]
  OBVIOUS
<1> HIDE DEF rows, full
<1>9. PICK s \in DOMAIN Keep(rows, full) : Keep(rows, full)[s] = rows[p]
  BY <1>7, KeepHas
<1>10. Sections(pages)[s].header = p /\ Sections(pages)[s].records = kept[p] /\ s \in DOMAIN Sections(pages)
  BY <1>2, <1>8, <1>9
<1>11. \E k \in DOMAIN Sections(pages)[s].records : Sections(pages)[s].records[k].block = ordered[p][i]
  BY <1>4, <1>5, <1>10
<1> QED BY <1>10, <1>11 DEF HasBlock

\* Nothing but repeats is left out.
LEMMA SectionsIs ==
  ASSUME NEW n \in Nat, NEW pages, DOMAIN pages = 1..n,
         \A p \in 1..n : \E m \in Nat : Blocks(pages[p], m)
  PROVE  OnlyRepeatsDropped(pages, Sections(pages))
<1> DEFINE sections == Sections(pages)
           ordered == [p \in DOMAIN pages |-> Ordered(pages[p])]
           shown == UNION {{<<sections[s].header, sections[s].records[r].block>> : r \in DOMAIN sections[s].records}
                           : s \in DOMAIN sections}
<1>1. Pages(ordered, n)
  <2>1. \A p \in 1..n : \E m \in Nat : DOMAIN Ordered(pages[p]) = 1..m
    BY OrderedIs
  <2>2. DOMAIN ordered = 1..n /\ \A p \in 1..n : ordered[p] = Ordered(pages[p])
    OBVIOUS
  <2> HIDE DEF ordered
  <2> QED BY <2>1, <2>2 DEF Pages
<1>2. ASSUME NEW p \in 1..n, NEW block, HasBlock(sections, p, block)
      PROVE  <<p, block>> \in shown
  <2>1. PICK s \in DOMAIN sections :
          /\ sections[s].header = p
          /\ \E r \in DOMAIN sections[s].records : sections[s].records[r].block = block
    BY <1>2 DEF HasBlock
  <2>2. PICK r \in DOMAIN sections[s].records : sections[s].records[r].block = block
    BY <2>1
  <2> HIDE DEF sections
  <2>3. <<p, block>> = <<sections[s].header, sections[s].records[r].block>>
    BY <2>1, <2>2
  <2>4. <<p, block>> \in {<<sections[s].header, sections[s].records[k].block>> : k \in DOMAIN sections[s].records}
    BY <2>3
  <2> QED BY <2>4
<1>3. ASSUME NEW p \in 1..n, NEW i \in ShownAt(ordered, p) PROVE <<p, ordered[p][i]>> \in shown
  <2>1. HasBlock(sections, p, ordered[p][i])
    <3> DEFINE o == ordered
    <3>1. o = [q \in DOMAIN pages |-> Ordered(pages[q])]
      OBVIOUS
    <3>2. Pages(o, n) /\ i \in ShownAt(o, p)
      BY <1>1
    <3> HIDE DEF o
    <3>3. HasBlock(Sections(pages), p, o[p][i])
      BY <3>1, <3>2, SectionsHave
    <3> QED BY <3>3 DEF o
  <2> HIDE DEF sections, ordered, shown
  <2> QED BY <1>2, <2>1
<1> DEFINE Gone(p, block) == /\ block.label \in Boilerplate
                             /\ \E found \in shown : /\ found[1] <= p
                                                     /\ found[2].label \in Boilerplate
                                                     /\ found[2].text = block.text
<1>4. ASSUME NEW p \in 1..n, NEW i \in DOMAIN pages[p], Renders(pages[p][i])
      PROVE  <<p, pages[p][i]>> \in shown \/ Gone(p, pages[p][i])
  <2>1. PICK m \in Nat : Blocks(pages[p], m)
    OBVIOUS
  <2>2. ordered[p] = Ordered(pages[p]) /\ DOMAIN pages[p] = 1..m
    BY <2>1 DEF Blocks
  <2> HIDE DEF ordered, shown, sections
  <2>3. PICK r \in DOMAIN ordered[p] : ordered[p][r] = pages[p][i]
    <3>1. DOMAIN Ordered(pages[p]) = 1..m /\ \E k \in 1..m : Ordered(pages[p])[k] = pages[p][i]
      <4> DEFINE blocks == pages[p]
      <4>1. m \in Nat /\ Blocks(blocks, m) /\ i \in 1..m
        BY <2>1, <2>2
      <4> HIDE DEF blocks
      <4>2. DOMAIN Ordered(blocks) = 1..m /\ \E k \in 1..m : Ordered(blocks)[k] = blocks[i]
        BY <4>1, OrderedIs
      <4> QED BY <4>2 DEF blocks
    <3> QED BY <2>2, <3>1
  <2>4. CASE r \in ShownAt(ordered, p)
    BY <1>3, <2>3, <2>4
  <2>5. CASE r \notin ShownAt(ordered, p)
    <3>1. /\ ordered[p][r].label \in Boilerplate
          /\ \E q \in 1..p : \E j \in ShownAt(ordered, q) : /\ ordered[q][j].label \in Boilerplate
                                                            /\ ordered[q][j].text = ordered[p][r].text
      <4>1. Pages(ordered, n) /\ Renders(ordered[p][r])
        BY <1>1, <1>4, <2>3
      <4> QED BY <2>5, <4>1, FirstIsShown
    <3>2. PICK q \in 1..p : \E j \in ShownAt(ordered, q) : /\ ordered[q][j].label \in Boilerplate
                                                           /\ ordered[q][j].text = ordered[p][r].text
      BY <3>1
    <3>3. PICK j \in ShownAt(ordered, q) : /\ ordered[q][j].label \in Boilerplate
                                           /\ ordered[q][j].text = ordered[p][r].text
      BY <3>2
    <3>4. q \in 1..n /\ q <= p
      OBVIOUS
    <3> DEFINE found == <<q, ordered[q][j]>>
    <3>5. found \in shown
      BY <1>3, <3>4
    <3>6. found[1] = q /\ found[2] = ordered[q][j]
      OBVIOUS
    <3> HIDE DEF found
    <3>7. Gone(p, pages[p][i])
      BY <2>3, <3>1, <3>3, <3>4, <3>5, <3>6
    <3> QED BY <3>7
  <2> QED BY <2>4, <2>5
<1>5. OnlyRepeatsDropped(pages, sections)
  <2> HIDE DEF sections
  <2>1. \A p \in DOMAIN pages : \A i \in DOMAIN pages[p] :
          \/ ~Renders(pages[p][i])
          \/ <<p, pages[p][i]>> \in shown
          \/ Gone(p, pages[p][i])
    <3> HIDE DEF Gone, shown
    <3> QED BY <1>4
  <2> QED BY <2>1, Zenon DEF OnlyRepeatsDropped
<1> QED BY <1>5

-----------------------------------------------------------------------------
(* Labels and values.                                                      *)

Boxed(records, n) ==
  /\ DOMAIN records = 1..n
  /\ \A i \in 1..n : records[i].box \in [x0 : Nat, y0 : Nat, x1 : Nat, y1 : Nat]

Gap(records, i, j) == records[j].box.x0 - records[i].box.x1

\* The nearest of some values to the right of a label.
LEMMA NearestIs ==
  ASSUME NEW n \in Nat, NEW records, Boxed(records, n), NEW i \in 1..n,
         NEW free \in SUBSET (1..n), free # {},
         \A j \in free : records[j].box.x0 > records[i].box.x1
  PROVE  /\ Nearest(records, i, free) \in free
         /\ \A k \in free : Gap(records, i, Nearest(records, i, free)) <= Gap(records, i, k)
<1> DEFINE gap == [j \in free |-> records[j].box.x0 - records[i].box.x1]
           least == CHOOSE j \in free : \A k \in free : gap[j] < gap[k] \/ (gap[j] = gap[k] /\ j <= k)
<1>1. gap \in [free -> Nat]
  <2>1. \A j \in 1..n : records[j].box.x0 \in Nat /\ records[j].box.x1 \in Nat
    BY DEF Boxed
  <2>2. \A j \in free : records[j].box.x0 - records[i].box.x1 \in Nat
    BY <2>1
  <2> QED BY <2>2
<1>2. Nearest(records, i, free) = least
  <2>1. \A j \in free, k \in free : gap[j] = records[j].box.x0 - records[i].box.x1
    OBVIOUS
  <2>2. \A j \in free :
          (\A k \in free : gap[j] < gap[k] \/ (gap[j] = gap[k] /\ j <= k)) <=>
          (\A k \in free : \/ records[j].box.x0 - records[i].box.x1 < records[k].box.x0 - records[i].box.x1
                           \/ records[j].box.x0 - records[i].box.x1 = records[k].box.x0 - records[i].box.x1 /\ j <= k)
    OBVIOUS
  <2> HIDE DEF gap
  <2> QED BY <2>2, Zenon DEF Nearest
<1>3. \A j \in free : gap[j] = Gap(records, i, j)
  BY DEF Gap
<1> HIDE DEF gap
<1>4. \E j \in free : \A k \in free : gap[j] < gap[k] \/ (gap[j] = gap[k] /\ j <= k)
  BY <1>1, FirstExists
<1>5. least \in free /\ \A k \in free : gap[least] < gap[k] \/ (gap[least] = gap[k] /\ least <= k)
  BY <1>4
<1> HIDE DEF least
<1>6. \A k \in free : gap[least] <= gap[k]
  BY <1>1, <1>5
<1> QED BY <1>2, <1>3, <1>5, <1>6

\* What a label adds to the pairs of those before it.
Stage(records, n, pairs) ==
  LET free == FreeValues(records, n, pairs)
  IN IF n \in With(records, "label") /\ free # {}
     THEN pairs \cup {<<n, Nearest(records, n, free)>>} ELSE pairs
Staged(records, n, f) ==
  /\ f[0] = {} /\ f[n] = Pairs(records)
  /\ \A k \in 1..n : f[k] = Stage(records, k, f[k - 1])

LEMMA FreeIs ==
  ASSUME NEW n \in Nat, NEW records, Boxed(records, n), NEW i \in 1..n, NEW pairs
  PROVE  /\ FreeValues(records, i, pairs) \in SUBSET (1..n)
         /\ FreeValues(records, i, pairs) # {} =>
              /\ Nearest(records, i, FreeValues(records, i, pairs)) \in FreeValues(records, i, pairs)
              /\ \A k \in FreeValues(records, i, pairs) :
                   Gap(records, i, Nearest(records, i, FreeValues(records, i, pairs))) <= Gap(records, i, k)
<1> DEFINE free == FreeValues(records, i, pairs)
<1>1. free \in SUBSET (1..n)
  BY DEF FreeValues, With, Boxed
<1>2. \A j \in free : records[j].box.x0 > records[i].box.x1
  BY DEF FreeValues, Reaches
<1> HIDE DEF free
<1>3. free # {} => /\ Nearest(records, i, free) \in free
                   /\ \A k \in free : Gap(records, i, Nearest(records, i, free)) <= Gap(records, i, k)
  BY <1>1, <1>2, NearestIs
<1> QED BY <1>1, <1>3 DEF free

LEMMA StagesExist ==
  ASSUME NEW n \in Nat, NEW records, Boxed(records, n), Len(records) = n
  PROVE  \E f : Staged(records, n, f)
<1> DEFINE Step(f) == [k \in 0..n |-> IF k = 0 THEN {} ELSE Stage(records, k, f[k - 1])]
           found == CHOOSE f : f = Step(f)
           V == SUBSET ((1..n) \X (1..n))
           step == [p \in (1..n) \X V |-> Stage(records, p[1], p[2])]
<1>1. \A k \in 1..n, P \in V : Stage(records, k, P) \in V
  <2> SUFFICES ASSUME NEW k \in 1..n, NEW P \in V PROVE Stage(records, k, P) \in V
    OBVIOUS
  <2> DEFINE free == FreeValues(records, k, P)
             j == Nearest(records, k, free)
  <2>1. free # {} => j \in 1..n
    BY FreeIs
  <2>2. Stage(records, k, P) = IF k \in With(records, "label") /\ free # {} THEN P \cup {<<k, j>>} ELSE P
    BY DEF Stage
  <2> HIDE DEF free, j
  <2> QED BY <2>1, <2>2
<1>2. \E f : f = Step(f)
  <2>1. step \in [(1..n) \X V -> V] /\ {} \in V
    <3> HIDE DEF V
    <3>1. step \in [(1..n) \X V -> V]
      BY <1>1
    <3>2. {} \in V
      BY DEF V
    <3> QED BY <3>1, <3>2
  <2>2. \A k \in 1..n, P \in V : step[<<k, P>>] = Stage(records, k, P)
    <3> HIDE DEF V
    <3> QED OBVIOUS
  <2> HIDE DEF step, V
  <2>3. PICK f \in [0..n -> V] : f[0] = {} /\ \A k \in 1..n : f[k] = step[<<k, f[k - 1]>>]
    <3>1. step \in Steps(n, V)
      BY <2>1 DEF Steps
    <3>2. \E f : Recursion(f, n, V, {}, step)
      BY <2>1, <3>1, RecursionExists
    <3> QED BY <3>2 DEF Recursion
  <2>4. \A k \in 1..n : f[k] = Stage(records, k, f[k - 1])
    <3>1. \A k \in 1..n : f[k - 1] \in V
      OBVIOUS
    <3> QED BY <2>2, <2>3, <3>1
  <2>5. \A k \in 0..n : f[k] = Step(f)[k]
    BY <2>3, <2>4
  <2>6. f = Step(f)
    BY <2>5
  <2> QED BY <2>6
<1>3. found = Step(found)
  <2> HIDE DEF Step
  <2> QED BY <1>2, Zenon
<1>4. Pairs(records) = found[n]
  <2>1. Pairs(records) = (CHOOSE f : f = [k \in 0..Len(records) |-> IF k = 0 THEN {} ELSE Stage(records, k, f[k - 1])])[Len(records)]
    BY Zenon DEF Pairs, Stage
  <2> QED BY <2>1
<1> HIDE DEF found
<1>5. found[0] = {} /\ \A k \in 1..n : found[k] = Stage(records, k, found[k - 1])
  <2>1. \A k \in 0..n : found[k] = IF k = 0 THEN {} ELSE Stage(records, k, found[k - 1])
    BY <1>3
  <2>2. 0 \in 0..n /\ \A k \in 1..n : k \in 0..n /\ k # 0
    OBVIOUS
  <2> QED BY <2>1, <2>2
<1> QED BY <1>4, <1>5 DEF Staged

\* Each label has one value, each value one label.
Matching(records, k, P) ==
  /\ \A pair \in P : /\ pair \in With(records, "label") \X With(records, "value")
                     /\ pair[1] <= k
  /\ \A p, q \in P : p[1] = q[1] => p[2] = q[2]
  /\ \A p, q \in P : p[2] = q[2] => p[1] = q[1]

LEMMA PairsMatch ==
  ASSUME NEW n \in Nat, NEW records, Boxed(records, n), Len(records) = n
  PROVE  Matching(records, n, Pairs(records))
<1>1. PICK f : Staged(records, n, f)
  BY StagesExist
<1> DEFINE S == {k \in 0..n : Matching(records, k, f[k])}
<1>2. 0 \in S
  BY <1>1 DEF Staged, Matching
<1>3. ASSUME NEW k \in 0..(n - 1), k \in S PROVE k + 1 \in S
  <2> DEFINE i == k + 1
             P == f[k]
             free == FreeValues(records, i, P)
             j == Nearest(records, i, free)
  <2>1. i \in 1..n /\ i - 1 = k
    OBVIOUS
  <2>2. f[i] = IF i \in With(records, "label") /\ free # {} THEN P \cup {<<i, j>>} ELSE P
    BY <1>1, <2>1 DEF Staged, Stage
  <2>3. Matching(records, k, P)
    BY <1>3
  <2>4. ASSUME i \in With(records, "label"), free # {}
        PROVE  j \in With(records, "value") /\ \A pair \in P : pair[2] # j
    <3>1. j \in free
      BY <2>1, <2>4, FreeIs
    <3> HIDE DEF j
    <3> QED BY <3>1 DEF FreeValues
  <2>5. k <= i /\ i \in Nat /\ k \in Nat /\ \A x \in Nat : x <= k => x <= i /\ x # i
    OBVIOUS
  <2>6. With(records, "label") \subseteq Nat
    BY DEF With, Boxed
  <2> HIDE DEF P, free, j, i
  <2>7. Matching(records, i, P)
    BY <2>3, <2>5, <2>6 DEF Matching
  <2>8. ASSUME i \in With(records, "label"), free # {}
        PROVE  Matching(records, i, P \cup {<<i, j>>})
    <3> DEFINE new == <<i, j>>
    <3>1. new \in With(records, "label") \X With(records, "value") /\ new[1] = i /\ new[2] = j /\ i <= i
      BY <2>4, <2>5, <2>8
    <3>2. \A pair \in P : pair[1] # i /\ pair[2] # j
      BY <2>3, <2>4, <2>5, <2>6, <2>8 DEF Matching
    <3> HIDE DEF new
    <3>3. \A pair \in P \cup {new} : pair \in With(records, "label") \X With(records, "value") /\ pair[1] <= i
      BY <2>7, <3>1 DEF Matching
    <3>4. \A p, q \in P \cup {new} : p[1] = q[1] => p[2] = q[2]
      BY <2>7, <3>1, <3>2 DEF Matching
    <3>5. \A p, q \in P \cup {new} : p[2] = q[2] => p[1] = q[1]
      BY <2>7, <3>1, <3>2 DEF Matching
    <3> QED BY <3>3, <3>4, <3>5 DEF Matching, new
  <2>9. Matching(records, i, f[i])
    BY <2>2, <2>7, <2>8
  <2>10. i \in 0..n
    BY <2>1
  <2> QED BY <2>9, <2>10 DEF i
<1>4. n \in S
  <2>1. n \in 0..n
    OBVIOUS
  <2> HIDE DEF S
  <2> QED BY <1>2, <1>3, <2>1, UpInduction
<1> QED BY <1>1, <1>4 DEF Staged

\* Each record is in one line, once.
LEMMA LinesIs ==
  ASSUME NEW n \in Nat, NEW records, Boxed(records, n), Len(records) = n
  PROVE  EveryRecordOnce(records, Lines(records))
<1> DEFINE pairs == Pairs(records)
           lines == Lines(records)
           A == {i \in DOMAIN records : ~\E pair \in pairs : pair[2] = i}
           m == Cardinality(A)
           s == Ascending(A)
           Led(i) == \E pair \in pairs : pair[1] = i
           Line(i) == IF Led(i) THEN <<i, (CHOOSE pair \in pairs : pair[1] = i)[2]>> ELSE <<i>>
           places == {at \in (DOMAIN lines) \X {1, 2} : at[2] \in DOMAIN lines[at[1]]}
<1>1. DOMAIN records = 1..n
  BY DEF Boxed
<1>2. lines = [k \in DOMAIN s |-> Line(s[k])]
  BY Zenon DEF Lines
<1>3. /\ \A pair \in pairs : /\ pair \in With(records, "label") \X With(records, "value")
                             /\ pair[1] <= n
      /\ \A p, q \in pairs : p[1] = q[1] => p[2] = q[2]
      /\ \A p, q \in pairs : p[2] = q[2] => p[1] = q[1]
  BY PairsMatch DEF Matching
<1>4. A \in SUBSET (1..n) /\ A \in SUBSET Nat /\ IsFiniteSet(A)
  <2>1. A \in SUBSET (1..n)
    BY <1>1
  <2>2. IsFiniteSet(1..n) /\ 1..n \subseteq Nat
    BY FS_Interval
  <2> HIDE DEF A
  <2>3. IsFiniteSet(A)
    BY <2>1, <2>2, FS_Subset
  <2> QED BY <2>1, <2>2, <2>3
<1>5. With(records, "label") \cap With(records, "value") = {} /\ With(records, "label") \subseteq 1..n
  BY <1>1 DEF With
<1>6. \A i \in 1..n : i \in A <=> ~\E pair \in pairs : pair[2] = i
  BY <1>1
<1> HIDE DEF A, pairs, Led
<1>7. /\ m \in Nat /\ DOMAIN s = 1..m
      /\ \A k \in 1..m : s[k] \in A
      /\ \A k, l \in 1..m : k < l => s[k] < s[l]
      /\ \A i \in A : \E k \in 1..m : s[k] = i
  BY <1>4, AscendingIs
<1>8. \A k, l \in 1..m : s[k] = s[l] => k = l
  <2> HIDE DEF m, s
  <2>1. \A k \in 1..m : s[k] \in Nat
    BY <1>4, <1>7
  <2>2. ASSUME NEW k \in 1..m, NEW l \in 1..m, s[k] = s[l] PROVE k = l
    <3>1. ~(k < l) /\ ~(l < k)
      BY <1>7, <2>1, <2>2
    <3> QED BY <1>7, <3>1
  <2> QED BY <2>2
<1> HIDE DEF m, s
<1>9. \A pair \in pairs : /\ pair[1] \in With(records, "label") /\ pair[2] \in With(records, "value")
                          /\ pair[1] \in 1..n
  BY <1>3, <1>5
<1>10. \A pair \in pairs : pair[1] \in A
  BY <1>5, <1>6, <1>9
<1>11. ASSUME NEW i, NEW pair \in pairs, pair[1] = i
       PROVE  Line(i) = <<i, pair[2]>>
  <2>1. Led(i)
    BY <1>11 DEF Led
  <2>2. (CHOOSE p \in pairs : p[1] = i)[2] = pair[2]
    <3>1. (CHOOSE p \in pairs : p[1] = i) \in pairs /\ (CHOOSE p \in pairs : p[1] = i)[1] = i
      BY <1>11
    <3> QED BY <1>3, <1>11, <3>1
  <2> QED BY <2>1, <2>2
<1>12. ASSUME NEW i, ~Led(i) PROVE Line(i) = <<i>>
  BY <1>12
<1> HIDE DEF Line
<1>13. \A i : /\ 1 \in DOMAIN Line(i) /\ Line(i)[1] = i
              /\ 2 \in DOMAIN Line(i) => \E pair \in pairs : pair[1] = i /\ pair[2] = Line(i)[2]
  <2> SUFFICES ASSUME NEW i
               PROVE  /\ 1 \in DOMAIN Line(i) /\ Line(i)[1] = i
                      /\ 2 \in DOMAIN Line(i) => \E pair \in pairs : pair[1] = i /\ pair[2] = Line(i)[2]
    OBVIOUS
  <2>1. CASE Led(i)
    <3>1. PICK pair \in pairs : pair[1] = i
      BY <2>1 DEF Led
    <3>2. Line(i) = <<i, pair[2]>>
      BY <1>11, <3>1
    <3>3. Line(i)[1] = i /\ Line(i)[2] = pair[2] /\ 1 \in DOMAIN Line(i)
      BY <3>2
    <3> QED BY <3>1, <3>3
  <2>2. CASE ~Led(i)
    <3>1. Line(i) = <<i>>
      BY <1>12, <2>2
    <3> QED BY <3>1
  <2> QED BY <2>1, <2>2
<1>14. DOMAIN lines = 1..m /\ \A k \in 1..m : lines[k] = Line(s[k])
  BY <1>2, <1>7
<1> HIDE DEF lines
<1>15. \A k, x : <<k, x>> \in places <=> k \in 1..m /\ x \in {1, 2} /\ x \in DOMAIN Line(s[k])
  BY <1>14
<1>16. \A at \in places : at = <<at[1], at[2]>> /\ at[1] \in 1..m /\ at[2] \in {1, 2}
                         /\ at[2] \in DOMAIN Line(s[at[1]]) /\ lines[at[1]] = Line(s[at[1]])
  BY <1>14
<1> HIDE DEF places
<1> DEFINE With1(i) == {at \in places : lines[at[1]][at[2]] = i}
<1>17. ASSUME NEW i \in DOMAIN records PROVE \E at : With1(i) = {at}
  <2>1. i \in 1..n
    BY <1>1
  <2>2. CASE i \in A
    <3>1. PICK k \in 1..m : s[k] = i
      BY <1>7, <2>2
    <3> DEFINE here == <<k, 1>>
    <3>2. here \in places /\ here[1] = k /\ here[2] = 1
      BY <1>13, <1>15
    <3>3. lines[k][1] = i
      BY <1>13, <1>14, <3>1
    <3>4. ASSUME NEW at \in places, lines[at[1]][at[2]] = i PROVE at = here
      <4>1. at = <<at[1], at[2]>> /\ at[1] \in 1..m /\ at[2] \in {1, 2}
            /\ at[2] \in DOMAIN Line(s[at[1]]) /\ lines[at[1]] = Line(s[at[1]])
        BY <1>16
      <4>2. CASE at[2] = 1
        <5>1. s[at[1]] = i
          BY <1>13, <3>4, <4>1, <4>2
        <5>2. at[1] = k
          BY <1>8, <3>1, <4>1, <5>1
        <5> QED BY <4>1, <4>2, <5>2
      <4>3. CASE at[2] = 2
        <5>1. \E pair \in pairs : pair[2] = i
          BY <1>13, <3>4, <4>1, <4>3
        <5> QED BY <1>6, <2>1, <2>2, <5>1
      <4> QED BY <4>1, <4>2, <4>3
    <3> HIDE DEF here
    <3> QED BY <3>2, <3>3, <3>4
  <2>3. CASE i \notin A
    <3>1. PICK pair \in pairs : pair[2] = i
      BY <1>6, <2>1, <2>3
    <3>2. PICK k \in 1..m : s[k] = pair[1]
      BY <1>7, <1>10
    <3> DEFINE here == <<k, 2>>
    <3>3. Line(s[k]) = <<s[k], i>>
      BY <1>11, <3>1, <3>2
    <3>4. Line(s[k])[2] = i /\ 2 \in DOMAIN Line(s[k])
      BY <3>3
    <3>5. here \in places /\ here[1] = k /\ here[2] = 2
      BY <1>15, <3>4
    <3>6. lines[k][2] = i
      BY <1>14, <3>4
    <3>7. ASSUME NEW at \in places, lines[at[1]][at[2]] = i PROVE at = here
      <4>1. at = <<at[1], at[2]>> /\ at[1] \in 1..m /\ at[2] \in {1, 2}
            /\ at[2] \in DOMAIN Line(s[at[1]]) /\ lines[at[1]] = Line(s[at[1]])
        BY <1>16
      <4>2. CASE at[2] = 1
        <5>1. s[at[1]] = i
          BY <1>13, <3>7, <4>1, <4>2
        <5>2. i \in A
          BY <1>7, <4>1, <5>1
        <5> QED BY <2>3, <5>2
      <4>3. CASE at[2] = 2
        <5>1. PICK other \in pairs : other[1] = s[at[1]] /\ other[2] = i
          BY <1>13, <3>7, <4>1, <4>3
        <5>2. other[1] = pair[1]
          BY <1>3, <3>1, <5>1
        <5>3. at[1] = k
          BY <1>8, <3>2, <4>1, <5>1, <5>2
        <5> QED BY <4>1, <4>3, <5>3
      <4> QED BY <4>1, <4>2, <4>3
    <3> HIDE DEF here
    <3> QED BY <3>5, <3>6, <3>7
  <2> QED BY <2>2, <2>3
<1>18. \A i \in DOMAIN records : Cardinality(With1(i)) = 1
  <2> HIDE DEF With1
  <2> QED BY <1>17, FS_Singleton
<1> QED BY <1>18, Zenon DEF EveryRecordOnce, places, lines

-----------------------------------------------------------------------------
(* Forms.                                                                  *)

\* Boxes of a form are in the same row, or do not overlap at all.
LEMMA RowsOrApart ==
  ASSUME NEW a \in Nat, NEW b \in Nat, NEW c \in Nat, NEW d \in Nat, a < b, c < d,
         b <= c \/ d <= a \/ (a = c /\ b = d)
  PROVE  2 * (FloorTo(b, d) - CeilTo(a, c)) >= b - a <=> a = c
<1>1. CASE b <= c
  <2>1. FloorTo(b, d) <= b /\ CeilTo(a, c) >= c /\ FloorTo(b, d) \in Nat /\ CeilTo(a, c) \in Nat
    BY DEF FloorTo, CeilTo
  <2> QED BY <1>1, <2>1
<1>2. CASE d <= a
  <2>1. FloorTo(b, d) <= d /\ CeilTo(a, c) >= a /\ FloorTo(b, d) \in Nat /\ CeilTo(a, c) \in Nat
    BY DEF FloorTo, CeilTo
  <2> QED BY <1>2, <2>1
<1>3. CASE a = c /\ b = d
  <2>1. FloorTo(b, d) = b /\ CeilTo(a, c) = a
    BY <1>3 DEF FloorTo, CeilTo
  <2> QED BY <1>3, <2>1
<1> QED BY <1>1, <1>2, <1>3

Left(records, i) == records[i].box.x0
Edge(records, i) == records[i].box.x1
Row(records, i) == records[i].box.y0
InRows(records, n) ==
  /\ \A i \in 1..n : /\ Left(records, i) \in Nat /\ Edge(records, i) \in Nat
                     /\ Left(records, i) < Edge(records, i)
                     /\ records[i].box.y1 > records[i].box.y0
                     /\ records[i].box # NoBox
  /\ \A i, j \in 1..n : i # j =>
       /\ SameRow(records[i].box, records[j].box) <=> Row(records, i) = Row(records, j)
       /\ Row(records, i) = Row(records, j) =>
            Edge(records, i) < Left(records, j) \/ Edge(records, j) < Left(records, i)

LEMMA LaidOutIs ==
  ASSUME NEW n \in Nat, NEW records, Boxed(records, n), LaidOut(records)
  PROVE  InRows(records, n)
<1>1. /\ DOMAIN records = 1..n
      /\ \A i \in 1..n : /\ records[i].box.x0 \in Nat /\ records[i].box.y0 \in Nat
                         /\ records[i].box.x1 \in Nat /\ records[i].box.y1 \in Nat
  BY DEF Boxed
<1>2. \A i \in 1..n : records[i].box.x0 < records[i].box.x1 /\ records[i].box.y0 < records[i].box.y1
  BY <1>1 DEF LaidOut
<1>3. \A i \in 1..n : records[i].box # NoBox
  <2>1. NoBox.x0 = 0 /\ NoBox.x1 = 0
    BY DEF NoBox
  <2> QED BY <1>2, <2>1
<1>4. ASSUME NEW i \in 1..n, NEW j \in 1..n, i # j
      PROVE  /\ SameRow(records[i].box, records[j].box) <=> Row(records, i) = Row(records, j)
             /\ Row(records, i) = Row(records, j) =>
                  Edge(records, i) < Left(records, j) \/ Edge(records, j) < Left(records, i)
  <2> DEFINE a == records[i].box
             b == records[j].box
  <2>1. \/ a.y1 <= b.y0 \/ b.y1 <= a.y0
        \/ a.y0 = b.y0 /\ a.y1 = b.y1 /\ (a.x1 < b.x0 \/ b.x1 < a.x0)
    BY <1>1, <1>4 DEF LaidOut
  <2>2. /\ a.y0 \in Nat /\ a.y1 \in Nat /\ b.y0 \in Nat /\ b.y1 \in Nat
        /\ a.y0 < a.y1 /\ b.y0 < b.y1
    BY <1>1, <1>2
  <2> HIDE DEF a, b
  <2>3. 2 * (FloorTo(a.y1, b.y1) - CeilTo(a.y0, b.y0)) >= a.y1 - a.y0 <=> a.y0 = b.y0
    <3> DEFINE p == a.y0
               q == a.y1
               s == b.y0
               t == b.y1
    <3>1. p \in Nat /\ q \in Nat /\ s \in Nat /\ t \in Nat /\ p < q /\ s < t
          /\ (q <= s \/ t <= p \/ (p = s /\ q = t))
      BY <2>1, <2>2
    <3> HIDE DEF p, q, s, t
    <3>2. 2 * (FloorTo(q, t) - CeilTo(p, s)) >= q - p <=> p = s
      BY <3>1, RowsOrApart
    <3> QED BY <3>2 DEF p, q, s, t
  <2>4. SameRow(a, b) <=> a.y0 = b.y0
    BY <2>3 DEF SameRow
  <2>5. a.y0 = b.y0 => a.x1 < b.x0 \/ b.x1 < a.x0
    BY <2>1, <2>2
  <2> QED BY <2>4, <2>5 DEF a, b, Row, Edge, Left
<1>5. \A i \in 1..n : Left(records, i) \in Nat /\ Edge(records, i) \in Nat /\ Left(records, i) < Edge(records, i)
  BY <1>1, <1>2 DEF Left, Edge
<1>6. \A i \in 1..n : records[i].box.y1 > records[i].box.y0
  BY <1>1, <1>2
<1> QED BY <1>3, <1>4, <1>5, <1>6 DEF InRows

\* Of finitely many numbers one is the greatest.
LEMMA GreatestExists ==
  ASSUME NEW S \in SUBSET Nat, S # {}, IsFiniteSet(S)
  PROVE  \E x \in S : \A y \in S : y <= x
<1> DEFINE n == Cardinality(S)
           s == Ascending(S)
<1>1. /\ n \in Nat
      /\ \A k \in 1..n : s[k] \in S
      /\ \A k, l \in 1..n : k < l => s[k] < s[l]
      /\ \A i \in S : \E k \in 1..n : s[k] = i
  BY AscendingIs
<1>2. n # 0
  BY FS_EmptySet
<1> HIDE DEF n, s
<1>3. n \in 1..n /\ s[n] \in S
  BY <1>1, <1>2
<1>4. ASSUME NEW i \in S PROVE i <= s[n]
  <2>1. PICK k \in 1..n : s[k] = i
    BY <1>1
  <2>2. CASE k = n
    BY <1>3, <2>1, <2>2
  <2>3. CASE k < n
    <3>1. i < s[n]
      BY <1>1, <1>3, <2>1, <2>3
    <3>2. i \in Nat /\ s[n] \in Nat
      BY <1>3
    <3> QED BY <3>1, <3>2
  <2> QED BY <1>1, <2>2, <2>3
<1> QED BY <1>3, <1>4

LEMMA WidthIs ==
  ASSUME NEW n \in Nat, NEW records, Boxed(records, n)
  PROVE  PageWidth(records) \in Nat
<1> DEFINE places == {i \in DOMAIN records : records[i].box # NoBox}
           edges == {records[i].box.x1 : i \in places}
<1>1. IsFiniteSet(places) /\ places \subseteq 1..n
  <2>1. IsFiniteSet(1..n)
    BY FS_Interval
  <2>2. places \in SUBSET (1..n)
    BY DEF Boxed
  <2> HIDE DEF places
  <2> QED BY <2>1, <2>2, FS_Subset
<1>2. IsFiniteSet(edges)
  <2> DEFINE f == [i \in places |-> records[i].box.x1]
  <2> HIDE DEF places
  <2>1. f \in Surjection(places, edges)
    BY DEF Surjection
  <2> HIDE DEF f, edges
  <2> QED BY <1>1, <2>1, FS_Surjection
<1>3. edges \in SUBSET Nat
  BY <1>1 DEF Boxed
<1>4. PageWidth(records) = IF edges = {} THEN 0 ELSE CHOOSE e \in edges : \A f \in edges : f <= e
  BY DEF PageWidth
<1> HIDE DEF edges
<1>5. edges # {} => \E e \in edges : \A f \in edges : f <= e
  BY <1>2, <1>3, GreatestExists
<1> DEFINE last == CHOOSE e \in edges : \A f \in edges : f <= e
<1>6. edges # {} => last \in edges
  BY <1>5
<1> HIDE DEF last
<1>7. edges # {} => last \in Nat
  BY <1>3, <1>6
<1> QED BY <1>4, <1>7 DEF last

\* A value to the right of a label, in its row, and the nearest to it.
RightOf(records, i, j) == Row(records, i) = Row(records, j) /\ Edge(records, i) < Left(records, j)
Seen(records) == With(records, "label") \cup With(records, "value")
NextTo(records, i, j) ==
  /\ j \in Seen(records) /\ RightOf(records, i, j)
  /\ \A k \in Seen(records) : RightOf(records, i, k) => Left(records, j) <= Left(records, k)
Near(records, i, j) == 4 * (Left(records, j) - Edge(records, i)) <= PageWidth(records)

LEMMA RowsAre ==
  ASSUME NEW n \in Nat, NEW records, InRows(records, n)
  PROVE  /\ \A i, j \in 1..n : RightOf(records, i, j) => i # j /\ Left(records, i) < Left(records, j)
         /\ \A i, j \in 1..n : i # j /\ Row(records, i) = Row(records, j) =>
              RightOf(records, i, j) \/ RightOf(records, j, i)
<1>1. \A i \in 1..n : /\ Left(records, i) \in Nat /\ Edge(records, i) \in Nat
                      /\ Left(records, i) < Edge(records, i)
  BY DEF InRows
<1>2. \A i, j \in 1..n : i # j /\ Row(records, i) = Row(records, j) =>
              RightOf(records, i, j) \/ RightOf(records, j, i)
  BY DEF InRows, RightOf
<1>3. \A i, j \in 1..n : RightOf(records, i, j) => i # j /\ Left(records, i) < Left(records, j)
  BY <1>1 DEF RightOf
<1> QED BY <1>2, <1>3

\* What a label reaches, on a form.
LEMMA ReachesIs ==
  ASSUME NEW n \in Nat, NEW records, Boxed(records, n), InRows(records, n), NEW i \in 1..n, NEW j \in 1..n
  PROVE  Reaches(records, i, j) <=>
           /\ RightOf(records, i, j) /\ Near(records, i, j)
           /\ ~\E m \in With(records, "label") : RightOf(records, i, m) /\ Left(records, m) < Left(records, j)
<1>1. /\ \A k \in 1..n : /\ Left(records, k) \in Nat /\ Edge(records, k) \in Nat
                         /\ Left(records, k) < Edge(records, k)
                         /\ records[k].box.y1 > records[k].box.y0
      /\ \A k \in 1..n : i # k =>
           /\ SameRow(records[i].box, records[k].box) <=> Row(records, i) = Row(records, k)
           /\ Row(records, i) = Row(records, k) =>
                Edge(records, i) < Left(records, k) \/ Edge(records, k) < Left(records, i)
  BY DEF InRows
<1>2. With(records, "label") \subseteq 1..n
  BY DEF With, Boxed
<1>3. ASSUME NEW m \in With(records, "label")
      PROVE  (/\ records[m].box # records[i].box
              /\ records[i].box.x1 <= records[m].box.x0 /\ records[m].box.x0 < records[j].box.x0
              /\ SameRow(records[i].box, records[m].box)) <=>
             RightOf(records, i, m) /\ Left(records, m) < Left(records, j)
  <2>1. m \in 1..n
    BY <1>2
  <2>2. CASE m = i
    <3>1. ~RightOf(records, i, m)
      BY <2>2, RowsAre
    <3> QED BY <2>2, <3>1
  <2>3. CASE m # i
    <3>1. SameRow(records[i].box, records[m].box) <=> Row(records, i) = Row(records, m)
      BY <1>1, <2>1, <2>3
    <3>2. Row(records, i) = Row(records, m) => (Edge(records, i) <= Left(records, m) <=> Edge(records, i) < Left(records, m))
      BY <1>1, <2>1, <2>3
    <3>3. Row(records, i) = Row(records, m) /\ Edge(records, i) < Left(records, m) => records[m].box # records[i].box
      BY <1>1 DEF Edge, Left
    <3> QED BY <3>1, <3>2, <3>3 DEF RightOf, Left, Edge
  <2> QED BY <2>2, <2>3
<1>4. Between(records, i, j) <=>
        \E m \in With(records, "label") : RightOf(records, i, m) /\ Left(records, m) < Left(records, j)
  BY <1>3, Zenon DEF Between
<1>5. (/\ records[i].box.y1 > records[i].box.y0
       /\ records[j].box.x0 > records[i].box.x1
       /\ SameRow(records[i].box, records[j].box)) <=> RightOf(records, i, j)
  <2>1. CASE i = j
    <3>1. ~RightOf(records, i, j)
      BY <2>1, RowsAre
    <3>2. ~(records[j].box.x0 > records[i].box.x1)
      BY <1>1, <2>1 DEF Left, Edge
    <3> QED BY <3>1, <3>2
  <2>2. CASE i # j
    <3>1. SameRow(records[i].box, records[j].box) <=> Row(records, i) = Row(records, j)
      BY <1>1, <2>2
    <3>2. records[j].box.x0 > records[i].box.x1 <=> Edge(records, i) < Left(records, j)
      BY <1>1 DEF Left, Edge
    <3> QED BY <1>1, <3>1, <3>2 DEF RightOf
  <2> QED BY <2>1, <2>2
<1>6. 4 * (records[j].box.x0 - records[i].box.x1) <= PageWidth(records) <=> Near(records, i, j)
  BY DEF Near, Left, Edge
<1> QED BY <1>4, <1>5, <1>6, Zenon DEF Reaches

\* What is paired of the labels up to k, on a form.
Neighbours(records, k) ==
  {pair \in With(records, "label") \X With(records, "value") :
     pair[1] <= k /\ NextTo(records, pair[1], pair[2]) /\ Near(records, pair[1], pair[2])}

\* No other label has the same neighbour.
LEMMA OneLabel ==
  ASSUME NEW n \in Nat, NEW records, Boxed(records, n), InRows(records, n),
         NEW i \in With(records, "label"), NEW m \in With(records, "label"), NEW j \in 1..n,
         i # m, NextTo(records, m, j), RightOf(records, i, j)
  PROVE  RightOf(records, i, m) /\ Left(records, m) < Left(records, j)
<1>1. i \in 1..n /\ m \in 1..n /\ i \in Seen(records) /\ m \in Seen(records)
  BY DEF With, Boxed, Seen
<1>2. RightOf(records, m, j) /\ \A k \in Seen(records) : RightOf(records, m, k) => Left(records, j) <= Left(records, k)
  BY DEF NextTo
<1>3. Left(records, i) < Left(records, j) /\ Left(records, m) < Left(records, j)
  BY <1>1, <1>2, RowsAre
<1>4. Left(records, i) \in Nat /\ Left(records, j) \in Nat
  BY <1>1 DEF InRows
<1>5. ~RightOf(records, m, i)
  BY <1>1, <1>2, <1>3, <1>4
<1>6. Row(records, i) = Row(records, m)
  BY <1>2 DEF RightOf
<1> QED BY <1>1, <1>3, <1>5, <1>6, RowsAre

LEMMA NeighbourStage ==
  ASSUME NEW n \in Nat, NEW records, Boxed(records, n), InRows(records, n), NEW i \in 1..n
  PROVE  Stage(records, i, Neighbours(records, i - 1)) = Neighbours(records, i)
<1> DEFINE L == With(records, "label")
           V == With(records, "value")
           P == Neighbours(records, i - 1)
           free == FreeValues(records, i, P)
           j == Nearest(records, i, free)
           Nb(p, q) == NextTo(records, p, q) /\ Near(records, p, q)
<1>1. L \subseteq 1..n /\ V \subseteq 1..n /\ Seen(records) = L \cup V
  BY DEF With, Boxed, Seen
<1>2. Stage(records, i, P) = IF i \in L /\ free # {} THEN P \cup {<<i, j>>} ELSE P
  BY DEF Stage
<1>3. \A p \in L, q \in V : <<p, q>> \in P <=> p <= i - 1 /\ Nb(p, q)
  BY DEF Neighbours
<1>4. \A p \in L, q \in V : <<p, q>> \in Neighbours(records, i) <=> p <= i /\ Nb(p, q)
  BY DEF Neighbours
<1>5. P \subseteq L \X V /\ Neighbours(records, i) \subseteq L \X V
  BY DEF Neighbours
<1>6. \A q : q \in free <=> q \in V /\ Reaches(records, i, q) /\ ~\E p \in L : <<p, q>> \in P
  <2>1. \A q \in V : (\E pair \in P : pair[2] = q) <=> \E p \in L : <<p, q>> \in P
    <3> SUFFICES ASSUME NEW q \in V PROVE (\E pair \in P : pair[2] = q) <=> \E p \in L : <<p, q>> \in P
      OBVIOUS
    <3>1. ASSUME NEW pair \in P, pair[2] = q PROVE \E p \in L : <<p, q>> \in P
      <4>1. pair = <<pair[1], pair[2]>> /\ pair[1] \in L
        BY <1>5
      <4> QED BY <3>1, <4>1
    <3>2. ASSUME NEW p \in L, <<p, q>> \in P PROVE \E pair \in P : pair[2] = q
      BY <3>2
    <3> QED BY <3>1, <3>2
  <2>2. free = {q \in V : Reaches(records, i, q) /\ ~\E pair \in P : pair[2] = q}
    BY DEF FreeValues
  <2> HIDE DEF free, P, V, L
  <2> QED BY <2>1, <2>2
<1>7. free # {} => /\ j \in free
                   /\ \A k \in free : Gap(records, i, j) <= Gap(records, i, k)
  BY FreeIs
<1>8. \A k \in 1..n : /\ Left(records, k) \in Nat /\ Edge(records, k) \in Nat
                       /\ Left(records, k) < Edge(records, k)
  BY DEF InRows
<1>9. PageWidth(records) \in Nat
  BY WidthIs
<1> HIDE DEF P, free, j, L, V
\* Nothing between, and no taker: the neighbour is free.
<1>10. ASSUME i \in L, NEW q \in V, Nb(i, q) PROVE q \in free
  <2>1. /\ RightOf(records, i, q)
        /\ \A k \in Seen(records) : RightOf(records, i, k) => Left(records, q) <= Left(records, k)
    BY <1>10 DEF NextTo
  <2>2. ~\E m \in L : RightOf(records, i, m) /\ Left(records, m) < Left(records, q)
    BY <1>1, <1>8, <2>1
  <2>3. Reaches(records, i, q)
    BY <1>1, <1>10, <2>1, <2>2, ReachesIs DEF L
  <2>4. ASSUME NEW p \in L, <<p, q>> \in P PROVE FALSE
    <3>1. p # i /\ NextTo(records, p, q)
      BY <1>1, <1>3, <2>4
    <3>2. RightOf(records, i, p) /\ Left(records, p) < Left(records, q)
      BY <1>1, <1>10, <2>1, <3>1, OneLabel DEF L
    <3> QED BY <2>2, <3>2
  <2> QED BY <1>6, <2>3, <2>4
\* The nearest of the free ones is the neighbour.
<1>11. ASSUME i \in L, free # {} PROVE j \in V /\ Nb(i, j)
  <2>1. j \in V /\ j \in 1..n /\ Reaches(records, i, j)
    BY <1>1, <1>6, <1>7, <1>11
  <2>2. /\ RightOf(records, i, j) /\ Near(records, i, j)
        /\ ~\E m \in L : RightOf(records, i, m) /\ Left(records, m) < Left(records, j)
    BY <2>1, ReachesIs DEF L
  <2>3. ASSUME NEW k \in Seen(records), RightOf(records, i, k), Left(records, k) < Left(records, j) PROVE FALSE
    <3>1. k \notin L /\ k \in V /\ k \in 1..n
      BY <1>1, <2>2, <2>3
    <3>2. Near(records, i, k)
      <4> DEFINE a == Left(records, k)
                 b == Left(records, j)
                 e == Edge(records, i)
                 w == PageWidth(records)
      <4>1. a \in Nat /\ b \in Nat /\ e \in Nat /\ w \in Nat /\ a < b
        BY <1>8, <1>9, <2>1, <2>3, <3>1
      <4>2. 4 * (b - e) <= w
        BY <2>2 DEF Near
      <4> HIDE DEF a, b, e, w
      <4>3. 4 * (a - e) <= w
        BY <4>1, <4>2
      <4> QED BY <4>3 DEF Near, a, e, w
    <3>3. ~\E m \in L : RightOf(records, i, m) /\ Left(records, m) < Left(records, k)
      BY <1>1, <1>8, <2>1, <2>2, <2>3, <3>1
    <3>4. Reaches(records, i, k)
      BY <2>3, <3>1, <3>2, <3>3, ReachesIs DEF L
    <3>5. k \notin free
      <4>1. Gap(records, i, k) < Gap(records, i, j)
        BY <1>8, <2>1, <2>3, <3>1 DEF Gap, Left, Edge
      <4>2. Gap(records, i, k) \in Int /\ Gap(records, i, j) \in Int
        BY <1>8, <2>1, <3>1 DEF Gap, Left, Edge
      <4> QED BY <1>7, <1>11, <4>1, <4>2
    <3>6. PICK p \in L : <<p, k>> \in P
      BY <1>6, <3>1, <3>4, <3>5
    <3>7. p # i /\ NextTo(records, p, k)
      BY <1>1, <1>3, <3>1, <3>6
    <3>8. RightOf(records, i, p) /\ Left(records, p) < Left(records, k)
      BY <1>11, <2>3, <3>1, <3>7, OneLabel DEF L
    <3> QED BY <3>3, <3>8
  <2>4. NextTo(records, i, j)
    <3>1. \A k \in Seen(records) : Left(records, k) \in Nat
      BY <1>1, <1>8
    <3>2. Left(records, j) \in Nat
      BY <1>8, <2>1
    <3>3. \A k \in Seen(records) : RightOf(records, i, k) => Left(records, j) <= Left(records, k)
      BY <2>3, <3>1, <3>2
    <3> QED BY <1>1, <2>1, <2>2, <3>3 DEF NextTo
  <2> QED BY <2>1, <2>2, <2>4
\* There is one neighbour.
<1>12. ASSUME NEW p \in V, NEW q \in V, Nb(i, p), Nb(i, q) PROVE p = q
  <2>1. RightOf(records, i, p) /\ RightOf(records, i, q) /\ p \in Seen(records) /\ q \in Seen(records)
    BY <1>12 DEF NextTo
  <2>2. Left(records, p) <= Left(records, q) /\ Left(records, q) <= Left(records, p)
    BY <1>12, <2>1 DEF NextTo
  <2>3. p \in 1..n /\ q \in 1..n
    BY <1>1
  <2>4. Row(records, p) = Row(records, q)
    BY <2>1 DEF RightOf
  <2>5. ~(RightOf(records, p, q) \/ RightOf(records, q, p))
    BY <1>8, <2>2, <2>3, RowsAre
  <2> QED BY <2>3, <2>4, <2>5, RowsAre
<1>13. \A p \in L : p \in Nat /\ (p <= i <=> p <= i - 1 \/ p = i)
  BY <1>1
<1>14. \A p \in L, q \in V : <<p, q>> \in Neighbours(records, i) <=> <<p, q>> \in P \/ (p = i /\ Nb(p, q))
  <2> SUFFICES ASSUME NEW p \in L, NEW q \in V
               PROVE  <<p, q>> \in Neighbours(records, i) <=> <<p, q>> \in P \/ (p = i /\ Nb(p, q))
    OBVIOUS
  <2> HIDE DEF Nb
  <2>1. <<p, q>> \in P <=> p <= i - 1 /\ Nb(p, q)
    BY <1>3
  <2>2. <<p, q>> \in Neighbours(records, i) <=> p <= i /\ Nb(p, q)
    BY <1>4
  <2>3. p <= i <=> p <= i - 1 \/ p = i
    BY <1>13
  <2> QED BY <2>1, <2>2, <2>3, Zenon
<1> HIDE DEF Nb
<1>15. ASSUME i \in L, free # {} PROVE Stage(records, i, P) = Neighbours(records, i)
  <2>1. \A q \in V : Nb(i, q) <=> q = j
    BY <1>11, <1>12, <1>15
  <2>2. \A p \in L, q \in V : <<p, q>> \in Neighbours(records, i) <=> <<p, q>> \in P \cup {<<i, j>>}
    BY <1>11, <1>14, <1>15, <2>1
  <2>3. P \cup {<<i, j>>} \subseteq L \X V
    BY <1>5, <1>11, <1>15
  <2>4. Neighbours(records, i) = P \cup {<<i, j>>}
    BY <1>5, <2>2, <2>3
  <2> QED BY <1>2, <1>15, <2>4
<1>16. ASSUME ~(i \in L /\ free # {}) PROVE Stage(records, i, P) = Neighbours(records, i)
  <2>1. \A p \in L, q \in V : <<p, q>> \in Neighbours(records, i) <=> <<p, q>> \in P
    BY <1>10, <1>14, <1>16
  <2>2. Neighbours(records, i) = P
    BY <1>5, <2>1
  <2> QED BY <1>2, <1>16, <2>2
<1> QED BY <1>15, <1>16 DEF P

LEMMA FormIs ==
  ASSUME NEW n \in Nat, NEW records, Boxed(records, n), Len(records) = n, LaidOut(records)
  PROVE  PairsAreNeighbours(records, Pairs(records))
<1>1. InRows(records, n)
  BY LaidOutIs
<1>2. PICK f : Staged(records, n, f)
  BY StagesExist
<1> DEFINE S == {k \in 0..n : f[k] = Neighbours(records, k)}
<1>3. With(records, "label") \subseteq 1..n
  BY DEF With, Boxed
<1>4. 0 \in S
  <2>1. Neighbours(records, 0) = {}
    BY <1>3 DEF Neighbours
  <2>2. f[0] = {} /\ 0 \in 0..n
    BY <1>2 DEF Staged
  <2> QED BY <2>1, <2>2
<1>5. ASSUME NEW k \in 0..(n - 1), k \in S PROVE k + 1 \in S
  <2>1. k + 1 \in 1..n /\ (k + 1) - 1 = k /\ k + 1 \in 0..n
    OBVIOUS
  <2>2. f[k + 1] = Stage(records, k + 1, f[k])
    BY <1>2, <2>1 DEF Staged
  <2>3. Stage(records, k + 1, Neighbours(records, (k + 1) - 1)) = Neighbours(records, k + 1)
    BY <1>1, <2>1, NeighbourStage
  <2> QED BY <1>5, <2>1, <2>2, <2>3
<1>6. f[n] = Neighbours(records, n)
  <2>1. n \in 0..n
    OBVIOUS
  <2> HIDE DEF S
  <2>2. n \in S
    BY <1>4, <1>5, <2>1, UpInduction
  <2> QED BY <2>2 DEF S
<1>7. Pairs(records) = Neighbours(records, n)
  BY <1>2, <1>6 DEF Staged
<1> DEFINE Right(i) == {j \in Seen(records) : records[j].box.y0 = records[i].box.y0 /\ records[j].box.x0 > records[i].box.x1}
           Neighbour(i, j) == j \in Right(i) /\ \A k \in Right(i) : records[j].box.x0 <= records[k].box.x0
           IsNear(i, j) == 4 * (records[j].box.x0 - records[i].box.x1) <= PageWidth(records)
<1>8. Seen(records) \subseteq 1..n
  BY DEF With, Boxed, Seen
<1>9. \A k \in 1..n : Left(records, k) \in Nat /\ Edge(records, k) \in Nat
  BY <1>1 DEF InRows
<1>10. \A i \in 1..n, j \in Seen(records) : j \in Right(i) <=> RightOf(records, i, j)
  BY <1>8, <1>9 DEF RightOf, Row, Left, Edge
<1>11. \A i \in 1..n : \A j : Neighbour(i, j) <=> NextTo(records, i, j)
  <2> HIDE DEF Right
  <2>1. \A i : Right(i) \subseteq Seen(records)
    BY DEF Right
  <2> QED BY <1>10, <2>1 DEF NextTo, Left
<1>12. \A i, j : IsNear(i, j) <=> Near(records, i, j)
  BY DEF Near, Left, Edge
<1>13. \A pair \in With(records, "label") \X With(records, "value") :
         Neighbour(pair[1], pair[2]) /\ IsNear(pair[1], pair[2]) <=>
         pair[1] <= n /\ NextTo(records, pair[1], pair[2]) /\ Near(records, pair[1], pair[2])
  <2> SUFFICES ASSUME NEW pair \in With(records, "label") \X With(records, "value")
               PROVE Neighbour(pair[1], pair[2]) /\ IsNear(pair[1], pair[2]) <=>
                     pair[1] <= n /\ NextTo(records, pair[1], pair[2]) /\ Near(records, pair[1], pair[2])
    OBVIOUS
  <2> HIDE DEF Neighbour, IsNear
  <2>1. pair[1] \in 1..n
    BY <1>3
  <2>2. pair[1] <= n
    BY <2>1
  <2> QED BY <1>11, <1>12, <2>1, <2>2, Zenon
<1> HIDE DEF Neighbour, IsNear
<1>14. Pairs(records) = {pair \in With(records, "label") \X With(records, "value") :
                          Neighbour(pair[1], pair[2]) /\ IsNear(pair[1], pair[2])}
  BY <1>7, <1>13 DEF Neighbours
<1> QED BY <1>14, Zenon DEF PairsAreNeighbours, Neighbour, IsNear, Right, Seen

-----------------------------------------------------------------------------
(* Tables.                                                                 *)

\* A filter of two sequences is that of the first, then that of the second.
Both(m, n, A, B, C) ==
  /\ A \in SUBSET (1..m) /\ B \in SUBSET (1..n) /\ C \in SUBSET (1..(m + n))
  /\ \A k \in 1..m : k \in A <=> k \in C
  /\ \A k \in 1..n : k \in B <=> m + k \in C

LEMMA UpToJoins ==
  ASSUME NEW m \in Nat, NEW n \in Nat, NEW A, NEW B, NEW C, Both(m, n, A, B, C)
  PROVE  /\ IsFiniteSet(C) /\ Cardinality(C) = Cardinality(A) + Cardinality(B)
         /\ \A k \in 1..m : UpTo(C, k) = UpTo(A, k)
         /\ \A k \in 1..n : UpTo(C, m + k) = Cardinality(A) + UpTo(B, k)
<1>1. /\ A \in SUBSET (1..m) /\ B \in SUBSET (1..n) /\ C \in SUBSET (1..(m + n))
      /\ \A k \in 1..m : k \in A <=> k \in C
      /\ \A k \in 1..n : k \in B <=> m + k \in C
  BY DEF Both
<1>2. IsFiniteSet(C) /\ C \in SUBSET Nat /\ m + n \in Nat /\ 0 \in Nat
  <2>1. IsFiniteSet(1..(m + n)) /\ 1..(m + n) \subseteq Nat
    BY FS_Interval
  <2>2. IsFiniteSet(C)
    BY <1>1, <2>1, FS_Subset
  <2> QED BY <1>1, <2>1, <2>2
<1>3. Part(C, 0, m, A) /\ Part(C, m, n, B) /\ Part(C, 0, m + n, C)
  <2>1. \A k \in 1..m : k \in A <=> 0 + k \in C
    BY <1>1
  <2>2. \A k \in 1..(m + n) : k \in C <=> 0 + k \in C
    OBVIOUS
  <2> QED BY <1>1, <2>1, <2>2 DEF Part
<1>4. Shifts(C, 0, m, A) /\ Shifts(C, m, n, B) /\ Shifts(C, 0, m + n, C)
  BY <1>2, <1>3, UpToShifts
<1>5. UpTo(C, 0) = 0
  <2>1. {j \in C : j <= 0} = {}
    <3>1. \A j \in C : j \in 1..(m + n)
      BY <1>1
    <3>2. \A j \in 1..(m + n) : ~(j <= 0)
      OBVIOUS
    <3> QED BY <3>1, <3>2
  <2> QED BY <2>1, FS_EmptySet DEF UpTo
<1>6. /\ UpTo(A, m) = Cardinality(A) /\ UpTo(B, n) = Cardinality(B) /\ UpTo(C, m + n) = Cardinality(C)
      /\ \A k \in 0..m : UpTo(A, k) \in Nat /\ UpTo(C, 0 + k) = UpTo(C, 0) + UpTo(A, k)
      /\ \A k \in 0..n : UpTo(B, k) \in Nat /\ UpTo(C, m + k) = UpTo(C, m) + UpTo(B, k)
  BY <1>4 DEF Shifts
<1>7. \A k \in 0..m : UpTo(C, k) = UpTo(A, k)
  <2> SUFFICES ASSUME NEW k \in 0..m PROVE UpTo(C, k) = UpTo(A, k)
    OBVIOUS
  <2>1. 0 + k = k
    OBVIOUS
  <2>2. UpTo(A, k) \in Nat /\ UpTo(C, 0 + k) = UpTo(C, 0) + UpTo(A, k)
    BY <1>6
  <2> QED BY <1>5, <2>1, <2>2
<1>8. UpTo(C, m) = Cardinality(A)
  <2>1. m \in 0..m
    OBVIOUS
  <2> QED BY <1>6, <1>7, <2>1
<1>9. \A k \in 0..n : UpTo(C, m + k) = Cardinality(A) + UpTo(B, k)
  BY <1>6, <1>8
<1>10. Cardinality(C) = Cardinality(A) + Cardinality(B)
  <2>1. n \in 0..n
    OBVIOUS
  <2> QED BY <1>6, <1>9, <2>1
<1>11. (\A k \in 1..m : k \in 0..m) /\ \A k \in 1..n : k \in 0..n
  OBVIOUS
<1> QED BY <1>2, <1>7, <1>9, <1>10, <1>11

\* What is kept of a sequence, place by place.
KeptAt(V, seq, places, kept) ==
  /\ kept \in Seq(V) /\ Len(kept) = Cardinality(places) /\ Cardinality(places) \in Nat
  /\ \A i \in places : UpTo(places, i) \in 1..Cardinality(places) /\ kept[UpTo(places, i)] = seq[i]
  /\ \A k \in 1..Cardinality(places) : \E i \in places : UpTo(places, i) = k

LEMMA KeepAt ==
  ASSUME NEW V, NEW seq \in Seq(V), NEW places \in SUBSET DOMAIN seq
  PROVE  KeptAt(V, seq, places, Keep(seq, places))
<1> DEFINE kept == Keep(seq, places)
           n == Cardinality(places)
           s == Ascending(places)
<1>1. /\ IsFiniteSet(places) /\ n \in Nat
      /\ kept \in Seq(V) /\ Len(kept) = n
      /\ \A k \in 1..n : kept[k] = seq[s[k]]
  BY KeepIs
<1>2. places \in SUBSET Nat
  <2>1. DOMAIN seq = 1..Len(seq) /\ Len(seq) \in Nat
    OBVIOUS
  <2> QED BY <2>1
<1>3. /\ \A k \in 1..n : s[k] \in places /\ UpTo(places, s[k]) = k
      /\ \A i \in places : UpTo(places, i) \in 1..n
  BY <1>1, <1>2, AscendingIs, UpToIs
<1> HIDE DEF kept, n, s
<1>4. ASSUME NEW i \in places PROVE kept[UpTo(places, i)] = seq[i]
  <2> DEFINE k == UpTo(places, i)
  <2>1. k \in 1..n /\ s[k] \in places /\ UpTo(places, s[k]) = UpTo(places, i)
    BY <1>3
  <2>2. s[k] = i
    BY <1>1, <1>2, <2>1, UpToOne
  <2> QED BY <1>1, <2>1, <2>2
<1> QED BY <1>1, <1>3, <1>4 DEF KeptAt, kept, n

LEMMA KeepJoins ==
  ASSUME NEW V, NEW a \in Seq(V), NEW b \in Seq(V), NEW A, NEW B, NEW C, Both(Len(a), Len(b), A, B, C)
  PROVE  Keep(a \o b, C) = Keep(a, A) \o Keep(b, B)
<1> DEFINE m == Len(a)
           n == Len(b)
           c == a \o b
           ka == Keep(a, A)
           kb == Keep(b, B)
           kc == Keep(c, C)
           p == Cardinality(A)
           q == Cardinality(B)
<1>1. /\ A \in SUBSET DOMAIN a /\ B \in SUBSET DOMAIN b /\ C \in SUBSET (1..(m + n))
      /\ \A k \in 1..m : k \in A <=> k \in C
      /\ \A k \in 1..n : k \in B <=> m + k \in C
  BY DEF Both
<1>2. Joined(V, a, b, c)
  BY ConcatIs
<1>3. c \in Seq(V) /\ Len(c) = m + n /\ m \in Nat /\ n \in Nat /\ C \in SUBSET DOMAIN c
  BY <1>1, <1>2 DEF Joined
<1>4. /\ Cardinality(C) = p + q
      /\ \A k \in 1..m : UpTo(C, k) = UpTo(A, k)
      /\ \A k \in 1..n : UpTo(C, m + k) = p + UpTo(B, k)
  BY <1>3, UpToJoins
<1>5. KeptAt(V, a, A, ka) /\ KeptAt(V, b, B, kb) /\ KeptAt(V, c, C, kc)
  <2> HIDE DEF c
  <2> QED BY <1>1, <1>3, KeepAt
<1>6. ka \in Seq(V) /\ kb \in Seq(V) /\ kc \in Seq(V) /\ Len(ka) = p /\ Len(kb) = q /\ Len(kc) = p + q
      /\ p \in Nat /\ q \in Nat
  BY <1>4, <1>5 DEF KeptAt
<1> HIDE DEF ka, kb, kc
<1> DEFINE k2 == ka \o kb
<1>7. Joined(V, ka, kb, k2)
  BY <1>6, ConcatIs
<1>8. k2 \in Seq(V) /\ Len(k2) = p + q
      /\ (\A k \in 1..p : k2[k] = ka[k])
      /\ (\A k \in 1..q : k2[p + k] = kb[k])
  BY <1>6, <1>7 DEF Joined
<1> HIDE DEF k2
<1>9. ASSUME NEW k \in 1..(p + q) PROVE kc[k] = k2[k]
  <2>1. PICK i \in C : UpTo(C, i) = k
    BY <1>4, <1>5, <1>9 DEF KeptAt
  <2>2. kc[k] = c[i]
    BY <1>5, <2>1 DEF KeptAt
  <2>3. CASE i \in 1..m
    <3>1. i \in A /\ UpTo(A, i) = k
      BY <1>1, <1>4, <2>1, <2>3
    <3>2. k \in 1..p /\ ka[k] = a[i]
      BY <1>5, <3>1 DEF KeptAt
    <3>3. c[i] = a[i]
      BY <1>2, <2>3 DEF Joined
    <3> QED BY <1>8, <2>2, <3>2, <3>3
  <2>4. CASE i \notin 1..m
    <3> DEFINE l == i - m
    <3>1. i \in 1..(m + n)
      BY <1>1
    <3>2. l \in 1..n /\ i = m + l
      BY <1>3, <2>4, <3>1
    <3> HIDE DEF l
    <3>3. l \in B /\ k = p + UpTo(B, l)
      BY <1>1, <1>4, <2>1, <3>2
    <3>4. UpTo(B, l) \in 1..q /\ kb[UpTo(B, l)] = b[l]
      BY <1>5, <3>3 DEF KeptAt
    <3>5. c[i] = b[l]
      BY <1>2, <3>2 DEF Joined
    <3> QED BY <1>8, <2>2, <3>3, <3>4, <3>5
  <2> QED BY <2>3, <2>4
<1>10. kc = k2
  BY <1>6, <1>8, <1>9, SeqEqual
<1> QED BY <1>10 DEF kc, k2, ka, kb

-----------------------------------------------------------------------------
\* Cells, and the text that fills them.
Cells == STRING \cup {BlankCell}
FilledAt(cells) == {k \in DOMAIN cells : cells[k] # BlankCell}
Filled(cells) == Keep(cells, FilledAt(cells))

LEMMA FilledIs ==
  ASSUME NEW cells \in Seq(Cells)
  PROVE  Filled(cells) \in Seq(Cells)
<1>1. FilledAt(cells) \in SUBSET DOMAIN cells
  BY DEF FilledAt
<1> QED BY <1>1, KeepIs DEF Filled

LEMMA FilledJoins ==
  ASSUME NEW a \in Seq(Cells), NEW b \in Seq(Cells)
  PROVE  Filled(a \o b) = Filled(a) \o Filled(b)
<1> DEFINE c == a \o b
<1>1. Joined(Cells, a, b, c)
  BY ConcatIs
<1>2. DOMAIN a = 1..Len(a) /\ DOMAIN b = 1..Len(b) /\ DOMAIN c = 1..(Len(a) + Len(b))
  OBVIOUS
<1>3. /\ \A k \in 1..Len(a) : k \in 1..Len(c) /\ c[k] = a[k]
      /\ \A k \in 1..Len(b) : Len(a) + k \in 1..Len(c) /\ c[Len(a) + k] = b[k]
      /\ Len(c) = Len(a) + Len(b)
  BY <1>1 DEF Joined
<1> HIDE DEF c
<1>4. Both(Len(a), Len(b), FilledAt(a), FilledAt(b), FilledAt(c))
  BY <1>2, <1>3 DEF Both, FilledAt
<1> QED BY <1>4, KeepJoins DEF Filled, c

LEMMA NothingFilled ==
  ASSUME NEW n \in Nat
  PROVE  /\ Blanks(n) \in Seq(Cells) /\ Len(Blanks(n)) = n
         /\ Filled(Blanks(n)) = <<>> /\ Filled(<<>>) = <<>>
<1>1. BlankCell \in Cells
  BY DEF Cells
<1>2. Blanks(n) \in [1..n -> Cells]
  BY <1>1 DEF Blanks
<1>3. Blanks(n) \in Seq(Cells) /\ Len(Blanks(n)) = n
  BY <1>2
<1>4. \A s : FilledAt(s) = {} => Filled(s) = <<>>
  <2> SUFFICES ASSUME NEW s, FilledAt(s) = {} PROVE Filled(s) = <<>>
    OBVIOUS
  <2>1. Cardinality({}) = 0
    BY FS_EmptySet
  <2>2. Filled(s) = [k \in 1..0 |-> s[Ascending({})[k]]]
    BY <2>1 DEF Filled, Keep
  <2> QED BY <2>2
<1>5. FilledAt(Blanks(n)) = {}
  BY DEF FilledAt, Blanks
<1>6. FilledAt(<<>>) = {}
  BY DEF FilledAt
<1> QED BY <1>3, <1>4, <1>5, <1>6

-----------------------------------------------------------------------------
\* Rows one after the other.
Flat(rows) ==
  LET flat[n \in 0..Len(rows)] == IF n = 0 THEN <<>> ELSE flat[n - 1] \o rows[n]
  IN flat[Len(rows)]
Flattens(rows, n, f) ==
  /\ f \in [0..n -> Seq(Cells)] /\ f[0] = <<>> /\ f[n] = Flat(rows)
  /\ \A k \in 1..n : f[k] = f[k - 1] \o rows[k]

LEMMA FlatIs ==
  ASSUME NEW n \in Nat, NEW rows, Len(rows) = n, \A k \in 1..n : rows[k] \in Seq(Cells)
  PROVE  \E f : Flattens(rows, n, f)
<1> DEFINE V == Seq(Cells)
           Step(f) == [k \in 0..n |-> IF k = 0 THEN <<>> ELSE f[k - 1] \o rows[k]]
           found == CHOOSE f : f = Step(f)
           step == [p \in (1..n) \X V |-> p[2] \o rows[p[1]]]
<1>1. \A k \in 1..n, s \in V : s \o rows[k] \in V
  OBVIOUS
<1>2. \E f \in [0..n -> V] : f = Step(f)
  <2>1. step \in [(1..n) \X V -> V] /\ <<>> \in V
    <3>1. <<>> \in V
      OBVIOUS
    <3> HIDE DEF V
    <3>2. step \in [(1..n) \X V -> V]
      BY <1>1
    <3> QED BY <3>1, <3>2
  <2>2. \A k \in 1..n, s \in V : step[<<k, s>>] = s \o rows[k]
    <3> HIDE DEF V
    <3> QED OBVIOUS
  <2> HIDE DEF step, V
  <2>3. PICK f \in [0..n -> V] : f[0] = <<>> /\ \A k \in 1..n : f[k] = step[<<k, f[k - 1]>>]
    <3>1. step \in Steps(n, V)
      BY <2>1 DEF Steps
    <3>2. \E f : Recursion(f, n, V, <<>>, step)
      BY <2>1, <3>1, RecursionExists
    <3> QED BY <3>2 DEF Recursion
  <2>4. \A k \in 1..n : f[k] = f[k - 1] \o rows[k]
    <3>1. \A k \in 1..n : f[k - 1] \in V
      OBVIOUS
    <3> QED BY <2>2, <2>3, <3>1
  <2>5. \A k \in 0..n : f[k] = Step(f)[k]
    BY <2>3, <2>4
  <2>6. f = Step(f)
    BY <2>5
  <2> QED BY <2>6 DEF V
<1>3. found = Step(found)
  <2> HIDE DEF Step
  <2> QED BY <1>2, Zenon
<1>4. Flat(rows) = found[n]
  <2>1. Flat(rows) = (CHOOSE f : f = [k \in 0..Len(rows) |-> IF k = 0 THEN <<>> ELSE f[k - 1] \o rows[k]])[Len(rows)]
    BY Zenon DEF Flat
  <2> QED BY <2>1
<1> HIDE DEF found
<1>5. found[0] = <<>> /\ \A k \in 1..n : found[k] = found[k - 1] \o rows[k]
  <2>1. \A k \in 0..n : found[k] = IF k = 0 THEN <<>> ELSE found[k - 1] \o rows[k]
    BY <1>3
  <2>2. 0 \in 0..n /\ \A k \in 1..n : k \in 0..n /\ k # 0
    OBVIOUS
  <2> QED BY <2>1, <2>2
<1>6. found \in [0..n -> V]
  <2> DEFINE S == {k \in 0..n : found[k] \in V}
  <2>1. 0 \in S
    <3>1. <<>> \in V /\ 0 \in 0..n
      OBVIOUS
    <3> QED BY <1>5, <3>1
  <2>2. ASSUME NEW k \in 0..(n - 1), k \in S PROVE k + 1 \in S
    <3>1. k + 1 \in 1..n /\ (k + 1) - 1 = k /\ k + 1 \in 0..n
      OBVIOUS
    <3>2. found[k + 1] = found[k] \o rows[k + 1]
      BY <1>5, <3>1
    <3> QED BY <1>1, <2>2, <3>1, <3>2
  <2>3. \A k \in 0..n : k \in S
    <3> HIDE DEF S
    <3> QED BY <2>1, <2>2, UpInduction
  <2>4. DOMAIN found = 0..n
    BY <1>3
  <2>5. found = [k \in 0..n |-> found[k]]
    BY <1>3, <2>4
  <2> HIDE DEF V
  <2> QED BY <2>3, <2>5
<1> QED BY <1>4, <1>5, <1>6 DEF Flattens

\* A has n rows.
IsRows(A, n) == n \in Nat /\ Len(A) = n /\ \A k \in 1..n : A[k] \in Seq(Cells)

\* b rows with the text of a rows: u of the first are done when r of the others are.
SameRows(a, A, b, B, u) ==
  /\ u[0] = 0 /\ u[b] = a
  /\ \A r \in 0..b : u[r] \in 0..a
  /\ \A r \in 1..b : \/ u[r] = u[r - 1] /\ Filled(B[r]) = <<>>
                     \/ u[r] = u[r - 1] + 1 /\ Filled(B[r]) = Filled(A[u[r]])

LEMMA SameText ==
  ASSUME NEW a, NEW A, IsRows(A, a), NEW b, NEW B, IsRows(B, b), NEW u, SameRows(a, A, b, B, u)
  PROVE  Filled(Flat(A)) = Filled(Flat(B))
<1>0. /\ a \in Nat /\ Len(A) = a /\ \A k \in 1..a : A[k] \in Seq(Cells)
      /\ b \in Nat /\ Len(B) = b /\ \A k \in 1..b : B[k] \in Seq(Cells)
  BY DEF IsRows
<1>1. PICK f : Flattens(A, a, f)
  BY <1>0, FlatIs
<1>2. PICK g : Flattens(B, b, g)
  BY <1>0, FlatIs
<1>3. /\ f \in [0..a -> Seq(Cells)] /\ f[0] = <<>> /\ f[a] = Flat(A)
      /\ \A k \in 1..a : f[k] = f[k - 1] \o A[k]
  BY <1>1 DEF Flattens
<1>4. /\ g \in [0..b -> Seq(Cells)] /\ g[0] = <<>> /\ g[b] = Flat(B)
      /\ \A k \in 1..b : g[k] = g[k - 1] \o B[k]
  BY <1>2 DEF Flattens
<1> DEFINE S == {r \in 0..b : Filled(g[r]) = Filled(f[u[r]])}
<1>5. 0 \in S
  BY <1>0, <1>3, <1>4 DEF SameRows
<1>6. ASSUME NEW k \in 0..(b - 1), k \in S PROVE k + 1 \in S
  <2> DEFINE r == k + 1
  <2>1. r \in 1..b /\ r \in 0..b /\ r - 1 = k /\ k \in 0..b
    BY <1>0
  <2> HIDE DEF r
  <2>2. Filled(g[r]) = Filled(g[k]) \o Filled(B[r])
    <3>1. g[r] = g[k] \o B[r] /\ g[k] \in Seq(Cells) /\ B[r] \in Seq(Cells)
      BY <1>0, <1>4, <2>1
    <3> QED BY <3>1, FilledJoins
  <2>3. Filled(g[k]) = Filled(f[u[k]])
    BY <1>6
  <2>4. u[k] \in 0..a /\ u[r] \in 0..a
    BY <2>1 DEF SameRows
  <2>5. CASE u[r] = u[k] /\ Filled(B[r]) = <<>>
    <3>1. Filled(g[k]) \in Seq(Cells)
      <4>1. g[k] \in Seq(Cells)
        BY <1>4, <2>1
      <4> QED BY <4>1, FilledIs
    <3>2. Filled(g[k]) \o <<>> = Filled(g[k])
      BY <3>1
    <3>3. Filled(g[r]) = Filled(f[u[r]])
      BY <2>2, <2>3, <2>5, <3>2
    <3> QED BY <2>1, <3>3 DEF r
  <2>6. CASE u[r] = u[k] + 1 /\ Filled(B[r]) = Filled(A[u[r]])
    <3> DEFINE l == u[r]
               before == u[k]
    <3>0. a \in Nat /\ l \in 0..a /\ before \in 0..a /\ l = before + 1
      BY <1>0, <2>4, <2>6
    <3> HIDE DEF l, before
    <3>1. l \in 1..a /\ l - 1 = before /\ l - 1 \in 0..a
      BY <3>0
    <3>2. f[l] = f[l - 1] \o A[l] /\ f[l - 1] \in Seq(Cells) /\ A[l] \in Seq(Cells)
      BY <1>0, <1>3, <3>1
    <3>3. Filled(f[l]) = Filled(f[l - 1]) \o Filled(A[l])
      BY <3>2, FilledJoins
    <3>4. Filled(g[r]) = Filled(f[l])
      BY <2>2, <2>3, <2>6, <3>1, <3>3 DEF l, before
    <3> QED BY <2>1, <3>4 DEF r, l
  <2>7. \/ u[r] = u[r - 1] /\ Filled(B[r]) = <<>>
        \/ u[r] = u[r - 1] + 1 /\ Filled(B[r]) = Filled(A[u[r]])
    BY <2>1 DEF SameRows
  <2> QED BY <2>1, <2>5, <2>6, <2>7
<1>7. b \in S
  <2>1. b \in 0..b /\ b \in Nat
    BY <1>0
  <2> HIDE DEF S
  <2> QED BY <1>5, <1>6, <2>1, UpInduction
<1>8. u[b] = a
  BY DEF SameRows
<1> QED BY <1>3, <1>4, <1>7, <1>8

-----------------------------------------------------------------------------
\* The cells of a row, with those that a span adds.
Spanned == [text : STRING, span : Nat \ {0}]

LEMMA RowCellsIs ==
  ASSUME NEW row \in Seq(Spanned)
  PROVE  RowCells(row) \in Seq(Cells)
<1> DEFINE n == Len(row)
           V == Seq(Cells)
           Grow(k, s) == s \o <<row[k].text>> \o Blanks(row[k].span - 1)
           Step(f) == [k \in 0..n |-> IF k = 0 THEN <<>> ELSE Grow(k, f[k - 1])]
           found == CHOOSE f : f = Step(f)
           step == [p \in (1..n) \X V |-> Grow(p[1], p[2])]
<1>0. n \in Nat
  OBVIOUS
<1>1. \A k \in 1..n, s \in V : Grow(k, s) \in V
  <2> SUFFICES ASSUME NEW k \in 1..n, NEW s \in V PROVE Grow(k, s) \in V
    OBVIOUS
  <2>1. row[k] \in Spanned
    OBVIOUS
  <2>2. row[k].text \in Cells /\ row[k].span - 1 \in Nat
    BY <2>1 DEF Spanned, Cells
  <2>3. Blanks(row[k].span - 1) \in V
    BY <2>2, NothingFilled
  <2>4. <<row[k].text>> \in V
    BY <2>2
  <2> QED BY <2>3, <2>4
<1> HIDE DEF n, Grow
<1>2. \E f \in [0..n -> V] : f = Step(f)
  <2>1. step \in [(1..n) \X V -> V] /\ <<>> \in V
    <3>1. <<>> \in V
      OBVIOUS
    <3> HIDE DEF V
    <3>2. step \in [(1..n) \X V -> V]
      BY <1>1
    <3> QED BY <3>1, <3>2
  <2>2. \A k \in 1..n, s \in V : step[<<k, s>>] = Grow(k, s)
    <3> HIDE DEF V
    <3> QED OBVIOUS
  <2> HIDE DEF step, V
  <2>3. PICK f \in [0..n -> V] : f[0] = <<>> /\ \A k \in 1..n : f[k] = step[<<k, f[k - 1]>>]
    <3>1. step \in Steps(n, V)
      BY <2>1 DEF Steps
    <3>2. \E f : Recursion(f, n, V, <<>>, step)
      BY <1>0, <2>1, <3>1, RecursionExists
    <3> QED BY <3>2 DEF Recursion
  <2>4. \A k \in 1..n : f[k] = Grow(k, f[k - 1])
    <3>1. \A k \in 1..n : f[k - 1] \in V
      BY <1>0
    <3> QED BY <2>2, <2>3, <3>1
  <2>5. \A k \in 0..n : f[k] = Step(f)[k]
    BY <1>0, <2>3, <2>4
  <2>6. f = Step(f)
    BY <2>5
  <2> QED BY <2>6 DEF V
<1>3. found = Step(found)
  <2> HIDE DEF Step
  <2> QED BY <1>2, Zenon
<1>4. RowCells(row) = found[n]
  <2>1. RowCells(row) = (CHOOSE f : f = [k \in 0..Len(row) |-> IF k = 0 THEN <<>> ELSE Grow(k, f[k - 1])])[Len(row)]
    BY Zenon DEF RowCells, Grow
  <2> QED BY <2>1 DEF n
<1> HIDE DEF found
<1>5. found[0] = <<>> /\ \A k \in 1..n : found[k] = Grow(k, found[k - 1])
  <2>1. \A k \in 0..n : found[k] = IF k = 0 THEN <<>> ELSE Grow(k, found[k - 1])
    BY <1>3
  <2>2. 0 \in 0..n /\ \A k \in 1..n : k \in 0..n /\ k # 0
    BY <1>0
  <2> QED BY <2>1, <2>2
<1> DEFINE S == {k \in 0..n : found[k] \in V}
<1>6. 0 \in S
  <2>1. <<>> \in V /\ 0 \in 0..n
    BY <1>0
  <2> QED BY <1>5, <2>1
<1>7. ASSUME NEW k \in 0..(n - 1), k \in S PROVE k + 1 \in S
  <2>1. k + 1 \in 1..n /\ (k + 1) - 1 = k /\ k + 1 \in 0..n
    BY <1>0
  <2> HIDE DEF V
  <2>2. found[k] \in V
    BY <1>7
  <2>3. found[k + 1] = Grow(k + 1, found[k])
    BY <1>5, <2>1
  <2>4. found[k + 1] \in V
    BY <1>1, <2>1, <2>2, <2>3
  <2> QED BY <2>1, <2>4
<1>8. n \in S
  <2>1. n \in 0..n
    BY <1>0
  <2> HIDE DEF S
  <2> QED BY <1>0, <1>6, <1>7, <2>1, UpInduction
<1> QED BY <1>4, <1>8

\* The rows that have cells, all as wide as the widest.
Padding(cells, n, places, width, padded) ==
  /\ DOMAIN padded = 1..Cardinality(places) /\ Cardinality(places) \in Nat /\ width \in Nat
  /\ Len(padded) = Cardinality(places)
  /\ \A k \in 1..Cardinality(places) :
       padded[k] \in Seq(Cells) /\ Len(padded[k]) = width
  /\ \A r \in places : Filled(padded[UpTo(places, r)]) = Filled(cells[r])

Padded(cells, places, rows, widths, width, padded) ==
  /\ rows = Keep(cells, places)
  /\ widths = {Len(rows[r]) : r \in DOMAIN rows}
  /\ width = CHOOSE w \in widths : \A v \in widths : v <= w
  /\ padded = [r \in DOMAIN rows |-> rows[r] \o Blanks(width - Len(rows[r]))]

LEMMA SeqFacts ==
  ASSUME NEW V, NEW n \in Nat
  PROVE  /\ \A f \in [1..n -> V] : f \in Seq(V) /\ Len(f) = n
         /\ \A s \in Seq(V) : Len(s) = 0 => s = <<>>
         /\ \A a, b \in Seq(V) : a \o b \in Seq(V) /\ Len(a \o b) = Len(a) + Len(b)
OBVIOUS

LEMMA PaddingIs ==
  ASSUME NEW n \in Nat, NEW cells \in Seq(Seq(Cells)), Len(cells) = n, NEW places \in SUBSET (1..n),
         NEW rows, NEW widths, NEW width, NEW padded, Padded(cells, places, rows, widths, width, padded),
         rows # <<>>
  PROVE  Padding(cells, n, places, width, padded)
<1> DEFINE m == Cardinality(places)
           V == Seq(Cells)
<1>1. KeptAt(V, cells, places, rows)
  <2>1. cells \in Seq(V) /\ places \in SUBSET DOMAIN cells
    OBVIOUS
  <2>2. rows = Keep(cells, places)
    BY DEF Padded
  <2> HIDE DEF V
  <2> QED BY <2>1, <2>2, KeepAt
<1>2. /\ rows \in Seq(V) /\ Len(rows) = m /\ m \in Nat
      /\ \A i \in places : UpTo(places, i) \in 1..m /\ rows[UpTo(places, i)] = cells[i]
  BY <1>1 DEF KeptAt
<1> HIDE DEF m
<1>3. DOMAIN rows = 1..m /\ \A k \in 1..m : rows[k] \in V
  <2> HIDE DEF V
  <2> QED BY <1>2
<1>4. m # 0
  <2> HIDE DEF V
  <2> QED BY <1>2, SeqFacts
<1>5. \A k \in 1..m : Len(rows[k]) \in Nat
  BY <1>3
<1> HIDE DEF V
<1>6. widths \in SUBSET Nat /\ widths # {} /\ IsFiniteSet(widths)
  <2>1. widths = {Len(rows[k]) : k \in 1..m}
    BY <1>3 DEF Padded
  <2>2. widths \in SUBSET Nat
    BY <1>5, <2>1
  <2>3. 1 \in 1..m
    BY <1>2, <1>4
  <2>4. IsFiniteSet(widths)
    <3> DEFINE f == [k \in 1..m |-> Len(rows[k])]
    <3>1. f \in Surjection(1..m, widths)
      BY <2>1 DEF Surjection
    <3>2. IsFiniteSet(1..m)
      BY <1>2, FS_Interval
    <3> HIDE DEF f
    <3> QED BY <3>1, <3>2, FS_Surjection
  <2> QED BY <2>1, <2>2, <2>3, <2>4
<1>7. width \in widths /\ \A v \in widths : v <= width
  <2>1. width = CHOOSE w \in widths : \A v \in widths : v <= w
    BY DEF Padded
  <2>2. \E w \in widths : \A v \in widths : v <= w
    BY <1>6, GreatestExists
  <2> QED BY <2>1, <2>2
<1>8. width \in Nat /\ \A k \in 1..m : Len(rows[k]) <= width
  BY <1>3, <1>6, <1>7 DEF Padded
<1>9. ASSUME NEW k \in 1..m
      PROVE  padded[k] \in Seq(Cells) /\ Len(padded[k]) = width /\ Filled(padded[k]) = Filled(rows[k])
  <2> DEFINE row == rows[k]
             d == width - Len(row)
  <2>1. row \in Seq(Cells) /\ d \in Nat /\ Len(row) + d = width /\ Len(row) \in Nat
    <3>1. row \in Seq(Cells)
      BY <1>3 DEF V
    <3> DEFINE l == Len(row)
    <3>2. l \in Nat /\ l <= width /\ d = width - l
      BY <1>5, <1>8
    <3> HIDE DEF d, l, row
    <3>3. d \in Nat /\ l + d = width
      BY <1>8, <3>2
    <3> QED BY <3>1, <3>2, <3>3 DEF l
  <2>2. padded[k] = row \o Blanks(d)
    BY <1>3 DEF Padded
  <2> HIDE DEF row, d
  <2>3. Blanks(d) \in Seq(Cells) /\ Len(Blanks(d)) = d /\ Filled(Blanks(d)) = <<>>
    BY <2>1, NothingFilled
  <2>4. padded[k] \in Seq(Cells) /\ Len(padded[k]) = width
    <3>1. \A a, b \in Seq(Cells) : a \o b \in Seq(Cells) /\ Len(a \o b) = Len(a) + Len(b)
      OBVIOUS
    <3>2. row \o Blanks(d) \in Seq(Cells) /\ Len(row \o Blanks(d)) = Len(row) + Len(Blanks(d))
      BY <2>1, <2>3, <3>1
    <3> QED BY <2>1, <2>2, <2>3, <3>2
  <2>5. Filled(padded[k]) = Filled(row) \o Filled(Blanks(d))
    BY <2>1, <2>2, <2>3, FilledJoins
  <2>6. Filled(row) \o <<>> = Filled(row)
    <3>1. Filled(row) \in Seq(Cells)
      BY <2>1, FilledIs
    <3> QED BY <3>1
  <2>7. Filled(padded[k]) = Filled(row)
    BY <2>3, <2>5, <2>6
  <2> QED BY <2>4, <2>7 DEF row
<1>10. \A r \in places : Filled(padded[UpTo(places, r)]) = Filled(cells[r])
  <2> SUFFICES ASSUME NEW r \in places PROVE Filled(padded[UpTo(places, r)]) = Filled(cells[r])
    OBVIOUS
  <2> DEFINE k == UpTo(places, r)
  <2>1. k \in 1..m /\ rows[k] = cells[r]
    BY <1>2
  <2> HIDE DEF k
  <2>2. Filled(padded[k]) = Filled(cells[r])
    BY <1>9, <2>1
  <2> QED BY <2>2 DEF k
<1>11. DOMAIN padded = 1..m /\ Len(padded) = m
  <2>1. DOMAIN padded = 1..m
    BY <1>3 DEF Padded
  <2>2. padded = [k \in 1..m |-> padded[k]]
    BY <1>3 DEF Padded
  <2>3. padded \in Seq(V)
    <3>1. \A k \in 1..m : padded[k] \in V
      BY <1>9 DEF V
    <3>2. padded \in [1..m -> V]
      BY <2>2, <3>1
    <3> QED BY <1>2, <3>2, SeqFacts
  <2> DEFINE it == padded
  <2>4. it \in [1..m -> V]
    BY <1>9, <2>2 DEF V
  <2> HIDE DEF it
  <2>5. Len(it) = m
    BY <1>2, <2>4, SeqFacts
  <2> QED BY <2>1, <2>5 DEF it
<1> QED BY <1>2, <1>8, <1>9, <1>10, <1>11 DEF Padding, m

\* The number of places grows by one at each of them, up to m.
Counted(places, n, m, r) ==
  /\ UpTo(places, r) \in 0..m
  /\ UpTo(places, 0) = 0 /\ UpTo(places, n) = m
  /\ r # 0 => UpTo(places, r) = IF r \in places THEN UpTo(places, r - 1) + 1 ELSE UpTo(places, r - 1)

LEMMA RowsIs ==
  ASSUME NEW n \in Nat, NEW places \in SUBSET (1..n), NEW r \in 0..n
  PROVE  /\ Cardinality(places) \in Nat
         /\ Counted(places, n, Cardinality(places), r)
<1>1. IsFiniteSet(places) /\ places \in SUBSET Nat /\ Cardinality(places) \in Nat
  <2>1. IsFiniteSet(1..n) /\ 1..n \subseteq Nat
    BY FS_Interval
  <2>2. IsFiniteSet(places)
    BY <2>1, FS_Subset
  <2> QED BY <2>1, <2>2, FS_CardinalityType
<1> DEFINE To(k) == {j \in places : j <= k}
<1>2. \A k : To(k) \in SUBSET places
  OBVIOUS
<1>3. \A j \in places : j \in 1..n
  OBVIOUS
<1>4. To(0) = {} /\ To(n) = places
  <2>1. \A j \in 1..n : ~(j <= 0) /\ j <= n
    OBVIOUS
  <2> QED BY <1>3, <2>1
<1>5. r # 0 => To(r) = IF r \in places THEN To(r - 1) \cup {r} ELSE To(r - 1)
  <2>1. r # 0 => \A j \in 1..n : j <= r <=> j <= r - 1 \/ j = r
    OBVIOUS
  <2> QED BY <1>3, <2>1
<1>6. ~(r <= r - 1)
  OBVIOUS
<1>7. r \notin To(r - 1)
  BY <1>6
<1> HIDE DEF To
<1>8. \A k : IsFiniteSet(To(k)) /\ Cardinality(To(k)) \in Nat /\ Cardinality(To(k)) <= Cardinality(places)
  BY <1>1, <1>2, FS_Subset, FS_CardinalityType
<1>9. \A k : UpTo(places, k) = Cardinality(To(k))
  BY DEF UpTo, To
<1>10. r # 0 => Cardinality(To(r)) = IF r \in places THEN Cardinality(To(r - 1)) + 1 ELSE Cardinality(To(r - 1))
  BY <1>5, <1>7, <1>8, FS_AddElement
<1>11. Cardinality({}) = 0
  BY FS_EmptySet
<1> QED BY <1>1, <1>4, <1>8, <1>9, <1>10, <1>11 DEF Counted

\* The lines, line by line.
Lined(padded, m, width, lines, offset) ==
  /\ Len(lines) = m + offset
  /\ offset = 1 => lines[1] = Blanks(width)
  /\ \A k \in 1..m : lines[k + offset] = padded[k]

Heads(padded, m, width, header, data) ==
  /\ \E offset \in {0, 1} : Lined(padded, m, width, <<header>> \o data, offset)
  /\ <<header>> \o data \in Seq(Seq(Cells))
  /\ DOMAIN data = 1..Len(data)
  /\ \A r \in DOMAIN data : \E k \in 1..m : data[r] = padded[k]

LEMMA LinedIs ==
  ASSUME NEW m \in Nat, NEW padded \in Seq(Seq(Cells)), Len(padded) = m, NEW width \in Nat,
         NEW header, NEW data, m # 0,
         \/ header = padded[1] /\ data = Tail(padded)
         \/ header = Blanks(width) /\ data = padded
  PROVE  Heads(padded, m, width, header, data)
<1> DEFINE V == Seq(Cells)
           lines == <<header>> \o data
<1>1. DOMAIN padded = 1..m /\ \A k \in 1..m : padded[k] \in V
  <2> HIDE DEF V
  <2> QED BY DEF V
<1>2. Blanks(width) \in V
  BY NothingFilled
<1>3. 1 \in 1..m
  OBVIOUS
<1>4. CASE header = padded[1] /\ data = Tail(padded)
  <2>1. header \in V
    BY <1>1, <1>3, <1>4
  <2> HIDE DEF V
  <2>2. padded \in Seq(V)
    BY DEF V
  <2>3. data \in Seq(V) /\ Len(data) = m - 1 /\ \A k \in 1..(m - 1) : data[k] = padded[k + 1]
    <3>1. padded # <<>>
      OBVIOUS
    <3> QED BY <1>4, <2>2, <3>1, HeadTailProperties
  <2>4. <<header>> \in Seq(V) /\ Len(<<header>>) = 1 /\ <<header>>[1] = header /\ 1..1 = {1}
    BY <2>1
  <2>5. Joined(V, <<header>>, data, lines)
    BY <2>3, <2>4, ConcatIs
  <2>6. lines \in Seq(V) /\ Len(lines) = m /\ lines[1] = header /\ \A k \in 1..(m - 1) : lines[1 + k] = data[k]
    BY <2>3, <2>4, <2>5 DEF Joined
  <2> HIDE DEF lines
  <2>7. ASSUME NEW k \in 1..m PROVE lines[k] = padded[k]
    <3>1. CASE k = 1
      BY <1>4, <2>6, <3>1
    <3>2. CASE k # 1
      <4>1. k - 1 \in 1..(m - 1) /\ 1 + (k - 1) = k /\ (k - 1) + 1 = k
        BY <3>2
      <4> QED BY <2>3, <2>6, <4>1
    <3> QED BY <3>1, <3>2
  <2>8. Lined(padded, m, width, lines, 0)
    <3>1. \A k \in 1..m : k + 0 = k
      OBVIOUS
    <3> QED BY <2>6, <2>7, <3>1 DEF Lined
  <2>9. DOMAIN data = 1..Len(data)
    BY <2>3
  <2>10. ASSUME NEW r \in DOMAIN data PROVE \E k \in 1..m : data[r] = padded[k]
    <3>1. r \in 1..(m - 1) /\ r + 1 \in 1..m
      BY <2>3, <2>9
    <3> QED BY <2>3, <3>1
  <2> QED BY <2>6, <2>8, <2>9, <2>10 DEF lines, V, Heads
<1>5. CASE header = Blanks(width) /\ data = padded
  <2>1. header \in V
    BY <1>2, <1>5
  <2> HIDE DEF V
  <2>2. data \in Seq(V) /\ Len(data) = m
    BY <1>5 DEF V
  <2>4. <<header>> \in Seq(V) /\ Len(<<header>>) = 1 /\ <<header>>[1] = header /\ 1..1 = {1}
    BY <2>1
  <2>5. Joined(V, <<header>>, data, lines)
    BY <2>2, <2>4, ConcatIs
  <2>6. lines \in Seq(V) /\ Len(lines) = m + 1 /\ lines[1] = header /\ \A k \in 1..m : lines[1 + k] = data[k]
    BY <2>2, <2>4, <2>5 DEF Joined
  <2> HIDE DEF lines
  <2>7. Lined(padded, m, width, lines, 1)
    <3>1. \A k \in 1..m : 1 + k = k + 1
      OBVIOUS
    <3> QED BY <1>5, <2>6, <3>1 DEF Lined
  <2>8. DOMAIN data = 1..Len(data) /\ \A r \in DOMAIN data : r \in 1..m /\ data[r] = padded[r]
    BY <1>1, <1>5, <2>2
  <2> QED BY <2>6, <2>7, <2>8 DEF lines, V, Heads
<1> QED BY <1>4, <1>5

\* padded has, at the place of each row that is kept, that row with more cells.
Fills(cells, n, places, padded, m) ==
  /\ cells \in Seq(Seq(Cells)) /\ Len(cells) = n /\ n \in Nat
  /\ places \in SUBSET (1..n)
  /\ \A r \in 1..n : r \in places <=> cells[r] # <<>>
  /\ m \in Nat /\ m = Cardinality(places)
  /\ padded \in Seq(Seq(Cells)) /\ Len(padded) = m
  /\ \A r \in places : Filled(padded[UpTo(places, r)]) = Filled(cells[r])

LEMMA PaddedText ==
  ASSUME NEW n, NEW cells, NEW places, NEW m, NEW padded, Fills(cells, n, places, padded, m)
  PROVE  Filled(Flat(padded)) = Filled(Flat(cells))
<1>0. /\ cells \in Seq(Seq(Cells)) /\ Len(cells) = n /\ n \in Nat
      /\ places \in SUBSET (1..n)
      /\ \A r \in 1..n : r \in places <=> cells[r] # <<>>
      /\ m \in Nat /\ m = Cardinality(places)
      /\ padded \in Seq(Seq(Cells)) /\ Len(padded) = m
      /\ \A r \in places : Filled(padded[UpTo(places, r)]) = Filled(cells[r])
  BY DEF Fills
<1> DEFINE u == [r \in 0..n |-> UpTo(places, r)]
<1>1. places \in SUBSET (1..n)
  BY <1>0
<1>2. /\ m \in Nat
      /\ \A r \in 0..n : UpTo(places, r) \in 0..m
      /\ UpTo(places, 0) = 0 /\ UpTo(places, n) = m
      /\ \A r \in 1..n : UpTo(places, r) = IF r \in places THEN UpTo(places, r - 1) + 1 ELSE UpTo(places, r - 1)
  <2>1. 0 \in 0..n /\ n \in 0..n /\ \A r \in 1..n : r \in 0..n /\ r # 0
    BY <1>0
  <2>2. \A r \in 0..n :
          /\ UpTo(places, r) \in 0..m
          /\ UpTo(places, 0) = 0 /\ UpTo(places, n) = m
          /\ r # 0 => UpTo(places, r) = IF r \in places THEN UpTo(places, r - 1) + 1 ELSE UpTo(places, r - 1)
    <3> SUFFICES ASSUME NEW r \in 0..n
                 PROVE  /\ UpTo(places, r) \in 0..m
                        /\ UpTo(places, 0) = 0 /\ UpTo(places, n) = m
                        /\ r # 0 => UpTo(places, r) = IF r \in places THEN UpTo(places, r - 1) + 1 ELSE UpTo(places, r - 1)
      OBVIOUS
    <3>1. Counted(places, n, m, r)
      BY <1>0, RowsIs
    <3> QED BY <3>1 DEF Counted
  <2> QED BY <2>1, <2>2
<1>3. /\ \A r \in 1..n : r \in places <=> cells[r] # <<>>
      /\ \A r \in places : Filled(padded[UpTo(places, r)]) = Filled(cells[r])
  BY <1>0
<1>4. \A r \in 1..n : r \in 0..n /\ r - 1 \in 0..n
  BY <1>0
<1>5. Filled(<<>>) = <<>>
  BY NothingFilled
<1> DEFINE same == SameRows(m, padded, n, cells, u)
<1>6. u[0] = 0 /\ u[n] = m /\ \A r \in 0..n : u[r] = UpTo(places, r)
  <2>1. 0 \in 0..n /\ n \in 0..n
    BY <1>0
  <2>2. \A r \in 0..n : u[r] = UpTo(places, r)
    OBVIOUS
  <2> HIDE DEF u
  <2> QED BY <1>2, <2>1, <2>2
<1> HIDE DEF u
<1>7. same
  <2>1. ASSUME NEW r \in 1..n
        PROVE  \/ u[r] = u[r - 1] /\ Filled(cells[r]) = <<>>
               \/ u[r] = u[r - 1] + 1 /\ Filled(cells[r]) = Filled(padded[u[r]])
    <3>1. u[r] = UpTo(places, r) /\ u[r - 1] = UpTo(places, r - 1)
      BY <1>4, <1>6
    <3>2. CASE r \in places
      BY <1>2, <1>3, <3>1, <3>2
    <3>3. CASE r \notin places
      BY <1>2, <1>3, <1>5, <3>1, <3>3
    <3> QED BY <3>2, <3>3
  <2>2. \A r \in 0..n : u[r] \in 0..m
    BY <1>2, <1>6
  <2> QED BY <1>6, <2>1, <2>2 DEF SameRows
<1>8. (\A k \in 1..m : padded[k] \in Seq(Cells)) /\ \A k \in 1..n : cells[k] \in Seq(Cells)
  <2> DEFINE V == Seq(Cells)
  <2>1. padded \in Seq(V) /\ cells \in Seq(V)
    BY <1>0
  <2> HIDE DEF V
  <2>2. (\A k \in 1..m : padded[k] \in V) /\ \A k \in 1..n : cells[k] \in V
    BY <1>0, <2>1
  <2> QED BY <2>2 DEF V
<1> HIDE DEF same
<1>9. IsRows(padded, m) /\ IsRows(cells, n)
  BY <1>0, <1>8 DEF IsRows
<1>10. SameRows(m, padded, n, cells, u)
  BY <1>7 DEF same
<1> QED BY <1>9, <1>10, SameText

LEMMA LinedText ==
  ASSUME NEW m \in Nat, NEW padded \in Seq(Seq(Cells)), Len(padded) = m, NEW width \in Nat,
         NEW lines \in Seq(Seq(Cells)), NEW offset \in {0, 1}, Lined(padded, m, width, lines, offset)
  PROVE  Filled(Flat(padded)) = Filled(Flat(lines))
<1> DEFINE b == m + offset
           u == [r \in 0..b |-> IF r = 0 THEN 0 ELSE r - offset]
<1>1. /\ Len(lines) = b /\ b \in Nat
      /\ offset = 1 => lines[1] = Blanks(width)
      /\ \A k \in 1..m : lines[k + offset] = padded[k]
  <2>1. b \in Nat
    OBVIOUS
  <2> HIDE DEF u
  <2> QED BY <2>1 DEF Lined
<1>2. /\ u[0] = 0 /\ u[b] = m
      /\ \A r \in 0..b : u[r] \in 0..m
      /\ \A r \in 1..b : u[r] = r - offset /\ u[r - 1] = IF r = 1 THEN 0 ELSE r - 1 - offset
  OBVIOUS
<1>3. Filled(Blanks(width)) = <<>>
  BY NothingFilled
<1> HIDE DEF u, b
<1>4. ASSUME NEW r \in 1..b
      PROVE  \/ u[r] = u[r - 1] /\ Filled(lines[r]) = <<>>
             \/ u[r] = u[r - 1] + 1 /\ Filled(lines[r]) = Filled(padded[u[r]])
  <2>1. r \in Nat /\ r >= 1
    OBVIOUS
  <2>2. CASE r = 1 /\ offset = 1
    <3>1. u[r] = 0 /\ u[r - 1] = 0
      BY <1>2, <2>2
    <3> QED BY <1>1, <1>3, <2>2, <3>1
  <2>3. CASE ~(r = 1 /\ offset = 1)
    <3> DEFINE k == r - offset
    <3>1. k \in 1..m /\ k + offset = r
      BY <1>1, <2>3 DEF b
    <3>2. u[r] = k /\ u[r - 1] + 1 = k
      BY <1>2, <2>3
    <3> HIDE DEF k
    <3> QED BY <1>1, <3>1, <3>2
  <2> QED BY <2>2, <2>3
<1>5. SameRows(m, padded, b, lines, u)
  BY <1>2, <1>4 DEF SameRows
<1>6. (\A k \in 1..m : padded[k] \in Seq(Cells)) /\ \A k \in 1..b : lines[k] \in Seq(Cells)
  <2> DEFINE V == Seq(Cells)
  <2>1. padded \in Seq(V) /\ lines \in Seq(V)
    OBVIOUS
  <2> HIDE DEF V
  <2>2. (\A k \in 1..m : padded[k] \in V) /\ \A k \in 1..b : lines[k] \in V
    BY <1>1, <2>1
  <2> QED BY <2>2 DEF V
<1>7. IsRows(padded, m) /\ IsRows(lines, b)
  BY <1>1, <1>6 DEF IsRows
<1> QED BY <1>5, <1>7, SameText

LEMMA TableIs ==
  ASSUME NEW html \in Seq(Seq(Spanned)), NEW th
  PROVE  TableKeepsCells(html, Table(html, th))
<1> DEFINE n == Len(html)
           cells == [r \in DOMAIN html |-> RowCells(html[r])]
           places == {r \in DOMAIN html : cells[r] # <<>>}
           rows == Keep(cells, places)
           widths == {Len(rows[r]) : r \in DOMAIN rows}
           width == CHOOSE w \in widths : \A v \in widths : v <= w
           padded == [r \in DOMAIN rows |-> rows[r] \o Blanks(width - Len(rows[r]))]
           table == Table(html, th)
           m == Cardinality(places)
           first == FirstRowIsHeader(padded, th)
           V == Seq(Cells)
<1>1. n \in Nat /\ DOMAIN html = 1..n /\ \A r \in 1..n : html[r] \in Seq(Spanned)
  OBVIOUS
<1>2. cells \in Seq(V) /\ Len(cells) = n
  <2>1. \A r \in 1..n : RowCells(html[r]) \in V
    BY <1>1, RowCellsIs
  <2>2. cells \in [1..n -> V]
    <3> HIDE DEF V
    <3> QED BY <1>1, <2>1
  <2> HIDE DEF cells, V, n
  <2> QED BY <1>1, <2>2, SeqFacts
<1>3. table = IF rows = <<>> THEN [header |-> <<>>, data |-> <<>>]
              ELSE [header |-> IF first THEN padded[1] ELSE Blanks(width),
                    data   |-> IF first THEN Tail(padded) ELSE padded]
  BY Zenon DEF Table, DataRows
<1>4. Padded(cells, places, rows, widths, width, padded)
  BY Zenon DEF Padded
<1> HIDE DEF cells, rows, widths, width, padded, table, first
<1>5. places \in SUBSET (1..n) /\ \A r \in 1..n : r \in places <=> cells[r] # <<>>
  BY <1>1
<1>6. KeptAt(V, cells, places, rows)
  <2>1. places \in SUBSET DOMAIN cells /\ cells \in Seq(V)
    BY <1>2, <1>5
  <2> HIDE DEF V, places
  <2> QED BY <2>1, KeepAt DEF rows
<1> HIDE DEF n, places, V
<1>7. rows \in Seq(V) /\ Len(rows) = m /\ m \in Nat
  BY <1>6 DEF KeptAt
<1> HIDE DEF m
<1> DEFINE lines == <<table.header>> \o table.data
<1>8. CASE rows = <<>>
  <2>1. table.header = <<>> /\ table.data = <<>>
    BY <1>3, <1>8
  <2>2. m = 0
    BY <1>7, <1>8
  <2> DEFINE none == <<>>
  <2>3. none \in Seq(V) /\ Len(none) = 0 /\ none \in V /\ \A r \in DOMAIN none : FALSE
    BY DEF V
  <2>4. \A r \in places : FALSE
    <3>1. \A r \in places : UpTo(places, r) \in 1..m
      BY <1>6 DEF KeptAt, m
    <3> QED BY <2>2, <3>1
  <2>5. Filled(Flat(none)) = Filled(Flat(cells))
    <3>1. none \in Seq(Seq(Cells)) /\ Len(none) = m
      BY <2>2, <2>3 DEF V
    <3>2. cells \in Seq(Seq(Cells)) /\ Len(cells) = n /\ n \in Nat /\ m \in Nat
      BY <1>1, <1>2, <1>7 DEF V
    <3>3. \A r \in places : Filled(none[UpTo(places, r)]) = Filled(cells[r])
      BY <2>4
    <3>4. m = Cardinality(places)
      BY DEF m
    <3> HIDE DEF none
    <3>5. Fills(cells, n, places, none, m)
      BY <1>5, <3>1, <3>2, <3>3, <3>4 DEF Fills
    <3> QED BY <3>5, PaddedText
  <2> DEFINE u == [r \in 0..1 |-> 0]
  <2>6. lines = <<none>> /\ Len(lines) = 1 /\ lines[1] = none
    BY <2>1
  <2>7. Filled(none) = none
    BY NothingFilled
  <2> HIDE DEF none, lines
  <2>8. SameRows(0, none, 1, lines, u)
    <3>1. u[0] = 0 /\ u[1] = 0 /\ (\A r \in 0..1 : u[r] \in 0..0) /\ \A r \in 1..1 : r = 1 /\ r - 1 = 0
      OBVIOUS
    <3> HIDE DEF u
    <3> QED BY <2>6, <2>7, <3>1 DEF SameRows, none
  <2>9. Filled(Flat(none)) = Filled(Flat(lines))
    <3>1. (\A k \in 1..0 : none[k] \in Seq(Cells)) /\ \A k \in 1..1 : lines[k] \in Seq(Cells)
      BY <2>3, <2>6 DEF V
    <3>2. Len(none) = 0 /\ 0 \in Nat /\ 1 \in Nat
      BY <2>3
    <3> DEFINE zero == 0
               one == 1
    <3>3. zero \in Nat /\ one \in Nat /\ Len(none) = zero /\ Len(lines) = one
      BY <2>6, <3>2
    <3>4. (\A k \in 1..zero : none[k] \in Seq(Cells)) /\ \A k \in 1..one : lines[k] \in Seq(Cells)
      BY <3>1
    <3>5. SameRows(zero, none, one, lines, u)
      BY <2>8
    <3>6. IsRows(none, zero) /\ IsRows(lines, one)
      BY <3>3, <3>4 DEF IsRows
    <3> HIDE DEF zero, one, u
    <3> QED BY <3>5, <3>6, SameText
  <2>10. Filled(Flat(lines)) = Filled(Flat(cells))
    BY <2>5, <2>9
  <2>11. \A r \in DOMAIN table.data : Len(table.data[r]) = Len(table.header)
    BY <2>1, <2>3 DEF none
  <2> QED BY <2>10, <2>11, Zenon DEF TableKeepsCells, Filled, FilledAt, Flat, lines, cells, table
<1>9. CASE rows # <<>>
  <2>1. Padding(cells, n, places, width, padded)
    BY <1>1, <1>2, <1>4, <1>5, <1>9, PaddingIs DEF V
  <2>2. /\ DOMAIN padded = 1..m /\ width \in Nat /\ Len(padded) = m
        /\ \A k \in 1..m : padded[k] \in V /\ Len(padded[k]) = width
        /\ \A r \in places : Filled(padded[UpTo(places, r)]) = Filled(cells[r])
    BY <2>1 DEF Padding, m, V
  <2>3. m # 0
    BY <1>7, <1>9, SeqFacts
  <2>4. padded \in Seq(V)
    <3>1. padded = [k \in 1..m |-> padded[k]]
      BY <2>2 DEF padded
    <3>2. padded \in [1..m -> V]
      BY <2>2, <3>1
    <3> QED BY <1>7, <3>2, SeqFacts
  <2>5. Filled(Flat(padded)) = Filled(Flat(cells))
    <3>1. padded \in Seq(Seq(Cells)) /\ Len(padded) = m
      BY <2>2, <2>4 DEF V
    <3>2. cells \in Seq(Seq(Cells)) /\ Len(cells) = n /\ n \in Nat /\ m \in Nat
      BY <1>1, <1>2, <1>7 DEF V
    <3>3. m = Cardinality(places)
      BY DEF m
    <3>4. \A r \in places : Filled(padded[UpTo(places, r)]) = Filled(cells[r])
      BY <2>2
    <3>5. Fills(cells, n, places, padded, m)
      BY <1>5, <3>1, <3>2, <3>3, <3>4 DEF Fills
    <3> QED BY <3>5, PaddedText
  <2>6. \/ table.header = padded[1] /\ table.data = Tail(padded)
        \/ table.header = Blanks(width) /\ table.data = padded
    BY <1>3, <1>9
  <2>7. /\ \E offset \in {0, 1} : Lined(padded, m, width, lines, offset)
        /\ lines \in Seq(Seq(Cells))
        /\ DOMAIN table.data = 1..Len(table.data)
        /\ \A r \in DOMAIN table.data : \E k \in 1..m : table.data[r] = padded[k]
    <3> DEFINE header == table.header
               data == table.data
    <3>1. padded \in Seq(Seq(Cells)) /\ Len(padded) = m /\ m \in Nat /\ m # 0 /\ width \in Nat
      BY <1>7, <2>2, <2>3, <2>4 DEF V
    <3>2. \/ header = padded[1] /\ data = Tail(padded)
          \/ header = Blanks(width) /\ data = padded
      BY <2>6
    <3> HIDE DEF header, data
    <3>3. Heads(padded, m, width, header, data)
      BY <3>1, <3>2, LinedIs
    <3> QED BY <3>3 DEF Heads, header, data
  <2>8. Filled(Flat(lines)) = Filled(Flat(cells))
    <3>1. PICK offset \in {0, 1} : Lined(padded, m, width, lines, offset)
      BY <2>7
    <3>2. Filled(Flat(padded)) = Filled(Flat(lines))
      <4> HIDE DEF lines
      <4> QED BY <1>7, <2>2, <2>4, <2>7, <3>1, LinedText DEF V
    <3> QED BY <2>5, <3>2
  <2>9. Len(table.header) = width
    <3>1. 1 \in 1..m
      BY <1>7, <2>3
    <3> QED BY <2>2, <2>6, <3>1, NothingFilled
  <2>10. \A r \in DOMAIN table.data : Len(table.data[r]) = Len(table.header)
    BY <2>2, <2>7, <2>9
  <2> QED BY <2>8, <2>10, Zenon DEF TableKeepsCells, Filled, FilledAt, Flat, lines, cells, table
<1> QED BY <1>8, <1>9

-----------------------------------------------------------------------------
(* The algorithms as steps: each computes for its own input what its       *)
(* property asks of it, and no other step touches its input or output.     *)

LEMMA FetchKeeps == Fetch => UNCHANGED chosen
  BY DEF Fetch

LEMMA EveryStep ==
  ASSUME [AlgorithmsNext]_<<vars, chosen>>
  PROVE  \/ UNCHANGED chosen
         \/ ListHonest \/ ListHostile \/ WalkMail \/ ConvertMail
         \/ ChunkPdf \/ ArrangeBlocks \/ PairForm \/ PairAnywhere \/ RenderTable
         \/ Grade \/ FindDates \/ Compare \/ PruneLog \/ Identify
BY FetchKeeps DEF AlgorithmsNext

LEMMA StepNames ==
  /\ ListHonest => algorithm' = "honest"
  /\ ListHostile => algorithm' = "hostile"
  /\ WalkMail => algorithm' = "mail"
  /\ ConvertMail => algorithm' = "eml"
  /\ ChunkPdf => algorithm' = "chunks"
  /\ ArrangeBlocks => algorithm' = "blocks"
  /\ PairForm => algorithm' = "form"
  /\ PairAnywhere => algorithm' = "pairs"
  /\ RenderTable => algorithm' = "table"
  /\ Grade => algorithm' = "grade"
  /\ FindDates => algorithm' = "dates"
  /\ Compare => algorithm' = "report"
  /\ PruneLog => algorithm' = "prune"
  /\ Identify => algorithm' = "client"
<1>1. ListHonest => algorithm' = "honest"
  BY Zenon DEF ListHonest, Computes
<1>2. ListHostile => algorithm' = "hostile"
  BY Zenon DEF ListHostile, Computes
<1>3. WalkMail => algorithm' = "mail"
  BY Zenon DEF WalkMail, Computes
<1>4. ConvertMail => algorithm' = "eml"
  BY Zenon DEF ConvertMail, Computes
<1>5. ChunkPdf => algorithm' = "chunks"
  BY Zenon DEF ChunkPdf, Computes
<1>6. ArrangeBlocks => algorithm' = "blocks"
  BY Zenon DEF ArrangeBlocks, Computes
<1>7. PairForm => algorithm' = "form"
  BY Zenon DEF PairForm, Computes
<1>8. PairAnywhere => algorithm' = "pairs"
  BY Zenon DEF PairAnywhere, Computes
<1>9. RenderTable => algorithm' = "table"
  BY Zenon DEF RenderTable, Computes
<1>10. Grade => algorithm' = "grade"
  BY Zenon DEF Grade, Computes
<1>11. FindDates => algorithm' = "dates"
  BY Zenon DEF FindDates, Computes
<1>12. Compare => algorithm' = "report"
  BY Zenon DEF Compare, Computes
<1>13. PruneLog => algorithm' = "prune"
  BY Zenon DEF PruneLog, Computes
<1>14. Identify => algorithm' = "client"
  BY Zenon DEF Identify, Computes
<1> QED BY <1>1, <1>2, <1>3, <1>4, <1>5, <1>6, <1>7, <1>8, <1>9, <1>10, <1>11, <1>12, <1>13, <1>14, Zenon

\* Nothing was computed before the first step.
LEMMA NothingFirst ==
  ASSUME AlgorithmsInit
  PROVE  algorithm \in {"fetch", "none"}
BY DEF AlgorithmsInit

LEMMA ListHonestIs == ListHonest => HonestListingsComplete'
<1> SUFFICES ASSUME ListHonest PROVE HonestListingsComplete'
  OBVIOUS
<1>1. PICK l \in Listings :
        \/ Computes("honest", <<l.items, l.cap>>,
                    List(V1Server(l.items, l.limit), "v1", l.limit, l.cap, Len(l.items) + 1))
        \/ Computes("honest", <<l.items, l.cap>>,
                    List(V2Server(l.items, l.cuts), "v2", l.limit, l.cap, Len(l.items) + 1))
  BY Zenon DEF ListHonest
<1>2. l.items \in Seq(HonestItems) /\ l.limit \in Nat \ {0} /\ l.cuts \in SUBSET (1..(Len(l.items) + 1)) /\ l.cap \in Nat \ {0}
  BY ListingsAssumption DEF HonestItems
<1>3. ListsEverything(l.items, l.cap, List(V1Server(l.items, l.limit), "v1", l.limit, l.cap, Len(l.items) + 1))
  BY <1>2, V1KeepsContract, HonestIs
<1>4. ListsEverything(l.items, l.cap, List(V2Server(l.items, l.cuts), "v2", l.limit, l.cap, Len(l.items) + 1))
  BY <1>2, V2KeepsContract, HonestIs
<1>5. input' = <<l.items, l.cap>>
  BY <1>1, Zenon DEF Computes
<1>6. input'[1] = l.items /\ input'[2] = l.cap
  BY <1>5
<1>7. ListsEverything(l.items, l.cap, output')
  BY <1>1, <1>3, <1>4, Zenon DEF Computes
<1> QED BY <1>6, <1>7, Zenon DEF HonestListingsComplete

LEMMA ListHostileIs == ListHostile => HostileListingsStop'
<1> SUFFICES ASSUME ListHostile PROVE HostileListingsStop'
  OBVIOUS
<1>1. PICK server \in HostileServers, cap \in Caps :
        Computes("hostile", cap, List(server, "v2", 1, cap, Cardinality(DOMAIN server) + 1))
  BY Zenon DEF ListHostile
<1> DEFINE n == Cardinality(DOMAIN server)
<1>2. n \in Nat \ {0} /\ server \in HostileServer(n) /\ cap \in Nat \ {0}
  BY HostileAssumption DEF HostileServer, Server, ItemKinds
<1>3. StopsAtHostileServers(cap, List(server, "v2", 1, cap, n + 1))
  <2> HIDE DEF n
  <2> QED BY <1>2, HostileIs
<1> QED BY <1>1, <1>3, Zenon DEF Computes, HostileListingsStop

\* A listing is complete against a server that keeps its contract, wherever its
\* pages end, and ends against any server, with any number of pages, items and
\* any cap (confluence.py:320-326, 396-411).
THEOREM ListingsAlwaysSound == AlgorithmsSpec => []ListingsSound
<1>1. AlgorithmsInit => ListingsSound
  BY NothingFirst DEF ListingsSound, HonestListingsComplete, HostileListingsStop
<1>2. ListingsSound /\ [AlgorithmsNext]_<<vars, chosen>> => ListingsSound'
  <2> SUFFICES ASSUME ListingsSound, [AlgorithmsNext]_<<vars, chosen>> PROVE ListingsSound'
    OBVIOUS
  <2>1. CASE UNCHANGED chosen
    BY <2>1, Zenon DEF ListingsSound, HonestListingsComplete, HostileListingsStop, chosen
  <2>2. CASE ListHonest
    BY <2>2, ListHonestIs, StepNames DEF ListingsSound, HostileListingsStop
  <2>3. CASE ListHostile
    BY <2>3, ListHostileIs, StepNames DEF ListingsSound, HonestListingsComplete
  <2>4. CASE algorithm' \notin {"honest", "hostile"}
    BY <2>4 DEF ListingsSound, HonestListingsComplete, HostileListingsStop
  <2> QED BY <2>1, <2>2, <2>3, <2>4, EveryStep, StepNames
<1> QED BY <1>1, <1>2, PTL DEF AlgorithmsSpec

LEMMA WalkMailIs == WalkMail => MailPartsListed'
<1> SUFFICES ASSUME WalkMail PROVE MailPartsListed'
  OBVIOUS
<1>1. PICK tree \in Mails : Computes("mail", tree, Manifest(tree))
  BY Zenon DEF WalkMail
<1>2. EveryPartListed(tree)
  BY MailsAssumption, ListedIs DEF MimeTree
<1> QED BY <1>1, <1>2, Zenon DEF Computes, MailPartsListed

LEMMA ConvertMailIs == ConvertMail => MailPartsMentioned'
<1> SUFFICES ASSUME ConvertMail PROVE MailPartsMentioned'
  OBVIOUS
<1>1. PICK file \in EmlFiles : Computes("eml", <<file.tree, file.converts>>, EmlSections(file.tree, file.converts))
  BY Zenon DEF ConvertMail
<1>2. EveryPartMentioned(file.tree, file.converts)
  BY MailsAssumption, MentionedIs DEF MimeTree
<1>3. input' = <<file.tree, file.converts>>
  BY <1>1, Zenon DEF Computes
<1>4. input'[1] = file.tree /\ input'[2] = file.converts
  BY <1>3
<1> QED BY <1>2, <1>4, Zenon DEF MailPartsMentioned

\* No part of a mail of any shape is lost: it is the body, text beside it, listed
\* once and found again, or mentioned (mail_ingest.py:360-411,
\* paddle_service.py:1642-1735).
THEOREM NoPartEverLost == AlgorithmsSpec => []NoPartLost
<1>1. AlgorithmsInit => NoPartLost
  BY NothingFirst DEF NoPartLost, MailPartsListed, MailPartsMentioned
<1>2. NoPartLost /\ [AlgorithmsNext]_<<vars, chosen>> => NoPartLost'
  <2> SUFFICES ASSUME NoPartLost, [AlgorithmsNext]_<<vars, chosen>> PROVE NoPartLost'
    OBVIOUS
  <2>1. CASE UNCHANGED chosen
    BY <2>1, Zenon DEF NoPartLost, MailPartsListed, MailPartsMentioned, chosen
  <2>2. CASE WalkMail
    BY <2>2, WalkMailIs, StepNames DEF NoPartLost, MailPartsMentioned
  <2>3. CASE ConvertMail
    BY <2>3, ConvertMailIs, StepNames DEF NoPartLost, MailPartsListed
  <2>4. CASE algorithm' \notin {"mail", "eml"}
    BY <2>4 DEF NoPartLost, MailPartsListed, MailPartsMentioned
  <2> QED BY <2>1, <2>2, <2>3, <2>4, EveryStep, StepNames
<1> QED BY <1>1, <1>2, PTL DEF AlgorithmsSpec

LEMMA ChunkPdfIs == ChunkPdf => PagesInOrder'
<1> SUFFICES ASSUME ChunkPdf PROVE PagesInOrder'
  OBVIOUS
<1> DEFINE Payloads(pdf) == (1..pdf.pages) \ pdf.lost
           Size(pdf) == ChunkSize(pdf.family, pdf.default, pdf.cpuOnly, pdf.pages, pdf.megabytes)
<1>1. PICK pdf \in Pdfs :
        Computes("chunks", <<pdf.pages, Payloads(pdf)>>, Collected(pdf.pages, Size(pdf), Payloads(pdf)))
  BY Zenon DEF ChunkPdf
<1>2. pdf.pages \in Nat /\ pdf.default \in Nat /\ Payloads(pdf) \in SUBSET (1..pdf.pages)
  BY DocumentsAssumption
<1>3. Size(pdf) \in Nat \ {0}
  BY <1>2 DEF ChunkSize, CeilTo, FloorTo
<1> HIDE DEF Payloads, Size
<1>4. PagesOnceInOrder(pdf.pages, Payloads(pdf), Collected(pdf.pages, Size(pdf), Payloads(pdf)))
  BY <1>2, <1>3, CollectedIs
<1>5. input' = <<pdf.pages, Payloads(pdf)>> /\ output' = Collected(pdf.pages, Size(pdf), Payloads(pdf))
  BY <1>1, Zenon DEF Computes
<1>6. input'[1] = pdf.pages /\ input'[2] = Payloads(pdf)
  BY <1>5
<1> QED BY <1>4, <1>5, <1>6, Zenon DEF PagesInOrder

LEMMA ArrangeBlocksIs == ArrangeBlocks => OnlyRepeatsLeftOut'
<1> SUFFICES ASSUME ArrangeBlocks PROVE OnlyRepeatsLeftOut'
  OBVIOUS
<1>1. PICK pages \in BlockDocuments : Computes("blocks", pages, Sections(pages))
  BY Zenon DEF ArrangeBlocks
<1>2. /\ pages \in Seq(Seq(BlockType))
      /\ \A p \in DOMAIN pages : \A i, j \in DOMAIN pages[p] : i # j => pages[p][i].id # pages[p][j].id
  BY DocumentsAssumption
<1>3. Len(pages) \in Nat /\ DOMAIN pages = 1..Len(pages)
  BY <1>2
<1>4. ASSUME NEW p \in 1..Len(pages) PROVE \E m \in Nat : Blocks(pages[p], m)
  <2>1. pages[p] \in Seq(BlockType)
    BY <1>2
  <2> DEFINE blocks == pages[p]
             m == Len(blocks)
  <2>2. m \in Nat /\ DOMAIN blocks = 1..m /\ \A i \in 1..m : blocks[i] \in BlockType
    BY <2>1
  <2>3. \A i, j \in 1..m : i # j => blocks[i].id # blocks[j].id
    BY <1>2, <1>3, <2>2
  <2> HIDE DEF blocks, m
  <2>4. Blocks(blocks, m)
    BY <2>2, <2>3 DEF Blocks, BlockType
  <2> QED BY <2>2, <2>4 DEF blocks
<1>5. OnlyRepeatsDropped(pages, Sections(pages))
  BY <1>3, <1>4, SectionsIs
<1> QED BY <1>1, <1>5, Zenon DEF Computes, OnlyRepeatsLeftOut

\* Records have boxes.
LEMMA RecordsAreBoxed ==
  ASSUME NEW records \in Seq(Record)
  PROVE  Len(records) \in Nat /\ Boxed(records, Len(records))
<1>1. Len(records) \in Nat /\ DOMAIN records = 1..Len(records) /\ \A i \in 1..Len(records) : records[i] \in Record
  OBVIOUS
<1>2. \A record \in Record : record.box \in [x0 : Nat, y0 : Nat, x1 : Nat, y1 : Nat]
  BY DEF Record, Box
<1> QED BY <1>1, <1>2 DEF Boxed

LEMMA PairFormIs == PairForm => FormsArePaired'
<1> SUFFICES ASSUME PairForm PROVE FormsArePaired'
  OBVIOUS
<1>1. PICK records \in Forms : Computes("form", records, Pairs(records))
  BY Zenon DEF PairForm
<1>2. records \in Seq(Record) /\ LaidOut(records)
  BY DocumentsAssumption
<1>3. PairsAreNeighbours(records, Pairs(records))
  BY <1>2, RecordsAreBoxed, FormIs
<1> QED BY <1>1, <1>3, Zenon DEF Computes, FormsArePaired

LEMMA PairAnywhereIs == PairAnywhere => PairingKeepsText'
<1> SUFFICES ASSUME PairAnywhere PROVE PairingKeepsText'
  OBVIOUS
<1>1. PICK records \in LabelPages : Computes("pairs", records, Lines(records))
  BY Zenon DEF PairAnywhere
<1>2. records \in Seq(Record)
  BY DocumentsAssumption
<1>3. EveryRecordOnce(records, Lines(records))
  BY <1>2, RecordsAreBoxed, LinesIs
<1> QED BY <1>1, <1>3, Zenon DEF Computes, PairingKeepsText

LEMMA RenderTableIs == RenderTable => TablesKeepText'
<1> SUFFICES ASSUME RenderTable PROVE TablesKeepText'
  OBVIOUS
<1>1. PICK table \in HtmlTables : Computes("table", table.rows, Table(table.rows, table.th))
  BY Zenon DEF RenderTable
<1>2. table.rows \in Seq(Seq(Spanned))
  BY DocumentsAssumption DEF Spanned
<1>3. TableKeepsCells(table.rows, Table(table.rows, table.th))
  BY <1>2, TableIs
<1> QED BY <1>1, <1>3, Zenon DEF Computes, TablesKeepText

\* Of a document of any length: each page that gave a payload is converted once and
\* in order for every chunk size, only repeats are left out of its blocks, a label
\* on a form has its right neighbour, pairing neither loses nor repeats a record,
\* and a table keeps the text of its cells (paddle_service.py:327-442, 769-1076).
THEOREM MarkdownAlwaysKeepsDocument == AlgorithmsSpec => []MarkdownKeepsDocument
<1> USE DEF MarkdownKeepsDocument
<1>1. AlgorithmsInit => MarkdownKeepsDocument
  BY NothingFirst DEF PagesInOrder, OnlyRepeatsLeftOut, FormsArePaired, PairingKeepsText, TablesKeepText
<1>2. MarkdownKeepsDocument /\ [AlgorithmsNext]_<<vars, chosen>> => MarkdownKeepsDocument'
  <2> SUFFICES ASSUME MarkdownKeepsDocument, [AlgorithmsNext]_<<vars, chosen>> PROVE MarkdownKeepsDocument'
    OBVIOUS
  <2>1. CASE UNCHANGED chosen
    BY <2>1, Zenon DEF PagesInOrder, OnlyRepeatsLeftOut, FormsArePaired, PairingKeepsText, TablesKeepText, chosen
  <2>2. CASE ChunkPdf
    BY <2>2, ChunkPdfIs, StepNames DEF OnlyRepeatsLeftOut, FormsArePaired, PairingKeepsText, TablesKeepText
  <2>3. CASE ArrangeBlocks
    BY <2>3, ArrangeBlocksIs, StepNames DEF PagesInOrder, FormsArePaired, PairingKeepsText, TablesKeepText
  <2>4. CASE PairForm
    BY <2>4, PairFormIs, StepNames DEF PagesInOrder, OnlyRepeatsLeftOut, PairingKeepsText, TablesKeepText
  <2>5. CASE PairAnywhere
    BY <2>5, PairAnywhereIs, StepNames DEF PagesInOrder, OnlyRepeatsLeftOut, FormsArePaired, TablesKeepText
  <2>6. CASE RenderTable
    BY <2>6, RenderTableIs, StepNames DEF PagesInOrder, OnlyRepeatsLeftOut, FormsArePaired, PairingKeepsText
  <2>7. CASE algorithm' \notin {"chunks", "blocks", "form", "pairs", "table"}
    BY <2>7 DEF PagesInOrder, OnlyRepeatsLeftOut, FormsArePaired, PairingKeepsText, TablesKeepText
  <2> QED BY <2>1, <2>2, <2>3, <2>4, <2>5, <2>6, <2>7, EveryStep, StepNames
<1> QED BY <1>1, <1>2, PTL DEF AlgorithmsSpec

\* What is one thing better is a document still.
LEMMA BetterIsTyped ==
  ASSUME NEW doc \in Document, NEW better \in Better(doc)
  PROVE  better \in Document
<1>1. doc.readings \in Seq(Leaf) /\ doc.blocks \in Seq(Block) /\ doc.text \in 0..10 \cup {NoText}
  BY DEF Document, Leaf, Block, Labels
<1>2. ASSUME NEW i \in DOMAIN doc.readings, NEW v \in {5, 8, 10}, better = [doc EXCEPT !.readings[i].value = v]
      PROVE  better \in Document
  <2> DEFINE r == [doc.readings EXCEPT ![i] = [doc.readings[i] EXCEPT !.value = v]]
  <2>1. doc.readings[i] \in Leaf
    BY <1>1
  <2>2. [doc.readings[i] EXCEPT !.value = v] \in Leaf
    BY <2>1 DEF Leaf
  <2>3. r \in Seq(Leaf)
    BY <1>1, <2>2
  <2>4. better = [doc EXCEPT !.readings = r]
    BY <1>2 DEF Document
  <2> HIDE DEF r
  <2> QED BY <2>3, <2>4 DEF Document, Leaf
<1>3. ASSUME NEW b \in Seq(Block), better = [doc EXCEPT !.blocks = b]
      PROVE  better \in Document
  BY <1>3 DEF Document, Block, Labels
<1>4. ASSUME NEW i \in DOMAIN doc.blocks, NEW block \in Block,
             better = [doc EXCEPT !.blocks = [doc.blocks EXCEPT ![i] = block]]
      PROVE  better \in Document
  <2>1. [doc.blocks EXCEPT ![i] = block] \in Seq(Block)
    BY <1>1
  <2> QED BY <1>3, <1>4, <2>1
<1>5. ASSUME NEW i \in DOMAIN doc.blocks, better = [doc EXCEPT !.blocks[i].ordered = TRUE]
      PROVE  better \in Document
  <2>1. [doc.blocks[i] EXCEPT !.ordered = TRUE] \in Block
    <3>1. doc.blocks[i] \in Block
      BY <1>1
    <3> QED BY <3>1 DEF Block
  <2>2. better = [doc EXCEPT !.blocks = [doc.blocks EXCEPT ![i] = [doc.blocks[i] EXCEPT !.ordered = TRUE]]]
    BY <1>5 DEF Document
  <2> QED BY <1>4, <2>1, <2>2
<1>6. ASSUME NEW i \in DOMAIN doc.blocks, better = [doc EXCEPT !.blocks[i].content = TRUE]
      PROVE  better \in Document
  <2>1. [doc.blocks[i] EXCEPT !.content = TRUE] \in Block
    <3>1. doc.blocks[i] \in Block
      BY <1>1
    <3> QED BY <3>1 DEF Block
  <2>2. better = [doc EXCEPT !.blocks = [doc.blocks EXCEPT ![i] = [doc.blocks[i] EXCEPT !.content = TRUE]]]
    BY <1>6 DEF Document
  <2> QED BY <1>4, <2>1, <2>2
<1>7. ASSUME NEW i \in DOMAIN doc.blocks, better = [doc EXCEPT !.blocks[i].label = "text"]
      PROVE  better \in Document
  <2>1. [doc.blocks[i] EXCEPT !.label = "text"] \in Block
    <3>1. doc.blocks[i] \in Block
      BY <1>1
    <3> QED BY <3>1 DEF Block
  <2>2. better = [doc EXCEPT !.blocks = [doc.blocks EXCEPT ![i] = [doc.blocks[i] EXCEPT !.label = "text"]]]
    BY <1>7 DEF Document
  <2> QED BY <1>4, <2>1, <2>2
<1>8. ASSUME better = [doc EXCEPT !.text = 9] PROVE better \in Document
  <2>1. 9 \in 0..10
    OBVIOUS
  <2> QED BY <1>8, <2>1 DEF Document
<1> QED BY <1>2, <1>5, <1>6, <1>7, <1>8 DEF Better

LEMMA GradeIs == Grade => NeverScoresLess'
<1> SUFFICES ASSUME Grade PROVE NeverScoresLess'
  OBVIOUS
<1>1. PICK doc \in Documents : Computes("grade", doc, {better \in Better(doc) : Improves(doc, better)})
  BY Zenon DEF Grade
<1>2. doc \in Document
  BY GateAssumption
<1>3. ASSUME NEW better \in Better(doc) PROVE BetterNeverScoresLess(doc, better)
  <2>1. better \in Document
    BY <1>2, BetterIsTyped
  <2>2. ASSUME NEW d \in Document
        PROVE  d.readings \in Seq(Leaf) /\ d.blocks \in Seq(Block) /\ d.text \in 0..10 \cup {NoText}
    BY DEF Document, Leaf, Block, Labels
  <2> QED BY <1>2, <2>1, <2>2, ScoreMono
<1>4. input' = doc /\ output' = {better \in Better(doc) : Improves(doc, better)}
  BY <1>1, Zenon DEF Computes
<1>5. \A better \in output' : better \in Better(doc)
  BY <1>4
<1> QED BY <1>3, <1>4, <1>5, Zenon DEF NeverScoresLess

LEMMA FindDatesIs == FindDates => DatesOnce'
<1> SUFFICES ASSUME FindDates PROVE DatesOnce'
  OBVIOUS
<1>1. PICK text \in DatedTexts : Computes("dates", text, Dates(text))
  BY Zenon DEF FindDates
<1>2. Len(text.numbers) \in Nat
  BY GateAssumption
<1>3. DatesCountedOnce(Dates(text))
  BY <1>2, DatesIs
<1> QED BY <1>1, <1>3, Zenon DEF Computes, DatesOnce

\* The score of a document of any length never drops when one thing about it gets
\* better, and no digits of a text of any length are counted in two dates
\* (quality_gate.py:55-290, field_validation.py:178-237).
THEOREM GateAlwaysFair == AlgorithmsSpec => []GateIsFair
<1>1. AlgorithmsInit => GateIsFair
  BY NothingFirst DEF GateIsFair, NeverScoresLess, DatesOnce
<1>2. GateIsFair /\ [AlgorithmsNext]_<<vars, chosen>> => GateIsFair'
  <2> SUFFICES ASSUME GateIsFair, [AlgorithmsNext]_<<vars, chosen>> PROVE GateIsFair'
    OBVIOUS
  <2>1. CASE UNCHANGED chosen
    BY <2>1, Zenon DEF GateIsFair, NeverScoresLess, DatesOnce, chosen
  <2>2. CASE Grade
    BY <2>2, GradeIs, StepNames DEF GateIsFair, DatesOnce
  <2>3. CASE FindDates
    BY <2>3, FindDatesIs, StepNames DEF GateIsFair, NeverScoresLess
  <2>4. CASE algorithm' \notin {"grade", "dates"}
    BY <2>4 DEF GateIsFair, NeverScoresLess, DatesOnce
  <2> QED BY <2>1, <2>2, <2>3, <2>4, EveryStep, StepNames
<1> QED BY <1>1, <1>2, PTL DEF AlgorithmsSpec

LEMMA CompareIs == Compare => WinnersAreReal'
<1> SUFFICES ASSUME Compare PROVE WinnersAreReal'
  OBVIOUS
<1> DEFINE End(run, v) == IF v.engine = "waits" THEN "waits"
                          ELSE Converted([suffix |-> run.suffix, engine |-> v.engine, fallback |-> run.fallback],
                                         run.available)
           jobs(run) == [i \in DOMAIN run.variants |->
                           JobOf(End(run, run.variants[i]), run.variants[i].duration, run.variants[i].grade)]
           ran(run) == {i \in DOMAIN run.variants : run.available /\ run.variants[i].engine = "works"}
<1>1. PICK run \in BenchmarkRuns : Computes("report", <<jobs(run), ran(run)>>, Report(jobs(run)))
  BY Zenon DEF Compare
<1>2. /\ run.available \in BOOLEAN
      /\ run.suffix # "mail"
      /\ run.variants \in Seq([engine : {"works", "fails", "waits"}, duration : Nat, grade : 0..3])
  BY UpkeepAssumption
<1>3. WinnersRanTheirEngine(jobs(run), ran(run), Report(jobs(run)))
  BY <1>2, ComparedIsReal
<1> HIDE DEF jobs, ran
<1>4. input' = <<jobs(run), ran(run)>> /\ output' = Report(jobs(run))
  BY <1>1, Zenon DEF Computes
<1>5. input'[1] = jobs(run) /\ input'[2] = ran(run)
  BY <1>4
<1> QED BY <1>3, <1>4, <1>5, Zenon DEF WinnersAreReal

LEMMA PruneLogIs == PruneLog => PruneKeepsCap'
<1> SUFFICES ASSUME PruneLog PROVE PruneKeepsCap'
  OBVIOUS
<1>1. PICK log \in Logs : Computes("prune", <<log.rows, log.cap>>, Prune(log.rows, log.cap))
  BY Zenon DEF PruneLog
<1>2. PruneKeepsNewest(log.rows, log.cap, Prune(log.rows, log.cap))
  BY UpkeepAssumption, PruneIs
<1>3. input' = <<log.rows, log.cap>> /\ output' = Prune(log.rows, log.cap)
  BY <1>1, Zenon DEF Computes
<1>4. input'[1] = log.rows /\ input'[2] = log.cap
  BY <1>3
<1> QED BY <1>2, <1>3, <1>4, Zenon DEF PruneKeepsCap

LEMMA IdentifyIs == Identify => ClientsAreObserved'
<1> SUFFICES ASSUME Identify PROVE ClientsAreObserved'
  OBVIOUS
<1> DEFINE proxies(client) == Len(client.path) - 1
           peer(client) == client.path[proxies(client) + 1]
           header(client) == client.written \o SubSeq(client.path, 1, proxies(client))
           id(client) == ClientId(peer(client), client.trusted, header(client), client.realIp, proxies(client))
<1>1. PICK client \in Clients :
        Computes("client", <<client.path[1], client.trusted, peer(client)>>, id(client))
  BY Zenon DEF Identify
<1>2. /\ client.written \in Seq(STRING)
      /\ client.path \in Seq(STRING)
      /\ client.path # <<>>
      /\ \A k \in DOMAIN client.path : client.path[k] # Blank
      /\ client.path[Len(client.path)] \in client.trusted => Len(client.path) > 1
  BY UpkeepAssumption
<1>3. proxies(client) \in Nat /\ Len(client.path) = proxies(client) + 1
  BY <1>2
<1>4. peer(client) \in client.trusted => proxies(client) > 0
  BY <1>2, <1>3
<1>5. ClientIsObserved(client.path[1], client.trusted, peer(client), id(client))
  <2> HIDE DEF proxies
  <2> QED BY <1>2, <1>3, <1>4, ClientIs
<1> HIDE DEF peer, id
<1>6. input' = <<client.path[1], client.trusted, peer(client)>> /\ output' = id(client)
  BY <1>1, Zenon DEF Computes
<1>7. input'[1] = client.path[1] /\ input'[2] = client.trusted /\ input'[3] = peer(client)
  BY <1>6
<1> QED BY <1>5, <1>6, <1>7, Zenon DEF ClientsAreObserved

\* The winners of any benchmark ran their engine, a prune of any log keeps its
\* newest rows, and behind any number of proxies, with any header, a client is
\* counted under the address that was observed (benchmarks.py:186-228,
\* log_capture.py:115-134, security.py:116-149).
THEOREM PicksAlwaysRight == AlgorithmsSpec => []PicksTheRightOnes
<1>1. AlgorithmsInit => PicksTheRightOnes
  BY NothingFirst DEF PicksTheRightOnes, WinnersAreReal, PruneKeepsCap, ClientsAreObserved
<1>2. PicksTheRightOnes /\ [AlgorithmsNext]_<<vars, chosen>> => PicksTheRightOnes'
  <2> SUFFICES ASSUME PicksTheRightOnes, [AlgorithmsNext]_<<vars, chosen>> PROVE PicksTheRightOnes'
    OBVIOUS
  <2>1. CASE UNCHANGED chosen
    BY <2>1, Zenon DEF PicksTheRightOnes, WinnersAreReal, PruneKeepsCap, ClientsAreObserved, chosen
  <2>2. CASE Compare
    BY <2>2, CompareIs, StepNames DEF PicksTheRightOnes, PruneKeepsCap, ClientsAreObserved
  <2>3. CASE PruneLog
    BY <2>3, PruneLogIs, StepNames DEF PicksTheRightOnes, WinnersAreReal, ClientsAreObserved
  <2>4. CASE Identify
    BY <2>4, IdentifyIs, StepNames DEF PicksTheRightOnes, WinnersAreReal, PruneKeepsCap
  <2>5. CASE algorithm' \notin {"report", "prune", "client"}
    BY <2>5 DEF PicksTheRightOnes, WinnersAreReal, PruneKeepsCap, ClientsAreObserved
  <2> QED BY <2>1, <2>2, <2>3, <2>4, <2>5, EveryStep, StepNames
<1> QED BY <1>1, <1>2, PTL DEF AlgorithmsSpec

-----------------------------------------------------------------------------
\* Next to the algorithms, fetches are what they are alone: safe (safe_fetch.py:325-394).
THEOREM AlgorithmsFetchSafely == AlgorithmsSpec => []ChainIsSafe
<1>1. AlgorithmsInit => Init
  BY DEF AlgorithmsInit
<1>2. [AlgorithmsNext]_<<vars, chosen>> => [Next]_vars
  <2> SUFFICES ASSUME [AlgorithmsNext]_<<vars, chosen>> PROVE Next \/ UNCHANGED vars
    OBVIOUS
  <2>1. CASE UNCHANGED <<vars, chosen>>
    BY <2>1
  <2>2. CASE Fetch
    BY <2>2 DEF Fetch
  <2>3. CASE ListHonest
    BY <2>3, Zenon DEF ListHonest, Computes
  <2>4. CASE ListHostile
    BY <2>4, Zenon DEF ListHostile, Computes
  <2>5. CASE WalkMail
    BY <2>5, Zenon DEF WalkMail, Computes
  <2>6. CASE ConvertMail
    BY <2>6, Zenon DEF ConvertMail, Computes
  <2>7. CASE ChunkPdf
    BY <2>7, Zenon DEF ChunkPdf, Computes
  <2>8. CASE ArrangeBlocks
    BY <2>8, Zenon DEF ArrangeBlocks, Computes
  <2>9. CASE PairForm
    BY <2>9, Zenon DEF PairForm, Computes
  <2>10. CASE PairAnywhere
    BY <2>10, Zenon DEF PairAnywhere, Computes
  <2>11. CASE RenderTable
    BY <2>11, Zenon DEF RenderTable, Computes
  <2>12. CASE Grade
    BY <2>12, Zenon DEF Grade, Computes
  <2>13. CASE FindDates
    BY <2>13, Zenon DEF FindDates, Computes
  <2>14. CASE Compare
    BY <2>14, Zenon DEF Compare, Computes
  <2>15. CASE PruneLog
    BY <2>15, Zenon DEF PruneLog, Computes
  <2>16. CASE Identify
    BY <2>16, Zenon DEF Identify, Computes
  <2> QED BY <2>1, <2>2, <2>3, <2>4, <2>5, <2>6, <2>7, <2>8, <2>9, <2>10, <2>11, <2>12, <2>13, <2>14, <2>15, <2>16 DEF AlgorithmsNext
<1> QED BY <1>1, <1>2, FetchesAreSafe, PTL DEF Spec, AlgorithmsSpec
=============================================================================
