------------------------------ MODULE Listing -------------------------------
(***************************************************************************)
(* The paged listings of the Confluence clients: children and attachments  *)
(* of a page (src/backend/app/services/confluence.py).                     *)
(*                                                                         *)
(* A server is a function from URLs to [items, next].  A URL is a number:  *)
(* for v1 one more than its start parameter, for v2 a cursor.  An item is  *)
(* usable, skipped (another type, no id, no link) or foreign (its link     *)
(* leaves the source's host, which raises).                                *)
(***************************************************************************)
EXTENDS Integers, Sequences, FiniteSets, Positions

NoUrl   == 0
OffHost == -1       \* any next link to another host

\* _next_by_start: a short page is the last one.
\* Mutant: a full page is taken for a short one.
NextByStart_Full(server, url, limit) ==
  IF Len(server[url].items) <= limit THEN NoUrl ELSE url + limit
NextByStart(server, url, limit) ==
  IF Len(server[url].items) < limit THEN NoUrl ELSE url + limit

\* _next_by_cursor: what the server says; the host is checked.
NextByCursor(server, url) == server[url].next

\* The caller stops at its cap, in the middle of a page if need be; a foreign
\* item it meets before that raises.
Taken(items, url, room) ==
  LET usable == {i \in DOMAIN items : items[i] = "usable"}
      last == IF Cardinality(usable) >= room THEN CHOOSE i \in usable : UpTo(usable, i) = room ELSE Len(items)
      kept == Ascending({i \in usable : i <= last})
  IN [ids    |-> [k \in DOMAIN kept |-> <<url, kept[k]>>],
      raises |-> \E i \in 1..last : items[i] = "foreign",
      full   |-> Cardinality(usable) >= room]

\* Mutant: a repeated URL is followed.
Followed_Any(url, asked) == url # NoUrl
Followed(url, asked) == url # NoUrl /\ ~\E i \in DOMAIN asked : asked[i] = url

\* One turn of _iter_results and of iter_children or iter_attachments around it.
Turn(server, kind, limit, cap, state) ==
  LET page  == server[state.url]
      taken == Taken(page.items, state.url, cap - Len(state.ids))
      next  == IF kind = "v1" THEN NextByStart(server, state.url, limit) ELSE NextByCursor(server, state.url)
      asked == Append(state.asked, state.url)
  IN IF page.items = <<>> THEN [state EXCEPT !.asked = asked, !.end = "done"]
     ELSE [url   |-> next,
           asked |-> asked,
           ids   |-> state.ids \o taken.ids,
           end   |-> IF taken.raises THEN "raised"
                     ELSE IF taken.full THEN "done"
                     ELSE IF next = OffHost THEN "raised"
                     ELSE IF Followed(next, asked) THEN "going" ELSE "done"]

\* The listing of a page from the first URL, turn by turn; turns bounds the URLs it
\* may visit.
States(server, kind, limit, cap, turns) ==
  LET state[n \in 0..turns] ==
        IF n = 0 THEN [url |-> 1, asked |-> <<>>, ids |-> <<>>, end |-> "going"]
        ELSE IF state[n - 1].end # "going" THEN state[n - 1]
        ELSE Turn(server, kind, limit, cap, state[n - 1])
  IN state
List(server, kind, limit, cap, turns) == States(server, kind, limit, cap, turns)[turns]

-----------------------------------------------------------------------------
\* A server that keeps the contract of its API: v1 pages of limit items from the
\* start asked for, v2 pages cut where the server likes, each with the next cursor.
V1Server(items, limit) ==
  [url \in 1..(Len(items) + limit + 1) |->
     [items |-> SubSeq(items, url, IF url + limit - 1 < Len(items) THEN url + limit - 1 ELSE Len(items)),
      next  |-> NoUrl]]

V2Server(items, cuts) ==       \* cuts: the positions a page starts at, 1 among them
  [url \in 1..(Len(items) + 1) |->
     LET later == {c \in cuts : c > url}
         next == IF later = {} THEN Len(items) + 1 ELSE CHOOSE c \in later : \A d \in later : c <= d
     IN [items |-> SubSeq(items, url, next - 1), next |-> IF later = {} THEN NoUrl ELSE next]]

\* The usable items of the whole listing, in order, up to the cap.
Expected(items, cap) ==
  LET usable == Ascending({i \in DOMAIN items : items[i] = "usable"})
  IN SubSeq(usable, 1, IF cap < Len(usable) THEN cap ELSE Len(usable))

\* Against a server that keeps its contract a listing finds every usable item
\* once, in order, up to its cap, wherever pages end (confluence.py:396-411,
\* 500-524, 581-645).
ListsEverything(items, cap, listing) ==
  /\ listing.end = "done"
  /\ [k \in DOMAIN listing.ids |-> listing.ids[k][1] + listing.ids[k][2] - 1] = Expected(items, cap)

\* Whatever the server answers, the listing ends, asks no URL twice, never
\* leaves the host and yields no more than its cap, each item once
\* (confluence.py:320-326, 396-411).
StopsAtHostileServers(cap, listing) ==
  /\ listing.end # "going"
  /\ Len(listing.ids) <= cap
  /\ \A i, j \in DOMAIN listing.asked : i # j => listing.asked[i] # listing.asked[j]
  /\ \A i \in DOMAIN listing.asked : listing.asked[i] # OffHost
  /\ Cardinality({listing.ids[k] : k \in DOMAIN listing.ids}) = Len(listing.ids)
=============================================================================
