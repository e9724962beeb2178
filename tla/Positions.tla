----------------------------- MODULE Positions ------------------------------
(***************************************************************************)
(* The places of a sequence that a test selects, in their order, and the   *)
(* sequence of what stands there: a filter, given by the set of the places *)
(* it keeps.                                                               *)
(***************************************************************************)
EXTENDS Naturals, Sequences, FiniteSets

\* How many of places are up to i.
UpTo(places, i) == Cardinality({j \in places : j <= i})

\* A finite set of places as an increasing sequence.
Ascending(places) == [k \in 1..Cardinality(places) |-> CHOOSE i \in places : UpTo(places, i) = k]

\* What a sequence has at some of its places, in its order.
Keep(seq, places) ==
  LET kept == Ascending(places)
  IN [k \in 1..Cardinality(places) |-> seq[kept[k]]]
=============================================================================
