------------------------------- MODULE Upkeep -------------------------------
(***************************************************************************)
(* Three small algorithms: the report of a benchmark run                   *)
(* (src/backend/app/api/benchmarks.py), the prune of the worker log        *)
(* (workers/log_capture.py) and the client a rate limit counts             *)
(* (services/security.py).                                                 *)
(***************************************************************************)
EXTENDS Naturals, Sequences, FiniteSets, Positions

\* A variant's job once it has ended: [status, fallback, duration, grade], the
\* grade a rank, 0 for none.
JobOf(converted, duration, grade) ==
  [status   |-> CASE converted = "fails" -> "failed" [] converted = "waits" -> "pending" [] OTHER -> "finished",
   fallback |-> converted = "fallback", duration |-> duration, grade |-> grade]

\* _variant_metrics_from_job and _build_benchmark_report: who can win.
\* Mutant: a fallback may win.
Contenders_All(jobs) == {i \in DOMAIN jobs : jobs[i].status = "finished"}
Contenders(jobs) == {i \in DOMAIN jobs : jobs[i].status = "finished" /\ ~jobs[i].fallback}

\* min() and max() keep the first of equals; 0 for nobody.
Fastest(jobs) ==
  LET timed == Contenders(jobs)
      Ahead(i, j) == jobs[i].duration < jobs[j].duration \/ (jobs[i].duration = jobs[j].duration /\ i <= j)
  IN IF timed = {} THEN 0 ELSE CHOOSE i \in timed : \A j \in timed : Ahead(i, j)

BestGraded(jobs) ==
  LET graded == {i \in Contenders(jobs) : jobs[i].grade # 0}
      Ahead(i, j) == jobs[i].grade > jobs[j].grade \/ (jobs[i].grade = jobs[j].grade /\ i <= j)
  IN IF graded = {} THEN 0 ELSE CHOOSE i \in graded : \A j \in graded : Ahead(i, j)

\* _derive_benchmark_status.
BenchmarkStatus(jobs) ==
  LET all == {jobs[i].status : i \in DOMAIN jobs}
  IN CASE all \subseteq {"pending"} -> "pending"
       [] all \subseteq {"finished", "failed"} -> IF "finished" \in all THEN "completed" ELSE "failed"
       [] OTHER -> "running"

Report(jobs) == [fastest |-> Fastest(jobs), best |-> BestGraded(jobs), status |-> BenchmarkStatus(jobs)]

\* _prune: the time of the row after the cap newest, and what is older goes.
\* rows gives each row's time; ties happen.  Mutant: the row itself goes too.
Older_Too(time, cutoff) == time <= cutoff
Older(time, cutoff) == time < cutoff
Prune(rows, cap) ==
  LET Newer(i) == {j \in DOMAIN rows : rows[j] > rows[i]}
      \* a row whose time stands at place cap + 1 of the descending list
      at == {i \in DOMAIN rows : /\ Cardinality(Newer(i)) <= cap
                                 /\ Cardinality({j \in DOMAIN rows : rows[j] >= rows[i]}) > cap}
  IN IF cap = 0 \/ at = {} THEN DOMAIN rows
     ELSE LET cutoff == rows[CHOOSE i \in at : TRUE] IN {i \in DOMAIN rows : ~Older(rows[i], cutoff)}

\* What is left of an entry of white space, and of a header that is not there.
Blank == ""

\* _client_id_from_request: the peer, or from a trusted peer the entry that many
\* hops from the right of X-Forwarded-For, the first if there are fewer; blank
\* entries are dropped.  Mutant: the leftmost entry is taken.
Hop_First(entries, hops) == entries[1]
Hop(entries, hops) == IF hops \in 1..Len(entries) THEN entries[Len(entries) - hops + 1] ELSE entries[1]
ClientId(peer, trusted, header, realIp, hops) ==
  LET entries == Keep(header, {i \in DOMAIN header : header[i] # Blank})
  IN IF peer \notin trusted THEN peer
     ELSE IF entries # <<>> THEN Hop(entries, hops)
     ELSE IF realIp # Blank THEN realIp ELSE peer

-----------------------------------------------------------------------------
\* The winners of a benchmark are variants whose engine converted the document
\* (ran), nobody who ran was better, and there is one as soon as somebody ran
\* (benchmarks.py:140-228).
WinnersRanTheirEngine(jobs, ran, report) ==
  /\ report.fastest = 0 <=> ran = {}
  /\ report.fastest # 0 => /\ report.fastest \in ran
                           /\ \A i \in ran : jobs[report.fastest].duration <= jobs[i].duration
                           /\ report.status \in {"running", "completed"}
  /\ report.best # 0 => /\ report.best \in ran
                        /\ \A i \in ran : jobs[i].grade <= jobs[report.best].grade

\* A prune keeps the newest rows, cap of them at least, and no more than one above
\* the cap when no two are of one time (log_capture.py:115-134).
PruneKeepsNewest(rows, cap, kept) ==
  /\ \A i \in kept, j \in DOMAIN rows \ kept : rows[j] < rows[i]
  /\ Cardinality(kept) >= cap \/ kept = DOMAIN rows
  /\ (cap > 0 /\ \A i, j \in DOMAIN rows : i # j => rows[i] # rows[j]) => Cardinality(kept) <= cap + 1

\* Behind as many trusted proxies as are configured, the client a limit counts is
\* the address the outermost of them saw, whatever the client writes into the
\* header; from any other peer it is the peer (security.py:116-149).
ClientIsObserved(observed, trusted, peer, id) == IF peer \in trusted THEN id = observed ELSE id = peer
=============================================================================
