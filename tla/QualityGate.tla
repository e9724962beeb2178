---------------------------- MODULE QualityGate -----------------------------
(***************************************************************************)
(* The score of a converted document (src/backend/app/services/            *)
(* quality_gate.py) and the dates its field validation reports             *)
(* (field_validation.py).                                                  *)
(*                                                                         *)
(* A document is [readings, blocks, text]: the leaves of the engine's raw  *)
(* output, the blocks of its one page, and the quality of its text in      *)
(* tenths, NoText without any.  Scores are in ten-thousandths.             *)
(***************************************************************************)
EXTENDS Naturals, Sequences, FiniteSets, Positions

NoText == 1000
Full   == 10000

\* A leaf is [key, value], value in tenths.  _collect_numeric_values: below a
\* score key itself, and a fraction.  Mutant: a zero reading counts as none.
IsReading_NonZero(leaf) == leaf.key = "score" /\ leaf.value \in 1..10
IsReading(leaf) == leaf.key = "score" /\ leaf.value \in 0..10

Total(seq, value(_)) ==
  LET sum[n \in 0..Len(seq)] == IF n = 0 THEN 0 ELSE sum[n - 1] + value(seq[n])
  IN sum[Len(seq)]

Count(seq, test(_)) == Cardinality({i \in DOMAIN seq : test(seq[i])})

\* _confidence_stats: half the mean, half the share of reliable readings.
Confidence(leaves) ==
  LET readings == Keep(leaves, {i \in DOMAIN leaves : IsReading(leaves[i])})
      Value(leaf) == leaf.value
      Reliable(leaf) == leaf.value >= 8
  IN [known |-> readings # <<>>,
      score |-> IF readings = <<>> THEN 0
                ELSE (Full * (Total(readings, Value) + 10 * Count(readings, Reliable))) \div (20 * Len(readings))]

Share(part, whole) == IF whole = 0 THEN 0 ELSE (Full * part) \div whole

\* structure_quality_score of one page; blocks are [label, ordered, content].
Structure(blocks) ==
  LET IsTable(b) == b.label = "table"
      FullTable(b) == b.label = "table" /\ b.content
      IsFormula(b) == b.label = "formula"
      IsOrdered(b) == b.ordered
      n == Len(blocks)
      tables == Count(blocks, IsTable)
      formulas == Share(Count(blocks, IsFormula), n)
  IN (40 * (IF n > 0 THEN Full ELSE 0)
      + 25 * Share(Count(blocks, IsOrdered), n)
      + 20 * (IF tables = 0 THEN Full ELSE Share(Count(blocks, FullTable), tables))
      + 15 * (IF 10 * formulas >= Full THEN 0 ELSE Full - 10 * formulas)) \div 100

\* evaluate_document_quality: the weights of the signals that are there.
Score(doc) ==
  LET confidence == Confidence(doc.readings)
      weights == (IF confidence.known THEN 5 ELSE 0) + 3 + (IF doc.text = NoText THEN 0 ELSE 2)
  IN ((IF confidence.known THEN 5 * confidence.score ELSE 0)
      + 3 * Structure(doc.blocks)
      + (IF doc.text = NoText THEN 0 ELSE 2 * (Full \div 10) * doc.text)) \div weights

-----------------------------------------------------------------------------
(* Dates.  A text is [numbers, between]: groups of digits by size and the  *)
(* separators after them.  month: two digits up to 12; day: up to 31;      *)
(* count: above; year: four.                                               *)

Short == {"month", "day", "count"}

\* The four patterns: is one at place i?
TornPrefixAt(text, i) ==
  /\ i + 3 <= Len(text.numbers)
  /\ text.between[i] = " " /\ text.between[i + 1] = "/" /\ text.between[i + 2] = "/"
  /\ \A k \in i..(i + 2) : text.numbers[k] \in Short
TornFourAt(text, i) ==
  /\ i + 3 <= Len(text.numbers)
  /\ \A k \in i..(i + 2) : text.between[k] = " "
  /\ \A k \in i..(i + 3) : text.numbers[k] \in Short
CompactAt(text, i) ==
  /\ i + 2 <= Len(text.numbers)
  /\ \A k \in i..(i + 1) : text.between[k] \in {" ", "."} /\ text.numbers[k] \in Short
  /\ text.numbers[i + 2] = "year"
SlashAt(text, i) ==
  /\ i + 2 <= Len(text.numbers)
  /\ \A k \in i..(i + 1) : text.between[k] = "/" /\ text.numbers[k] \in Short

\* finditer: from the left, a match starts where none before it reaches.
Matches(places, length, n) ==
  LET found[i \in 0..n] ==
        IF i = 0 THEN {}
        ELSE IF i \in places /\ \A start \in found[i - 1] : start + length <= i
             THEN found[i - 1] \cup {i} ELSE found[i - 1]
  IN found[n]

Spans(starts, length) == {<<start, start + length - 1>> : start \in starts}
Overlap(a, b) == a[1] <= b[2] /\ b[1] <= a[2]

\* _spans_overlap.  Mutant: touching the end of a claimed span is no overlap.
Free_Inside(spans, claimed) == {s \in spans : ~\E c \in claimed : s[1] < c[2] /\ c[1] < s[2]}
Free(spans, claimed) == {s \in spans : ~\E c \in claimed : Overlap(s, c)}

\* _check_date_candidates: each pattern takes the spans the earlier ones left.
\* The result has the spans each pattern counted, and those it calls implausible.
Dates(text) ==
  LET n == Len(text.numbers)
      is(i, kinds) == text.numbers[i] \in kinds
      torn    == {s \in Spans(Matches({i \in 1..n : TornPrefixAt(text, i)}, 4, n), 4) : is(s[1], {"month", "day"})}
      four    == {s \in Free(Spans(Matches({i \in 1..n : TornFourAt(text, i)}, 4, n), 4), torn) :
                    is(s[1], {"month", "day"}) /\ is(s[1] + 1, {"month"})}
      compact == Free(Spans(Matches({i \in 1..n : CompactAt(text, i)}, 3, n), 3), torn \cup four)
      slash   == Free(Spans(Matches({i \in 1..n : SlashAt(text, i)}, 3, n), 3), torn \cup four \cup compact)
      Plausible(s) ==
        IF s \in compact THEN is(s[1], {"month", "day"}) /\ is(s[1] + 1, {"month"})
        ELSE /\ s \in slash
             /\ is(s[1], {"month", "day"}) /\ is(s[1] + 1, {"month", "day"})
             /\ is(s[1], {"month"}) \/ is(s[1] + 1, {"month"})
      counted == torn \cup four \cup compact \cup slash
  IN [counted |-> counted,
      total |-> Cardinality(torn) + Cardinality(four) + Cardinality(compact) + Cardinality(slash),
      implausible |-> {s \in counted : ~Plausible(s)}]

-----------------------------------------------------------------------------
\* better is doc with one thing about it improved.
Improves(doc, better) ==
  \/ /\ doc.blocks = better.blocks /\ doc.text = better.text
     /\ Len(doc.readings) = Len(better.readings)
     /\ \A i \in DOMAIN doc.readings :
          \/ doc.readings[i] = better.readings[i]
          \/ /\ doc.readings[i].key = better.readings[i].key
             /\ better.readings[i].value \in doc.readings[i].value..10
  \/ /\ doc.readings = better.readings /\ doc.text = better.text
     /\ Len(doc.blocks) = Len(better.blocks)
     /\ \A i \in DOMAIN doc.blocks :
          /\ doc.blocks[i].ordered => better.blocks[i].ordered
          /\ doc.blocks[i].content => better.blocks[i].content
          /\ \/ doc.blocks[i].label = better.blocks[i].label
             \/ doc.blocks[i].label = "formula" /\ better.blocks[i].label = "text"
  \/ /\ doc.blocks = better.blocks /\ doc.readings = better.readings
     /\ doc.text # NoText /\ better.text \in doc.text..10

\* A surer reading, an ordered block, a filled table, a formula read as text or
\* cleaner text never lowers the score (quality_gate.py:55-290).
BetterNeverScoresLess(doc, better) == Improves(doc, better) => Score(doc) <= Score(better)

\* No digits are counted in two dates: what a torn date claims is not read as a
\* clean one besides (field_validation.py:178-237).
DatesCountedOnce(dates) ==
  /\ \A s, t \in dates.counted : s # t => ~Overlap(s, t)
  /\ dates.total = Cardinality(dates.counted)
=============================================================================
