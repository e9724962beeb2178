----------------------------- MODULE Conversion -----------------------------
(***************************************************************************)
(* How a document becomes Markdown (src/backend/app/services/              *)
(* paddle_service.py): the chunks of a PDF, the order, the repeats and the *)
(* label/value pairs of a page's blocks, tables, and the choice between an *)
(* engine and its fallback.                                                *)
(*                                                                         *)
(* A block is [label, order, id, text, box]; text is what is left of it    *)
(* after rendering, "" for nothing, and its kind is all that is read of    *)
(* it.  A box is [x0, y0, x1, y1] or NoBox.                                *)
(***************************************************************************)
EXTENDS Naturals, Integers, Sequences, FiniteSets, Positions

NoBox   == [x0 |-> 0, y0 |-> 0, x1 |-> 0, y1 |-> 0]
NoOrder == 1000

CeilTo(a, b) == IF a >= b THEN a ELSE b
FloorTo(a, b) == IF a <= b THEN a ELSE b

-----------------------------------------------------------------------------
(* Chunks of a PDF.                                                        *)

\* _adaptive_pdf_chunk_page_size, the profile's family and default in hand.
ChunkSize(family, default, cpuOnly, pages, megabytes) ==
  CeilTo(1,
    IF cpuOnly /\ family = "medium"
    THEN IF pages >= 20 \/ megabytes >= 30 THEN 1
         ELSE IF pages >= 12 \/ megabytes >= 18 THEN FloorTo(default, 2) ELSE default
    ELSE IF cpuOnly /\ family = "small"
    THEN IF pages >= 40 \/ megabytes >= 45 THEN FloorTo(default, 2)
         ELSE IF pages >= 24 \/ megabytes >= 28 THEN FloorTo(default, 3) ELSE default
    ELSE default)

\* _paddleocr_to_structure: the pages of the chunks, chunk after chunk.
\* Mutant: the last chunk is left out when it is not full.
ChunkEnd(start, size, pages) == FloorTo(start + size, pages)
Chunks_Full(pages, size) == {start \in 0..(pages - 1) : start % size = 0 /\ start + size <= pages}
Chunks(pages, size) == {start \in 0..(pages - 1) : start % size = 0}
Predicted(pages, size) ==
  LET predicted[n \in 0..pages] ==       \* of the chunks that start before page n + 1
        IF n = 0 THEN <<>>
        ELSE IF n - 1 \in Chunks(pages, size)
             THEN predicted[n - 1] \o [k \in 1..(ChunkEnd(n - 1, size, pages) - (n - 1)) |-> n - 1 + k]
             ELSE predicted[n - 1]
  IN predicted[pages]

\* _collect_results: a page without a payload leaves no trace.
Collected(pages, size, payloads) ==
  LET predicted == Predicted(pages, size)
  IN Keep(predicted, {k \in DOMAIN predicted : predicted[k] \in payloads})

-----------------------------------------------------------------------------
(* The blocks of a page.                                                   *)

\* sorted() by order, blocks without one last, then by id; SortSeq is not needed
\* for blocks whose (order, id) differ: a block's rank is its place.
Rank(blocks, i) ==
  Cardinality({j \in DOMAIN blocks : \/ blocks[j].order < blocks[i].order
                                     \/ blocks[j].order = blocks[i].order /\ blocks[j].id < blocks[i].id}) + 1
Ordered(blocks) == [r \in DOMAIN blocks |-> blocks[CHOOSE i \in DOMAIN blocks : Rank(blocks, i) = r]]

Boilerplate == {"header", "footer", "number"}

\* What renders to something: any text, and a figure without one.
NoneLeft == ""
Renders(block) == block.text # NoneLeft \/ block.label = "figure"

\* Deduplication over the whole document: the text stands for its boilerplate
\* key.  Mutant: the labels that are deduplicated are not looked at.
Repeats_Any(pages, p, i) ==
  \E q \in 1..p : \E j \in DOMAIN pages[q] :
    (q < p \/ j < i) /\ Renders(pages[q][j]) /\ pages[q][j].text = pages[p][i].text
Repeats(pages, p, i) ==
  /\ pages[p][i].label \in Boilerplate
  /\ \E q \in 1..p : \E j \in DOMAIN pages[q] :
       /\ q < p \/ j < i
       /\ pages[q][j].label \in Boilerplate
       /\ Renders(pages[q][j])
       /\ pages[q][j].text = pages[p][i].text

\* The records _convert_structure_to_markdown keeps of each page, as positions.
Kept(pages) ==
  LET ordered == [p \in DOMAIN pages |-> Ordered(pages[p])]
      Shown(p) == {i \in DOMAIN ordered[p] : Renders(ordered[p][i]) /\ ~Repeats(ordered, p, i)}
  IN [p \in DOMAIN pages |-> Keep([i \in DOMAIN ordered[p] |-> [page |-> p, block |-> ordered[p][i], at |-> i]],
                                  Shown(p))]

\* A page with no parts has no header, but keeps its number.
Sections(pages) ==
  LET kept == Kept(pages)
  IN Keep([p \in DOMAIN pages |-> [header |-> p, records |-> kept[p]]], {p \in DOMAIN pages : kept[p] # <<>>})

-----------------------------------------------------------------------------
(* Labels and values: records of one page, [kind, box] with kind label     *)
(* (text that ends in a colon), value (text or formula) or other.          *)

\* At least half of the label's height.
SameRow(label, box) ==
  2 * (FloorTo(label.y1, box.y1) - CeilTo(label.y0, box.y0)) >= label.y1 - label.y0

PageWidth(records) ==
  LET edges == {records[i].box.x1 : i \in {i \in DOMAIN records : records[i].box # NoBox}}
  IN IF edges = {} THEN 0 ELSE CHOOSE e \in edges : \A f \in edges : f <= e

With(records, kind) == {i \in DOMAIN records : records[i].kind = kind /\ records[i].box # NoBox}

\* Another label of the row stands between.  Mutant: nobody looks.
Between_None(records, i, j) == FALSE
Between(records, i, j) ==
  \E m \in With(records, "label") :
    /\ records[m].box # records[i].box
    /\ records[i].box.x1 <= records[m].box.x0 /\ records[m].box.x0 < records[j].box.x0
    /\ SameRow(records[i].box, records[m].box)

\* A label may take a value to its right, in its row, near enough, and not past
\* another label.
Reaches(records, i, j) ==
  LET label == records[i].box
      value == records[j].box
  IN /\ label.y1 > label.y0
     /\ value.x0 > label.x1
     /\ SameRow(label, value)
     /\ 4 * (value.x0 - label.x1) <= PageWidth(records)
     /\ ~Between(records, i, j)

\* The nearest of the free values, the first of two that are as near.
Nearest(records, i, free) ==
  LET Gap(j) == records[j].box.x0 - records[i].box.x1
  IN CHOOSE j \in free : \A k \in free : Gap(j) < Gap(k) \/ (Gap(j) = Gap(k) /\ j <= k)

\* Labels in the order of the document, each value for the first that takes it.
\* Mutant: a value that is taken can be taken again.
FreeValues_All(records, i, pairs) == {j \in With(records, "value") : Reaches(records, i, j)}
FreeValues(records, i, pairs) ==
  {j \in With(records, "value") : Reaches(records, i, j) /\ ~\E pair \in pairs : pair[2] = j}

Pairs(records) ==
  LET pairs[n \in 0..Len(records)] ==
        IF n = 0 THEN {}
        ELSE LET free == FreeValues(records, n, pairs[n - 1])
             IN IF n \in With(records, "label") /\ free # {}
                THEN pairs[n - 1] \cup {<<n, Nearest(records, n, free)>>} ELSE pairs[n - 1]
  IN pairs[Len(records)]

\* The lines of the page: a label with its value, what is left as it was.
Lines(records) ==
  LET pairs == Pairs(records)
      alone == Ascending({i \in DOMAIN records : ~\E pair \in pairs : pair[2] = i})
  IN [k \in DOMAIN alone |->
        IF \E pair \in pairs : pair[1] = alone[k]
        THEN <<alone[k], (CHOOSE pair \in pairs : pair[1] = alone[k])[2]>> ELSE <<alone[k]>>]

-----------------------------------------------------------------------------
(* Tables: rows of cells [text, span].                                     *)

BlankCell == " "
Blanks(n) == [k \in 1..n |-> BlankCell]

\* _table_row_cells: a cell that spans columns is followed by blank ones.
RowCells(row) ==
  LET cells[n \in 0..Len(row)] ==
        IF n = 0 THEN <<>> ELSE cells[n - 1] \o <<row[n].text>> \o Blanks(row[n].span - 1)
  IN cells[Len(row)]

\* _first_row_is_header, of rows of one width: th cells, or below every column
\* but the first only marks and blanks, one mark at least.
FirstRowIsHeader(rows, th) ==
  \/ th
  \/ /\ Len(rows) >= 2 /\ Len(rows[1]) >= 2
     /\ LET below == {<<r, c>> : r \in 2..Len(rows), c \in 2..Len(rows[1])}
        IN /\ \A at \in below : rows[at[1]][at[2]] \in {"[x]", "[ ]", BlankCell}
           /\ \E at \in below : rows[at[1]][at[2]] \in {"[x]", "[ ]"}

\* Where the data starts.  Mutant: the first row is always the header's.
DataRows_Rest(rows, th) == Tail(rows)
DataRows(rows, th) == IF FirstRowIsHeader(rows, th) THEN Tail(rows) ELSE rows

\* _html_table_to_markdown; "" for a table without rows.
Table(html, th) ==
  LET cells == [r \in DOMAIN html |-> RowCells(html[r])]
      rows == Keep(cells, {r \in DOMAIN html : cells[r] # <<>>})
      widths == {Len(rows[r]) : r \in DOMAIN rows}
      width == CHOOSE w \in widths : \A v \in widths : v <= w
      padded == [r \in DOMAIN rows |-> rows[r] \o Blanks(width - Len(rows[r]))]
  IN IF rows = <<>> THEN [header |-> <<>>, data |-> <<>>]
     ELSE [header |-> IF FirstRowIsHeader(padded, th) THEN padded[1] ELSE Blanks(width),
           data   |-> DataRows(padded, th)]

-----------------------------------------------------------------------------
(* The choice of the engine.                                               *)

Fallbacks == {"pdf", "spreadsheet"}        \* .pdf, .xls, .xlsx

\* convert_to_markdown_with_details: file is [suffix, engine, fallback] with what
\* the engine and the fallback would do.
Converted(file, available) ==
  IF file.suffix = "mail" THEN (IF file.engine = "works" THEN "engine" ELSE "fails")
  ELSE IF available /\ file.engine = "works" THEN "engine"
  ELSE IF file.suffix \in Fallbacks /\ file.fallback = "works" THEN "fallback" ELSE "fails"

-----------------------------------------------------------------------------
\* Every page of a PDF that gave a payload is converted once, in the order of the
\* document, whatever the chunk size; and when every page gave one, the page
\* numbers of the Markdown are those of the document (paddle_service.py:958-1076).
PagesOnceInOrder(pages, payloads, collected) ==
  /\ \A k, l \in DOMAIN collected : k < l => collected[k] < collected[l]
  /\ {collected[k] : k \in DOMAIN collected} = payloads
  /\ payloads = 1..pages => \A k \in DOMAIN collected : collected[k] = k

\* Nothing but a repeated header, footer or page number is left out of the
\* document, and of those the first is kept (paddle_service.py:864-955).
OnlyRepeatsDropped(pages, sections) ==
  LET shown == UNION {{<<sections[s].header, sections[s].records[r].block>> : r \in DOMAIN sections[s].records}
                      : s \in DOMAIN sections}
  IN \A p \in DOMAIN pages : \A i \in DOMAIN pages[p] :
       \/ ~Renders(pages[p][i])
       \/ <<p, pages[p][i]>> \in shown
       \/ /\ pages[p][i].label \in Boilerplate
          /\ \E found \in shown : /\ found[1] <= p
                                  /\ found[2].label \in Boilerplate
                                  /\ found[2].text = pages[p][i].text

\* Pairing moves text and never loses or repeats any: each record is in exactly
\* one line, once (paddle_service.py:769-861).
EveryRecordOnce(records, lines) ==
  LET places == {at \in (DOMAIN lines) \X {1, 2} : at[2] \in DOMAIN lines[at[1]]}
  IN \A i \in DOMAIN records : Cardinality({at \in places : lines[at[1]][at[2]] = i}) = 1

\* On a form laid out in rows a label has exactly the value that is its right
\* neighbour among labels and values, if it is near enough: no order of the blocks
\* lets it take another's (paddle_service.py:769-861).
PairsAreNeighbours(records, pairs) ==
  LET seen == With(records, "label") \cup With(records, "value")
      Right(i) == {j \in seen : records[j].box.y0 = records[i].box.y0 /\ records[j].box.x0 > records[i].box.x1}
      Neighbour(i, j) == j \in Right(i) /\ \A k \in Right(i) : records[j].box.x0 <= records[k].box.x0
  IN pairs = {pair \in With(records, "label") \X With(records, "value") :
                /\ Neighbour(pair[1], pair[2])
                /\ 4 * (records[pair[2]].box.x0 - records[pair[1]].box.x1) <= PageWidth(records)}

\* A table keeps every cell's text once and in order, in rows of one width
\* (paddle_service.py:327-442).
TableKeepsCells(html, table) ==
  LET Filled(cells) == Keep(cells, {k \in DOMAIN cells : cells[k] # BlankCell})
      Flat(rows) == LET flat[n \in 0..Len(rows)] == IF n = 0 THEN <<>> ELSE flat[n - 1] \o rows[n]
                    IN flat[Len(rows)]
  IN /\ Filled(Flat(<<table.header>> \o table.data)) = Filled(Flat([r \in DOMAIN html |-> RowCells(html[r])]))
     /\ \A r \in DOMAIN table.data : Len(table.data[r]) = Len(table.header)
=============================================================================
