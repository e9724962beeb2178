----------------------------- MODULE Algorithms -----------------------------
(***************************************************************************)
(* SafeFetch, and the algorithms without a state of their own: one step    *)
(* picks an input, from the sets the constants give, and computes the      *)
(* output; the invariants relate the two.                                  *)
(***************************************************************************)
EXTENDS SafeFetch, Listing, MailParts, Conversion, QualityGate, Upkeep

CONSTANTS Listings,         \* [items, limit, cuts, cap]: honest listings, how they are paged, the cap
          HostileServers,   \* servers that send what they like
          Caps,             \* caps of listings from those
          Mails,            \* MIME trees
          EmlFiles,         \* [tree, converts]
          Pdfs,             \* [family, default, cpuOnly, pages, megabytes, lost]
          BlockDocuments,   \* sequences of pages, sequences of blocks
          Forms,            \* records laid out in rows
          LabelPages,       \* records anywhere
          HtmlTables,       \* [rows, th]
          Documents,        \* [readings, blocks, text]
          DatedTexts,       \* [numbers, between]
          BenchmarkRuns,    \* [suffix, fallback, available, variants]
          Logs,             \* [rows, cap]
          Clients           \* [written, path, trusted, realIp]

VARIABLES algorithm, input, output
chosen == <<algorithm, input, output>>

AlgorithmsInit ==
  /\ Init
  /\ \/ algorithm = "fetch"
     \/ /\ algorithm = "none"
        /\ url = CHOOSE first \in Urls : TRUE
        /\ method = "GET"
  /\ input = <<>>
  /\ output = <<>>

Fetch == algorithm = "fetch" /\ Next /\ UNCHANGED chosen

\* A step of a stateless algorithm: Ready before its input is picked.
Ready == algorithm = "none"
Computes(name, in, out) ==
  /\ algorithm' = name
  /\ input' = in
  /\ output' = out
  /\ UNCHANGED vars

-----------------------------------------------------------------------------
(* Listings.                                                               *)

ASSUME ListingsAssumption ==
  \A l \in Listings : /\ l.items \in Seq({"usable", "skipped"})
                      /\ l.limit \in Nat \ {0}
                      /\ l.cuts \in SUBSET (1..(Len(l.items) + 1))
                      /\ l.cap \in Nat \ {0}

\* URLs are 1..n, and a server may send on to any of them, to none or off its host.
Server(n) == [1..n -> [items : Seq({"usable", "skipped", "foreign"}), next : {NoUrl, OffHost} \cup 1..n]]
ASSUME HostileAssumption ==
  /\ \A server \in HostileServers :
       LET n == Cardinality(DOMAIN server) IN n \in Nat \ {0} /\ server \in Server(n)
  /\ Caps \subseteq Nat \ {0}

ListHonest ==
  /\ Ready
  /\ \E l \in Listings :
       LET turns == Len(l.items) + 1
       IN \/ Computes("honest", <<l.items, l.cap>>, List(V1Server(l.items, l.limit), "v1", l.limit, l.cap, turns))
          \/ Computes("honest", <<l.items, l.cap>>, List(V2Server(l.items, l.cuts), "v2", l.limit, l.cap, turns))

ListHostile ==
  /\ Ready
  /\ \E server \in HostileServers, cap \in Caps :
       Computes("hostile", cap, List(server, "v2", 1, cap, Cardinality(DOMAIN server) + 1))

\* Against a server that keeps its contract a listing finds every usable item
\* once, in order, up to its cap (confluence.py:396-411).
HonestListingsComplete == algorithm = "honest" => ListsEverything(input[1], input[2], output)

\* Whatever the server answers, a listing ends, asks no URL twice, stays on the
\* host and within its cap (confluence.py:320-326, 396-411).
HostileListingsStop == algorithm = "hostile" => StopsAtHostileServers(input, output)

\* A listing is complete against an honest server and ends against any.
ListingsSound == HonestListingsComplete /\ HostileListingsStop

-----------------------------------------------------------------------------
(* Mails.                                                                  *)

MimeTree(tree) == tree \in Seq([kind : Kinds, parent : Nat]) /\ tree # <<>> /\ IsTree(tree)

ASSUME MailsAssumption ==
  /\ \A tree \in Mails : MimeTree(tree)
  /\ \A file \in EmlFiles :
       /\ MimeTree(file.tree)
       /\ file.converts \in [{i \in DOMAIN file.tree : file.tree[i].kind = "pdf"} -> {"works", "empty", "fails"}]

WalkMail ==
  /\ Ready
  /\ \E tree \in Mails : Computes("mail", tree, Manifest(tree))

ConvertMail ==
  /\ Ready
  /\ \E file \in EmlFiles : Computes("eml", <<file.tree, file.converts>>, EmlSections(file.tree, file.converts))

\* Every part of a mail is its body, text below a multipart/alternative, or listed
\* once and in order, under the index that finds it again (mail_ingest.py:360-411).
MailPartsListed == algorithm = "mail" => EveryPartListed(input)

\* Text left out of the manifest repeats the body: its multipart/alternative
\* contains the body that was chosen (mail_ingest.py:42-46).
DroppedTextRepeatsBody == algorithm = "mail" => DroppedRepeatsBody(input)

\* A part of an .eml file that fails to convert, or is not converted, is mentioned,
\* and takes no other part with it (paddle_service.py:1642-1735).
MailPartsMentioned == algorithm = "eml" => EveryPartMentioned(input[1], input[2])

\* No part of a mail is lost, neither of one that was posted (_walk_tree) nor of
\* one that was uploaded as a file (_eml_to_markdown).
NoPartLost == MailPartsListed /\ MailPartsMentioned

-----------------------------------------------------------------------------
(* Documents.                                                              *)

Box == [x0 : Nat, y0 : Nat, x1 : Nat, y1 : Nat]
Record == [kind : {"label", "value", "other"}, box : Box]
BlockType == [label : STRING, order : Nat, id : Nat, text : STRING]

\* Each box has its place in one row, between the others of that row.
LaidOut(records) ==
  /\ \A i \in DOMAIN records : records[i].box.x0 < records[i].box.x1 /\ records[i].box.y0 < records[i].box.y1
  /\ \A i, j \in DOMAIN records :
       LET a == records[i].box
           b == records[j].box
       IN i # j => \/ a.y1 <= b.y0 \/ b.y1 <= a.y0
                   \/ a.y0 = b.y0 /\ a.y1 = b.y1 /\ (a.x1 < b.x0 \/ b.x1 < a.x0)

ASSUME DocumentsAssumption ==
  /\ \A pdf \in Pdfs : pdf.pages \in Nat \ {0} /\ pdf.default \in Nat /\ pdf.lost \in SUBSET (1..pdf.pages)
  /\ \A pages \in BlockDocuments :
       /\ pages \in Seq(Seq(BlockType))
       /\ \A p \in DOMAIN pages : \A i, j \in DOMAIN pages[p] : i # j => pages[p][i].id # pages[p][j].id
  /\ \A records \in Forms : records \in Seq(Record) /\ LaidOut(records)
  /\ LabelPages \subseteq Seq(Record)
  /\ \A table \in HtmlTables : table.rows \in Seq(Seq([text : STRING, span : Nat \ {0}]))

ChunkPdf ==
  /\ Ready
  /\ \E pdf \in Pdfs :
       LET payloads == (1..pdf.pages) \ pdf.lost
           size == ChunkSize(pdf.family, pdf.default, pdf.cpuOnly, pdf.pages, pdf.megabytes)
       IN Computes("chunks", <<pdf.pages, payloads>>, Collected(pdf.pages, size, payloads))

ArrangeBlocks ==
  /\ Ready
  /\ \E pages \in BlockDocuments : Computes("blocks", pages, Sections(pages))

PairForm ==
  /\ Ready
  /\ \E records \in Forms : Computes("form", records, Pairs(records))

PairAnywhere ==
  /\ Ready
  /\ \E records \in LabelPages : Computes("pairs", records, Lines(records))

RenderTable ==
  /\ Ready
  /\ \E table \in HtmlTables : Computes("table", table.rows, Table(table.rows, table.th))

\* Every page that gave a payload is converted once and in order, whatever the
\* chunks (paddle_service.py:958-1076).
PagesInOrder == algorithm = "chunks" => PagesOnceInOrder(input[1], input[2], output)

\* Only repeated headers, footers and numbers are left out (paddle_service.py:864-955).
OnlyRepeatsLeftOut == algorithm = "blocks" => OnlyRepeatsDropped(input, output)

\* On a form a label has its right neighbour (paddle_service.py:769-861).
FormsArePaired == algorithm = "form" => PairsAreNeighbours(input, output)

\* Pairing neither loses nor repeats a record (paddle_service.py:769-861).
PairingKeepsText == algorithm = "pairs" => EveryRecordOnce(input, output)

\* A table keeps the text of its cells (paddle_service.py:327-442).
TablesKeepText == algorithm = "table" => TableKeepsCells(input, output)

\* The Markdown of a document has its pages in order, each block, record and cell
\* once, and values next to their labels, whatever order the engine gives.
MarkdownKeepsDocument ==
  PagesInOrder /\ OnlyRepeatsLeftOut /\ FormsArePaired /\ PairingKeepsText /\ TablesKeepText

-----------------------------------------------------------------------------
(* Scores and dates.                                                       *)

\* A label is a table's, a formula's, or, as "text", any other.
Labels == {"table", "formula", "text"}
Document == [readings : Seq([key : {"score", "other"}, value : Nat]),
             blocks   : Seq([label : Labels, ordered : BOOLEAN, content : BOOLEAN]),
             text     : 0..10 \cup {NoText}]

ASSUME GateAssumption ==
  /\ Documents \subseteq Document
  /\ \A text \in DatedTexts : text.numbers \in Seq(Short \cup {"year"})

\* doc with one thing better: a reading, a block, or the text.
Better(doc) ==
  {[doc EXCEPT !.readings[i].value = v] : i \in DOMAIN doc.readings, v \in {5, 8, 10}}
  \cup {[doc EXCEPT !.blocks[i].ordered = TRUE] : i \in DOMAIN doc.blocks}
  \cup {[doc EXCEPT !.blocks[i].content = TRUE] : i \in DOMAIN doc.blocks}
  \cup {[doc EXCEPT !.blocks[i].label = "text"] : i \in {i \in DOMAIN doc.blocks : doc.blocks[i].label = "formula"}}
  \cup {[doc EXCEPT !.text = 9]}
Grade ==
  /\ Ready
  /\ \E doc \in Documents : Computes("grade", doc, {better \in Better(doc) : Improves(doc, better)})

FindDates ==
  /\ Ready
  /\ \E text \in DatedTexts : Computes("dates", text, Dates(text))

\* An improvement never lowers the score (quality_gate.py:55-290).
NeverScoresLess ==
  algorithm = "grade" => \A better \in output : BetterNeverScoresLess(input, better)

\* No digits are counted in two dates (field_validation.py:178-237).
DatesOnce == algorithm = "dates" => DatesCountedOnce(output)

\* What the gate says of a document never gets worse when the document gets
\* better, nor counts a field twice.
GateIsFair == NeverScoresLess /\ DatesOnce

-----------------------------------------------------------------------------
(* Reports, logs and clients.                                              *)

\* A request comes from path[1], through proxies that each append the peer they
\* saw to what the client has written; the last of the path is our peer.
ASSUME UpkeepAssumption ==
  /\ \A run \in BenchmarkRuns :
       /\ run.available \in BOOLEAN
       /\ run.suffix # "mail"
       /\ run.variants \in Seq([engine : {"works", "fails", "waits"}, duration : Nat, grade : 0..3])
  /\ \A log \in Logs : log.rows \in Seq(Nat) /\ log.cap \in Nat
  /\ \A client \in Clients :
       /\ client.written \in Seq(STRING)
       /\ client.path \in Seq(STRING) /\ client.path # <<>>
       /\ \A k \in DOMAIN client.path : client.path[k] # Blank
       /\ client.path[Len(client.path)] \in client.trusted => Len(client.path) > 1

\* One upload, its variants as far as they have come.
Compare ==
  /\ Ready
  /\ \E run \in BenchmarkRuns :
       LET End(v) == IF v.engine = "waits" THEN "waits"
                     ELSE Converted([suffix |-> run.suffix, engine |-> v.engine, fallback |-> run.fallback],
                                    run.available)
           jobs == [i \in DOMAIN run.variants |->
                      JobOf(End(run.variants[i]), run.variants[i].duration, run.variants[i].grade)]
           ran == {i \in DOMAIN run.variants : run.available /\ run.variants[i].engine = "works"}
       IN Computes("report", <<jobs, ran>>, Report(jobs))

PruneLog ==
  /\ Ready
  /\ \E log \in Logs : Computes("prune", <<log.rows, log.cap>>, Prune(log.rows, log.cap))

Identify ==
  /\ Ready
  /\ \E client \in Clients :
       LET proxies == Len(client.path) - 1
           peer == client.path[proxies + 1]
           header == client.written \o SubSeq(client.path, 1, proxies)
       IN Computes("client", <<client.path[1], client.trusted, peer>>,
                   ClientId(peer, client.trusted, header, client.realIp, proxies))

\* The winners of a benchmark ran their engine (benchmarks.py:186-228).
WinnersAreReal == algorithm = "report" => WinnersRanTheirEngine(input[1], input[2], output)

\* A prune keeps the newest rows, the cap at least (log_capture.py:115-134).
PruneKeepsCap == algorithm = "prune" => PruneKeepsNewest(input[1], input[2], output)

\* A client cannot choose the name it is limited under (security.py:116-149).
ClientsAreObserved == algorithm = "client" => ClientIsObserved(input[1], input[2], input[3], output)

\* What is picked from a list: winners from reports, rows to prune from a log, a
\* client from a header, at the edges of each.
PicksTheRightOnes == WinnersAreReal /\ PruneKeepsCap /\ ClientsAreObserved

-----------------------------------------------------------------------------
AlgorithmsNext ==
  \/ Fetch
  \/ ListHonest \/ ListHostile
  \/ WalkMail \/ ConvertMail
  \/ ChunkPdf \/ ArrangeBlocks \/ PairForm \/ PairAnywhere \/ RenderTable
  \/ Grade \/ FindDates \/ Compare \/ PruneLog \/ Identify

AlgorithmsSpec == AlgorithmsInit /\ [][AlgorithmsNext]_<<vars, chosen>>
=============================================================================
