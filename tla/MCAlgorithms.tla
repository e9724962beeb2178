---------------------------- MODULE MCAlgorithms ----------------------------
(***************************************************************************)
(* Every input of a small size for the algorithms.                         *)
(***************************************************************************)
EXTENDS Algorithms

\* safe_fetch: home on http and https, on another port, elsewhere, and a scheme
\* that is refused; private addresses of home are exempt on 443.
Address(scheme, host, port) == [scheme |-> scheme, host |-> host, port |-> port]
MCUrls  == {Address("http", "home", 80), Address("https", "home", 443), Address("https", "home", 8443),
            Address("https", "away", 443), Address("ftp", "home", 21)}
MCAllowlist == {[host |-> "home", port |-> 443]}
MCAnswers   == {<<>>, <<"public">>, <<"private">>, <<"public", "private">>, <<"public", "metadata">>}

Upto(S, n) == UNION {[1..k -> S] : k \in 0..n}

\* Up to five items in pages of two, or cut anywhere.
MCCaps     == {1, 2, 3, 9}
MCListings ==
  UNION {{[items |-> items, limit |-> 2, cuts |-> cuts \cup {1}, cap |-> cap] :
            cuts \in SUBSET (2..Len(items)), cap \in MCCaps} : items \in Upto({"usable", "skipped"}, 5)}
MCServers ==
  [1..3 -> [items : {<<>>, <<"usable">>, <<"skipped", "usable">>, <<"foreign", "usable">>},
            next  : {NoUrl, 1, 2, 3, OffHost}]]

\* Every tree of up to four parts, of five with the main kinds.
Trees(n, kinds) ==
  {tree \in {[i \in 1..n |-> [kind |-> k[i], parent |-> p[i]]] :
               k \in [1..n -> kinds], p \in {p \in [1..n -> 0..(n - 1)] : \A i \in 1..n : p[i] < i /\ (i > 1 => p[i] > 0)}}
     : IsTree(tree)}
MCMails == UNION {Trees(n, Kinds) : n \in 1..4} \cup Trees(5, {"mixed", "alternative", "related", "html", "plain"})
MCEmlFiles ==
  UNION {{[tree |-> tree, converts |-> c] :
            c \in [{i \in DOMAIN tree : tree[i].kind = "pdf"} -> {"works", "empty", "fails"}]} :
         tree \in UNION {Trees(n, {"mixed", "html", "pdf", "zip", "logo"}) : n \in 1..4}}

\* Sizes on either side of each threshold, one page or none without a payload.
MCPdfs == {pdf \in [family : {"small", "medium", "other"}, default : 0..3, cpuOnly : BOOLEAN,
                    pages : {1, 2, 3, 4, 5, 13, 21}, megabytes : {1, 20, 50}, lost : {{}, {1}, {2}, {3}}]
             : pdf.lost \subseteq 1..pdf.pages}

Block(label, order, text, id) == [label |-> label, order |-> order, id |-> id, text |-> text]
PageOf(n) == {[i \in 1..n |-> Block(b[i][1], b[i][2], b[i][3], 9 - i)] :
                b \in [1..n -> {"text", "header", "figure"} \X {1, NoOrder} \X {"", "a"}]}
MCBlockDocuments == (PageOf(2) \X PageOf(2)) \cup (PageOf(1) \X PageOf(1) \X PageOf(1))

\* A form of two rows and three columns near enough for a label to reach past its
\* neighbour, its blocks in three orders.
Cell(r, c) == [x0 |-> 30 + 4 * c, y0 |-> 10 * r, x1 |-> 33 + 4 * c, y1 |-> 10 * r + 6]
Orders == { << <<1,1>>, <<1,2>>, <<1,3>>, <<2,1>>, <<2,2>>, <<2,3>> >>,
            << <<1,1>>, <<2,1>>, <<1,2>>, <<2,2>>, <<1,3>>, <<2,3>> >>,
            << <<2,3>>, <<1,2>>, <<2,1>>, <<1,3>>, <<1,1>>, <<2,2>> >> }
Form(kinds, order) ==
  LET filled == SelectSeq(order, LAMBDA at : kinds[at] # "none")
  IN [i \in DOMAIN filled |-> [kind |-> kinds[filled[i]], box |-> Cell(filled[i][1], filled[i][2])]]
MCForms == {Form(kinds, order) : kinds \in [(1..2) \X (1..3) -> {"none", "label", "value", "other"}], order \in Orders}

\* Three records anywhere: two rows, a tall box across both, no box.
Boxes == {NoBox, Cell(1, 1), Cell(2, 1), Cell(1, 2), [x0 |-> 38, y0 |-> 10, x1 |-> 41, y1 |-> 26]}
MCLabelPages == [1..3 -> [kind : {"label", "value", "other"}, box : Boxes]]

Rows(n) == Upto([text : {"a", "[x]", " "}, span : 1..2], n)
MCHtmlTables == [rows : Rows(2) \X Rows(2) \X Rows(1), th : BOOLEAN]

MCDocuments == [readings : Upto([key : {"score", "other"}, value : {0, 5, 8, 11}], 2),
                blocks   : Upto([label : {"text", "table", "formula"}, ordered : BOOLEAN, content : BOOLEAN], 2),
                text     : {0, 7, NoText}]
MCDatedTexts ==
  UNION {[numbers : [1..n -> Short \cup {"year"}], between : [1..(n - 1) -> {" ", ".", "/"}]] : n \in 1..5}

\* Up to three variants of an upload.
MCBenchmarkRuns ==
  [suffix : {"pdf", "image"}, fallback : {"works", "fails"}, available : BOOLEAN,
   variants : UNION {[1..n -> [engine : {"works", "fails", "waits"}, duration : 1..2, grade : 0..2]] : n \in 1..3}]

MCLogs == [rows : Upto(1..4, 5), cap : 0..3]

\* A client behind none, one or two proxies of ours, with any header and X-Real-IP.
MCClients ==
  [written : Upto({"x", "y", ""}, 2), path : {<<"client">>, <<"client", "proxy1">>, <<"client", "proxy1", "proxy2">>},
   trusted : {{"proxy1", "proxy2"}}, realIp : {"", "x"}]
=============================================================================
