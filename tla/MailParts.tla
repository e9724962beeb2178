----------------------------- MODULE MailParts ------------------------------
(***************************************************************************)
(* The parts of a mail: which leaf is the body, which parts the manifest   *)
(* lists, what becomes of each (src/backend/app/services/mail_ingest.py),  *)
(* and the Markdown of an .eml file (services/paddle_service.py).          *)
(*                                                                         *)
(* A message is its MIME tree in preorder: a sequence of [kind, parent],   *)
(* the root's parent 0.  A kind stands for content type, disposition and   *)
(* size together.                                                          *)
(***************************************************************************)
EXTENDS Naturals, Sequences, FiniteSets, Positions

Multiparts == {"mixed", "alternative", "related"}
Texts      == {"html", "plain"}               \* inline text/html and text/plain
Attached   == {"note", "pdf", "zip", "big", "logo"}
                      \* attached text/plain, supported, unsupported, over the
                      \* limit, inline image with a Content-ID
Kinds      == Multiparts \cup Texts \cup Attached \cup {"message"}

IsText(kind) == kind \in {"html", "plain", "note"}

\* A tree in preorder: a node hangs below the one before it or one of its ancestors.
IsTree(tree) ==
  /\ tree[1].parent = 0
  /\ \A i \in 2..Len(tree) :
       /\ tree[i].parent \in 1..(i - 1)
       /\ tree[tree[i].parent].kind \in Multiparts
       /\ \A j \in (tree[i].parent + 1)..(i - 1) : tree[j].parent >= tree[i].parent

Children(tree, i) == {j \in DOMAIN tree : tree[j].parent = i}

\* The first child of a multipart/related, the only one the body is looked for in.
IsFirstChild(tree, i) == \A j \in Children(tree, tree[i].parent) : i <= j

\* EmailMessage.get_body(preferencelist=('html', 'plain')): the first HTML part
\* the search reaches, else the first plain one.
GetBody(tree) ==
  LET searched[i \in 1..Len(tree)] ==
        \/ tree[i].parent = 0
        \/ /\ searched[tree[i].parent]
           /\ tree[tree[i].parent].kind = "related" => IsFirstChild(tree, i)
      Found(kind) == {i \in 1..Len(tree) : searched[i] /\ tree[i].kind = kind}
      First(S) == CHOOSE i \in S : \A j \in S : i <= j
  IN IF Found("html") # {} THEN First(Found("html"))
     ELSE IF Found("plain") # {} THEN First(Found("plain")) ELSE 0

\* _walk passes over the body, and over text below a multipart/alternative once
\* there is a body anywhere.  Mutant: over any text once there is a body.
PassedOver_Text(tree, body, i) == i = body \/ (body # 0 /\ i # 1 /\ IsText(tree[i].kind))
PassedOver(tree, body, i) ==
  \/ i = body
  \/ /\ body # 0
     /\ i # 1
     /\ tree[tree[i].parent].kind = "alternative"
     /\ IsText(tree[i].kind)

\* _classify_leaf and _validate_attachment; _container_leaf for what is not entered.
Outcome(tree, i) ==
  CASE tree[i].kind \in Multiparts  -> "unsupported_container"
    [] tree[i].kind = "message"     -> "nested_message"
    [] tree[i].kind = "logo"        -> "inline"
    [] tree[i].kind = "pdf"         -> "job"
    [] tree[i].kind = "big"         -> "too_large"
    [] OTHER                        -> "unsupported_type"

\* A multipart with children is entered, anything else is a leaf of the walk.
IsLeaf(tree, i) == tree[i].kind \notin Multiparts \/ Children(tree, i) = {}

\* _walk_tree: the manifest in the order of the walk; a part's index is its place.
Manifest(tree) ==
  LET body == GetBody(tree)
      listed == Ascending({i \in DOMAIN tree : IsLeaf(tree, i) /\ ~PassedOver(tree, body, i)})
  IN [k \in DOMAIN listed |-> [node |-> listed[k], outcome |-> Outcome(tree, listed[k])]]

\* extract_mail_part: the walk again, on the stored bytes; indexes from 0.
Extract(tree, index) ==
  LET parts == Manifest(tree)
  IN IF index + 1 \in DOMAIN parts THEN parts[index + 1].node ELSE 0

\* _eml_to_markdown: the body, then a section for each part that is not inline:
\* its conversion, or a note that it was skipped.  converts says which of the
\* convertible parts yield text, yield nothing, or fail.
\* Mutant: a failed conversion is passed over.
Told_Failures(part, converts) ==
  part.outcome # "inline" /\ (part.outcome = "job" => converts[part.node] = "works")
Told(part, converts) ==
  part.outcome # "inline" /\ (part.outcome = "job" => converts[part.node] # "empty")

EmlSections(tree, converts) ==
  LET body == GetBody(tree)
      parts == Manifest(tree)
      Section(part) == IF part.outcome # "job" THEN <<"skipped", part.node>>
                       ELSE IF converts[part.node] = "fails" THEN <<"skipped", part.node>>
                       ELSE <<"text", part.node>>
      told == Keep(parts, {k \in DOMAIN parts : Told(parts[k], converts)})
  IN (IF body = 0 THEN <<>> ELSE << <<"text", body>> >>) \o [k \in DOMAIN told |-> Section(told[k])]

-----------------------------------------------------------------------------
\* Every leaf of the message is the body, text below a multipart/alternative,
\* or listed exactly once, in the order of the message, under the index its bytes
\* are found by again (mail_ingest.py:360-411, 547-563).
EveryPartListed(tree) ==
  LET parts == Manifest(tree)
      body == GetBody(tree)
  IN /\ \A i \in DOMAIN tree :
          (IsLeaf(tree, i) /\ i # body) =>
            \/ \E k \in DOMAIN parts : parts[k].node = i
            \/ IsText(tree[i].kind) /\ i # 1 /\ tree[tree[i].parent].kind = "alternative"
     /\ \A k, l \in DOMAIN parts : k < l => parts[k].node < parts[l].node
     /\ \A k \in DOMAIN parts : parts[k].node # body /\ Extract(tree, k - 1) = parts[k].node

\* Text that is dropped stands beside the body it repeats: the group it belongs
\* to contains the chosen body (mail_ingest.py:42-46).
DroppedRepeatsBody(tree) ==
  LET parts == Manifest(tree)
      body == GetBody(tree)
      inside[i \in 0..Len(tree), j \in 0..Len(tree)] ==    \* j is i or below it
        i = j \/ (j # 0 /\ inside[i, tree[j].parent])
  IN \A i \in DOMAIN tree :
       (IsLeaf(tree, i) /\ i # body /\ ~\E k \in DOMAIN parts : parts[k].node = i) =>
         inside[tree[i].parent, body]

\* The Markdown of an .eml file mentions every listed part but the inline ones
\* and those that convert to nothing: as text, or as skipped
\* (paddle_service.py:1642-1735).
EveryPartMentioned(tree, converts) ==
  LET parts == Manifest(tree)
      sections == EmlSections(tree, converts)
  IN \A k \in DOMAIN parts :
       \/ parts[k].outcome = "inline"
       \/ parts[k].outcome = "job" /\ converts[parts[k].node] = "empty"
       \/ \E s \in DOMAIN sections : sections[s][2] = parts[k].node
=============================================================================
