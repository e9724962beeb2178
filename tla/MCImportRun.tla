---------------------------- MODULE MCImportRun ----------------------------
(* Small instances of ImportRun for TLC.                                   *)
EXTENDS ImportRun, TLC

CONSTANTS r, a, b, c

\* A root with one child, the smallest tree with something to forget.
PairPages == {r, a}
PairKids  == (r :> {a}) @@ (a :> {})

\* A chain with a wide first level, to run into max_pages.
WidePages == {r, a, b, c}
WideKids  == (r :> {a, b}) @@ (a :> {c}) @@ (b :> {}) @@ (c :> {})

AllPoints    == PCs \ {"idle"}
\* Everywhere but between the FINISHED commit and the re-send of the children.
BeforeFinish == AllPoints \ {"backstop"}

\* Executions and requests differ in nothing but their names.
SlotSymmetry == Permutations(Execs) \cup Permutations(Callers)
=============================================================================
