---------------------------- MODULE MC_McpService ----------------------------
EXTENDS McpService, SequencesExt, TLC

CONSTANTS d1, d2, c1, x1, x2, y1

\* Lines over "a", "q" and "Q": one the query "q" finds only by lower-
\* casing, and one that holds both queries.
MCLineSet == {<<"a">>, <<"Q">>, <<"q", "a">>}
MCDapFiles == {d1, d2}
MCCellFiles == {c1}
MCDapExamples == {x1, x2}
MCCellExamples == {y1}
MCQueries == {<<"q">>, <<"q", "a">>}

\* d1 is absent or any file of one to three such lines; d2 (two lines,
\* one match of each query: it ties with d1 on score) and c1 are fixed.
MCDocTrees ==
  { t1 @@ (d2 :> <<<<"a">>, <<"q", "a">>>> @@ c1 :> <<<<"Q">>>>) :
      t1 \in {<<>>} \cup [{d1} -> BoundedSeq(MCLineSet, 3) \ {<<>>}] }

\* Example files: x1 at the top of <root>/examples, absent or with any of
\* three texts, UTF-8 or not; x2 in a subdirectory of it; y1 in the
\* CellFrame tree, UTF-8 or not.  The texts hold a query 0, 1 or 2 times
\* and in both letter cases.
MCExampleTrees ==
  { t1 @@ (x2 :> [nested |-> TRUE, utf8 |-> TRUE, text |-> <<"Q", "a">>])
       @@ (y1 :> [nested |-> FALSE, utf8 |-> u, text |-> <<"q">>]) :
      t1 \in {<<>>} \cup
             {x1 :> [nested |-> FALSE, utf8 |-> v, text |-> w] :
                v \in BOOLEAN,
                w \in {<<"a">>, <<"q", "a", "Q">>, <<"Q", "a", "q", "a">>}},
      u \in BOOLEAN }

\* The documentation trees are checked with one example tree and the
\* example trees with one documentation tree: the two scans read
\* different directories and no answer mixes them.
MCDefaultDocs == d1 :> <<<<"Q">>, <<"a">>, <<"q", "a">>>>
                 @@ d2 :> <<<<"a">>, <<"q", "a">>>> @@ c1 :> <<<<"Q">>>>
MCDefaultExamples ==
  x1 :> [nested |-> FALSE, utf8 |-> TRUE, text |-> <<"q", "a", "Q">>]
    @@ x2 :> [nested |-> TRUE, utf8 |-> TRUE, text |-> <<"Q", "a">>]
    @@ y1 :> [nested |-> FALSE, utf8 |-> TRUE, text |-> <<"q">>]
MCTrees ==
  {[docs |-> t, examples |-> MCDefaultExamples] : t \in MCDocTrees}
    \cup {[docs |-> MCDefaultDocs, examples |-> e] : e \in MCExampleTrees}
====
