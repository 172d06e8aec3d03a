------------------------------ MODULE McpServer ------------------------------
(***************************************************************************)
(* DAPMCPServer of src/docs/mcp_server/core/server.py answering tool calls *)
(* read from stdio, with the documentation search of DAPMCPTools           *)
(* (core/tools.py): search_documentation, _search_in_directory and         *)
(* _find_context_matches, and find_code_examples with its example scans.   *)
(* A tool coroutine never awaits anything that                             *)
(* suspends it, so one call is read, dispatched and answered in one step,  *)
(* and calls are answered in the order they were sent.                     *)
(*                                                                         *)
(* Text is a sequence of characters over a small alphabet with one upper   *)
(* case letter; a documentation file is its sequence of lines (the text   *)
(* split at "\n").  The parts of a search answer built from other trees    *)
(* (suggested modules, code examples, API references) and the answers of   *)
(* the tools that return fixed tables are a value per table.  A document   *)
(* read never fails here: the search skips a file whose read raises, which *)
(* is the same as a tree without it.  An example file may not be UTF-8:    *)
(* one listing skips it, the other raises.  search_functions_and_apis,     *)
(* whose regular expressions over C headers are not modelled, answers      *)
(* with its name only.                                                     *)
(***************************************************************************)
EXTENDS Naturals, Sequences, SequencesExt, FiniteSets

CONSTANTS
  Trees,        \* the documentation and example trees the server may find
  DapFiles,     \* names of the files under <root>/docs
  CellFiles,    \* names of the files under <root>/../cellframe-sdk/docs
  DapExamples,  \* names of the .c files under <root>/examples
  CellExamples, \* names of the .c files under <root>/../cellframe-sdk/docs/examples
  Queries,      \* query strings a client sends
  MaxRequests   \* calls a client sends in a run

VARIABLES
  docs,         \* file name -> its lines, for the files that exist
  examples,     \* example name -> [nested, utf8, text], for those that exist
  inbox,        \* calls sent on stdin and not yet read by a server
  responses,    \* the answers written to stdout, in order
  sent          \* calls sent so far

serverVars == <<docs, examples, inbox, responses, sent>>

\* The tools of handle_list_tools.
ListedTools ==
  {"search_documentation", "get_coding_style_guide", "get_module_structure_info",
   "search_functions_and_apis", "find_code_examples", "get_project_overview",
   "show_sdk_architecture", "get_build_and_integration_help"}

\* The calls a client sends: searches, example lookups (the empty query
\* lists every example), every other listed tool, and a name not listed.
Requests ==
  [tool : {"search_documentation"}, query : Queries]
    \cup [tool : {"find_code_examples"}, query : Queries \cup {<<>>}]
    \cup [tool : (ListedTools \ {"search_documentation", "find_code_examples"})
                    \cup {"no_such_tool"},
          query : {<<>>}]

\* str.lower() on this alphabet.
Lower(s) == [i \in DOMAIN s |-> IF s[i] = "Q" THEN "q" ELSE s[i]]

\* 'needle in hay' for strings.
SubstringOf(hay, needle) ==
  \E i \in 0..(Len(hay) - Len(needle)) : SubSeq(hay, i + 1, i + Len(needle)) = needle

\* The file's text: its lines joined by "\n".
RECURSIVE Text(_)
Text(lines) ==
  IF Len(lines) = 1 THEN lines[1] ELSE lines[1] \o <<"\n">> \o Text(Tail(lines))

Dirs == [dap |-> DapFiles, cellframe |-> CellFiles]

\* Mutant: the window ends one line early (i + 2 instead of i + 3).
find_context_matches_ShortWindow(lines, q) ==
  LET hit == SelectSeq([i \in 1..Len(lines) |-> i],
                       LAMBDA i : SubstringOf(Lower(lines[i]), q))
  IN  [j \in DOMAIN hit |->
         [line_number |-> hit[j],
          context |-> (IF hit[j] - 3 > 0 THEN hit[j] - 3 ELSE 0) + 1
                        .. (IF hit[j] + 1 < Len(lines) THEN hit[j] + 1 ELSE Len(lines))]]

\* _find_context_matches(content, query): every line whose lower-cased
\* text contains the query, with the lines lines[start:end] around it,
\* start = max(0, i - 2), end = min(len(lines), i + 3) for the 0-based i.
\* The context is kept as the 1-based line numbers it spans.
find_context_matches(lines, q) ==
  LET hit == SelectSeq([i \in 1..Len(lines) |-> i],
                       LAMBDA i : SubstringOf(Lower(lines[i]), q))
  IN  [j \in DOMAIN hit |->
         [line_number |-> hit[j],
          context |-> (IF hit[j] - 3 > 0 THEN hit[j] - 3 ELSE 0) + 1
                        .. (IF hit[j] + 2 < Len(lines) THEN hit[j] + 2 ELSE Len(lines))]]

\* sorted(results, key=relevance_score, reverse=True): a stable sort, so
\* results of equal score keep the order rglob gave them.
SortByScore(rs) ==
  LET rank(i) == Cardinality({j \in DOMAIN rs :
                    \/ rs[j].relevance_score > rs[i].relevance_score
                    \/ rs[j].relevance_score = rs[i].relevance_score /\ j < i})
  IN  [k \in DOMAIN rs |-> rs[CHOOSE i \in DOMAIN rs : rank(i) = k - 1]]

\* _search_in_directory(directory, query) for the files of a directory
\* in the order rglob yields them: a file whose lower-cased text contains
\* the query is a result with its matches, scored by their number.
search_in_directory(order, query) ==
  LET q     == Lower(query)
      found == SelectSeq(order, LAMBDA f : SubstringOf(Lower(Text(docs[f])), q))
      Result(f) == LET matches == find_context_matches(docs[f], q)
                   IN  [file |-> f, matches |-> matches, relevance_score |-> Len(matches)]
  IN  SortByScore([j \in DOMAIN found |-> Result(found[j])])

\* A directory that does not exist is not searched: its results stay [].
Present(d) == Dirs[d] \cap DOMAIN docs

\* search_documentation(query), for rglob orders ord of both directories.
search_documentation(ord, q) ==
  [d \in {"dap", "cellframe"} |-> search_in_directory(ord[d], q)]

\* The tools that return a fixed table, each table a value of its own.
get_coding_style_guide == "style_guide"
get_module_structure_info == "module_info"
get_project_overview == "project_overview"
show_sdk_architecture == "sdk_architecture"
get_build_and_integration_help == "build_help"

\* str.count: the occurrences of q in s, scanned left to right without
\* overlap.
RECURSIVE Count(_, _)
Count(s, q) ==
  CASE Len(s) < Len(q)                -> 0
    [] SubSeq(s, 1, Len(q)) = q       -> 1 + Count(SubSeq(s, Len(q) + 1, Len(s)), q)
    [] OTHER                          -> Count(Tail(s), q)

Example(f, sdk, relevance) == [name |-> f, sdk |-> sdk, relevance |-> relevance]

\* Mutant: the relevance counted on the text as written, not lower-cased.
search_examples_in_directory_RawCount(order, q, sdk) ==
  LET found == SelectSeq(order, LAMBDA f : examples[f].utf8
                                   /\ SubstringOf(Lower(examples[f].text), q))
  IN  [j \in DOMAIN found |-> Example(found[j], sdk, Count(examples[found[j]].text, q))]

\* _search_examples_in_directory(directory, query, sdk_name): the .c files
\* rglob yields whose text, lower-cased, contains the (lower-case) query,
\* with the number of its occurrences; a file that is not UTF-8 is skipped.
search_examples_in_directory(order, q, sdk) ==
  LET found == SelectSeq(order, LAMBDA f : examples[f].utf8
                                   /\ SubstringOf(Lower(examples[f].text), q))
  IN  [j \in DOMAIN found |-> Example(found[j], sdk, Count(Lower(examples[found[j]].text), q))]

\* _find_relevant_examples(query): DAP SDK examples, then CellFrame ones.
find_relevant_examples(ord, query) ==
  search_examples_in_directory(ord.dapEx, Lower(query), "DAP SDK")
    \o search_examples_in_directory(ord.cellEx, Lower(query), "CellFrame SDK")

\* find_code_examples(query): a query looks the examples up; the empty one
\* lists them all.  That listing reads the DAP SDK examples with glob
\* (top level only) and without a try, so one that is not UTF-8 raises
\* out of the tool; the CellFrame ones are read with rglob and a try.
find_code_examples(ord, query) ==
  LET top  == SelectSeq(ord.dapEx, LAMBDA f : ~examples[f].nested)
      cell == SelectSeq(ord.cellEx, LAMBDA f : examples[f].utf8)
  IN  CASE query # <<>> ->
             [kind |-> "result", examples |-> find_relevant_examples(ord, query)]
        [] \E j \in DOMAIN top : ~examples[top[j]].utf8 ->
             [kind |-> "error", examples |-> <<>>]
        [] OTHER ->
             [kind |-> "result",
              examples |-> [j \in DOMAIN top |-> Example(top[j], "DAP SDK", 0)]
                           \o [j \in DOMAIN cell |-> Example(cell[j], "CellFrame SDK", 0)]]

NoSearch == [d \in {} |-> <<>>]

Answer(r, kind, search, exs, table) ==
  [req |-> r, kind |-> kind, search |-> search, examples |-> exs, table |-> table]

\* handle_call_tool: dispatch on the tool's name; an unknown name raises
\* ValueError, and the except turns any exception into an "Error: ..."
\* text.  Tables stand for the fixed answers.
handle_call_tool(r, ord) ==
  LET fixed == [get_coding_style_guide |-> get_coding_style_guide,
                get_module_structure_info |-> get_module_structure_info,
                get_project_overview |-> get_project_overview,
                show_sdk_architecture |-> show_sdk_architecture,
                get_build_and_integration_help |-> get_build_and_integration_help]
  IN  CASE r.tool = "search_documentation" ->
             Answer(r, "result", search_documentation(ord, r.query), <<>>, "")
        [] r.tool = "find_code_examples" ->
             LET ex == find_code_examples(ord, r.query)
             IN  Answer(r, ex.kind, NoSearch, ex.examples, "")
        [] r.tool = "search_functions_and_apis" ->
             Answer(r, "result", NoSearch, <<>>, r.tool)
        [] r.tool \in DOMAIN fixed ->
             Answer(r, "result", NoSearch, <<>>, fixed[r.tool])
        [] OTHER ->
             Answer(r, "error", NoSearch, <<>>, "")

-----------------------------------------------------------------------------
\* The trees are one of Trees: some of the documentation files, each with
\* at least one line (split('\n') of an empty text is ['']), and some of
\* the example files.
ServerInit ==
  /\ \E t \in Trees : docs = t.docs /\ examples = t.examples
  /\ inbox = <<>>
  /\ responses = <<>>
  /\ sent = 0

\* The client writes a call to the server's stdin.
ClientSends(r) ==
  /\ sent < MaxRequests
  /\ inbox' = Append(inbox, r)
  /\ sent' = sent + 1
  /\ UNCHANGED <<docs, examples, responses>>

\* The serving server reads the next call and writes handle_call_tool's
\* answer; rglob and glob yield each directory's files in some order.
HandleRequest ==
  /\ inbox # <<>>
  /\ \E ord \in [dap : SetToSeqs(Present("dap")),
                 cellframe : SetToSeqs(Present("cellframe")),
                 dapEx : SetToSeqs(DapExamples \cap DOMAIN examples),
                 cellEx : SetToSeqs(CellExamples \cap DOMAIN examples)] :
       responses' = Append(responses, handle_call_tool(Head(inbox), ord))
  /\ inbox' = Tail(inbox)
  /\ UNCHANGED <<docs, examples, sent>>

-----------------------------------------------------------------------------
\* The lines of a file that contain the query, and the lines within two
\* of line i: what a search is meant to return, stated directly.
MatchingLines(lines, q) == {i \in 1..Len(lines) : SubstringOf(Lower(lines[i]), Lower(q))}
Around(lines, i) == {j \in 1..Len(lines) : i - 2 <= j /\ j <= i + 2}

\* A search_documentation answer lists, for each documentation tree,
\* exactly the files that contain the query in any letter case, each with
\* every line that contains it, in order, and the up to two lines on each
\* side of it (clipped at the first and last line), most matches first.
\* The file-level test runs on the whole text and the line-level one on
\* each line, and the context window is cut by index arithmetic at both
\* ends of the file.
SearchAnswersReflectDocs ==
  \A n \in DOMAIN responses :
    LET a == responses[n]
        q == a.req.query
    IN  a.req.tool = "search_documentation" /\ a.kind = "result" =>
          \A d \in {"dap", "cellframe"} :
            LET res == a.search[d]
            IN  /\ {res[j].file : j \in DOMAIN res}
                     = {f \in Present(d) : MatchingLines(docs[f], q) # {}}
                /\ \A j \in DOMAIN res :
                     /\ {m.line_number : m \in ToSet(res[j].matches)}
                          = MatchingLines(docs[res[j].file], q)
                     /\ IsSorted([k \in DOMAIN res[j].matches |-> res[j].matches[k].line_number],
                                 LAMBDA x, y : x < y)
                     /\ \A m \in ToSet(res[j].matches) :
                          m.context = Around(docs[res[j].file], m.line_number)
                /\ \A j \in DOMAIN res : \A k \in DOMAIN res :
                     j < k => res[j].relevance_score >= res[k].relevance_score

\* The places where q starts in s.
Occurrences(s, q) ==
  Cardinality({i \in 1..(Len(s) - Len(q) + 1) : SubSeq(s, i, i + Len(q) - 1) = q})

\* A find_code_examples answer to a query lists every example of both
\* trees, nested ones included, that is UTF-8 and holds the query in any
\* letter case, once, under its own SDK, with the number of times the
\* query occurs in it; no other file.  The lookup lower-cases the query
\* and the text in two functions, skips unreadable files, and counts on
\* the lower-cased text.  (For these queries, which cannot overlap
\* themselves, str.count and the occurrences agree.)
ExamplesAnswerReflectsTree ==
  \A n \in DOMAIN responses :
    LET a  == responses[n]
        q  == Lower(a.req.query)
        ex == a.examples
        Sdk(f) == IF f \in DapExamples THEN "DAP SDK" ELSE "CellFrame SDK"
    IN  a.req.tool = "find_code_examples" /\ a.req.query # <<>> =>
          /\ a.kind = "result"
          /\ Len(ex) = Cardinality(ToSet(ex))
          /\ ToSet(ex) =
               {Example(f, Sdk(f), Occurrences(Lower(examples[f].text), q)) :
                  f \in {g \in DOMAIN examples :
                          examples[g].utf8 /\ Occurrences(Lower(examples[g].text), q) > 0}}

====
