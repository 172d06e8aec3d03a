--------------------------- MODULE TemplateValidator ---------------------------
(***************************************************************************)
(* TemplateValidator.validate_all and main() of                            *)
(* src/context/context.reflection/context/tools/scripts/                   *)
(* validate_all_templates.py: eight phases run one after the other over a  *)
(* context directory (JSON files, Markdown files, cross-references, the    *)
(* workflow engine file, code examples, the template matrix, JSON load     *)
(* times, edge cases), each appending ValidationResults and counting them  *)
(* in self.stats; then a report, and exit 0 exactly when no result FAILed. *)
(*                                                                         *)
(* A file's content is reduced to what the checks read: for JSON, whether  *)
(* it parses, its 'type', whether 'version' and the fields its type        *)
(* requires are there, and one workflow pattern; for Markdown, whether it  *)
(* starts with '#', its header levels, the files its internal links name,  *)
(* whether it has a matrix's hints and a code example.  Any file may hold  *)
(* a mention of an unknown template.  Issue texts and timings are left     *)
(* out; a slow JSON load is a nondeterministic choice.                     *)
(***************************************************************************)
EXTENDS Naturals, Sequences, FiniteSets, TLC

CONSTANTS
  JsonFiles,     \* the *.json files under the context root
  MdFiles,       \* the *.md files under the context root
  Workflow,      \* tools/workflow_recommendation_engine.json, in JsonFiles
  Matrix,        \* docs/матрица_взаимосвязи_шаблонов.md, in MdFiles
  JsonContents,  \* possible JSON contents (records, see JsonIssues)
  MdContents     \* possible Markdown contents (records, see MdIssues)

Files == JsonFiles \cup MdFiles

VARIABLES
  pc,          \* the phase main() / validate_all is in
  root,        \* the context root exists (line 503)
  fs,          \* the files that exist
  content,     \* the content of every file
  todo,        \* files of the current per-file loop not yet validated
  results,     \* self.results: a sequence of [name, status]
  stats,       \* self.stats, without the total time
  exitCode,    \* the process exit status, once it has exited
  reported     \* _generate_report has printed the report

vars == <<pc, root, fs, content, todo, results, stats, exitCode, reported>>

Statuses == {"PASS", "FAIL", "WARNING"}
NoPattern == [none |-> TRUE]

-----------------------------------------------------------------------------
(* The checks, each TRUE when the code appends at least one issue.         *)

\* _validate_template_module and _validate_workflow_engine (lines 115-145).
TypeIssues(c) ==
  \/ c.type = "utm" /\ ~c.fields
  \/ /\ c.type = "wre"
     /\ \/ ~c.fields
        \/ c.pattern # NoPattern /\ ~(c.pattern.trigger /\ c.pattern.seq)

\* The body of the loop of _validate_json_structure (lines 79-99): a file
\* that does not parse is one issue; otherwise 'type' and 'version' are
\* required and the type-specific check runs.
JsonIssues(c) ==
  \/ ~c.ok
  \/ c.type = "none" \/ ~c.version \/ TypeIssues(c)

\* Lines 178-185: a header more than one level below the previous one
\* (the one before the first header is level 0).
RECURSIVE SkippedLevel(_, _)

\* Mutant: any header deeper than the previous one is reported.
RECURSIVE SkippedLevelStrict(_, _)
SkippedLevelStrict(hs, prev) ==
  IF hs = <<>> THEN FALSE
  ELSE Head(hs) > prev \/ SkippedLevelStrict(Tail(hs), Head(hs))

SkippedLevel(hs, prev) ==
  IF hs = <<>> THEN FALSE
  ELSE Head(hs) > prev + 1 \/ SkippedLevel(Tail(hs), Head(hs))

\* The body of the loop of _validate_markdown_structure (lines 157-185):
\* the file starts with '#', every internal link names an existing file,
\* no header level is skipped.
MdIssues(c, present) ==
  \/ ~c.hash
  \/ ~(c.links \subseteq present)
  \/ SkippedLevel(c.levels, 0)

\* _validate_workflow_completeness (lines 258-284): the file must exist and
\* parse, and its pattern must have a sequence whose steps all carry a
\* template and a description.
WorkflowIssues(present) ==
  LET c == content[Workflow]
  IN  \/ Workflow \notin present
      \/ ~c.ok
      \/ c.pattern # NoPattern /\ ~(c.pattern.seq /\ c.pattern.stepsOK)

\* _validate_dependencies (lines 341-359).
MatrixIssues(present) == Matrix \notin present \/ ~content[Matrix].hints

\* _validate_cross_references (lines 209-241): some existing file mentions
\* a template name that is not one of the five known ones.
CrossRefIssues(present) == \E f \in present : content[f].badRef

\* _validate_examples (lines 303-323): no code block in a c_development file.
NoExamples(present) == ~\E f \in present \cap MdFiles : content[f].example

\* Mutant: the catch-all else branch counts a warning as passed.
UpdateStatsWarnAsPass(st, status) ==
  [st EXCEPT !.total = @ + 1,
             !.passed = IF status # "FAIL" THEN @ + 1 ELSE @,
             !.failed = IF status = "FAIL" THEN @ + 1 ELSE @]

\* _update_stats (lines 446-454).
UpdateStats(st, status) ==
  [st EXCEPT !.total = @ + 1,
             !.passed = IF status = "PASS" THEN @ + 1 ELSE @,
             !.failed = IF status = "FAIL" THEN @ + 1 ELSE @,
             !.warnings = IF status \notin {"PASS", "FAIL"} THEN @ + 1 ELSE @]

\* results.append(result); self._update_stats(result.status)
AddResult(name, status) ==
  /\ results' = Append(results, [name |-> name, status |-> status])
  /\ stats' = UpdateStats(stats, status)

Status(issues) == IF issues THEN "FAIL" ELSE "PASS"
Warn(issues) == IF issues THEN "WARNING" ELSE "PASS"

-----------------------------------------------------------------------------
Init ==
  /\ pc = "start"
  /\ root \in BOOLEAN
  /\ fs \in IF root THEN SUBSET Files ELSE {{}}
  /\ content \in {j @@ m : j \in [JsonFiles -> JsonContents], m \in [MdFiles -> MdContents]}
  /\ todo = {}
  /\ results = <<>>
  /\ stats = [total |-> 0, passed |-> 0, failed |-> 0, warnings |-> 0]
  /\ exitCode = 0
  /\ reported = FALSE

\* main(), lines 503-508: a missing context root exits 1 before any phase;
\* otherwise _validate_json_structure lists the JSON files (line 73).
Start ==
  /\ pc = "start"
  /\ IF root
       THEN pc' = "json" /\ todo' = fs \cap JsonFiles /\ UNCHANGED exitCode
       ELSE pc' = "done" /\ exitCode' = 1 /\ UNCHANGED todo
  /\ UNCHANGED <<root, fs, content, results, stats, reported>>

\* One iteration of the loop of _validate_json_structure (lines 75-113),
\* for a file of the listing that still exists.
CheckJson(f) ==
  /\ pc = "json"
  /\ f \in todo \cap fs
  /\ AddResult(f, Status(JsonIssues(content[f])))
  /\ todo' = todo \ {f}
  /\ UNCHANGED <<pc, root, fs, content, exitCode, reported>>

\* The loop is over; _validate_markdown_structure lists the *.md files.
EndJson ==
  /\ pc = "json"
  /\ todo = {}
  /\ pc' = "md"
  /\ todo' = fs \cap MdFiles
  /\ UNCHANGED <<root, fs, content, results, stats, exitCode, reported>>

\* One iteration of the loop of _validate_markdown_structure (lines
\* 153-202); the links are resolved against the files existing now.
CheckMd(f) ==
  /\ pc = "md"
  /\ f \in todo \cap fs
  /\ AddResult(f, Status(MdIssues(content[f], fs)))
  /\ todo' = todo \ {f}
  /\ UNCHANGED <<pc, root, fs, content, exitCode, reported>>

\* A listed file that no longer exists: open() raises inside the try and
\* becomes an issue, but json_file.stat() (line 109) or md_file.stat()
\* (line 198), outside the try, raises FileNotFoundError, which nothing
\* catches: the process ends with a traceback and status 1.
CheckVanished(f) ==
  /\ pc \in {"json", "md"}
  /\ f \in todo \ fs
  /\ pc' = "done"
  /\ exitCode' = 1
  /\ UNCHANGED <<root, fs, content, todo, results, stats, reported>>

\* The phases with a single result, lines 49-60, in their order.  Each
\* reads the files existing when it runs.
Phase(from, to, name, status) ==
  /\ pc = from
  /\ pc' = to
  /\ AddResult(name, status)
  /\ UNCHANGED <<root, fs, content, todo, exitCode, reported>>

EndMd == todo = {} /\ Phase("md", "workflow", "cross_references", Status(CrossRefIssues(fs)))
WorkflowCompleteness == Phase("workflow", "examples", "workflow_completeness", Status(WorkflowIssues(fs)))
Examples == Phase("examples", "deps", "examples_validation", Warn(NoExamples(fs)))
Dependencies == Phase("deps", "perf", "dependencies_validation", Status(MatrixIssues(fs)))

\* _validate_performance (lines 376-413): a JSON file that fails to load,
\* or takes more than 0.5 s, is a warning.
Performance ==
  \E slow \in BOOLEAN :
    Phase("perf", "edge", "performance_test",
          Warn(slow \/ \E f \in fs \cap JsonFiles : ~content[f].ok))

\* _run_edge_case_tests (lines 419-444): always a warning.
EdgeCases == Phase("edge", "report", "edge_case_tests", "WARNING")

\* _generate_report (lines 456-494), the return of validate_all (line 67)
\* and sys.exit in main (line 510).
Report ==
  /\ pc = "report"
  /\ reported' = TRUE
  /\ exitCode' = IF stats.failed = 0 THEN 0 ELSE 1
  /\ pc' = "done"
  /\ UNCHANGED <<root, fs, content, todo, results, stats>>

\* The process has exited.
Done ==
  /\ pc = "done"
  /\ UNCHANGED vars

Next ==
  \/ Start
  \/ \E f \in JsonFiles : CheckJson(f)
  \/ EndJson
  \/ \E f \in MdFiles : CheckMd(f)
  \/ EndMd \/ WorkflowCompleteness \/ Examples \/ Dependencies
  \/ Performance \/ EdgeCases \/ Report
  \/ Done

Spec == Init /\ [][Next]_vars

\* Another process (an editor, a git checkout, 'slc create') removes a
\* file of the context directory while the validator runs.
Remove(f) ==
  /\ pc # "done"
  /\ f \in fs
  /\ fs' = fs \ {f}
  /\ UNCHANGED <<pc, root, content, todo, results, stats, exitCode, reported>>

NextConcurrentEdit ==
  \/ Next
  \/ \E f \in Files : CheckVanished(f) \/ Remove(f)

SpecConcurrentEdit == Init /\ [][NextConcurrentEdit]_vars

-----------------------------------------------------------------------------
(* What the validator's messages say a valid context directory is, stated  *)
(* over the whole directory rather than check by check.                    *)

\* A JSON file parses, has a 'type' and a 'version'; a template module has
\* its required fields and template_info; a workflow engine its sections,
\* and each pattern a trigger and a sequence.
JsonValid(c) ==
  /\ c.ok /\ c.type # "none" /\ c.version
  /\ c.type \in {"utm", "wre"} => c.fields
  /\ c.type = "wre" /\ c.pattern # NoPattern => c.pattern.trigger /\ c.pattern.seq

\* Every header is at most one level below the header before it, and the
\* first is a top-level header.
HeadersNested(hs) ==
  \A i \in DOMAIN hs : hs[i] <= (IF i = 1 THEN 0 ELSE hs[i - 1]) + 1

MdValid(c, present) ==
  c.hash /\ c.links \subseteq present /\ HeadersNested(c.levels)

WorkflowComplete(c) ==
  c.ok /\ (c.pattern # NoPattern => c.pattern.seq /\ c.pattern.stepsOK)

TreeValid(present) ==
  /\ \A f \in present \cap JsonFiles : JsonValid(content[f])
  /\ \A f \in present \cap MdFiles : MdValid(content[f], present)
  /\ \A f \in present : ~content[f].badRef
  /\ Workflow \in present /\ WorkflowComplete(content[Workflow])
  /\ Matrix \in present /\ content[Matrix].hints

ResultsOf(name) == {i \in DOMAIN results : results[i].name = name}
CountOf(status) == Cardinality({i \in DOMAIN results : results[i].status = status})

-----------------------------------------------------------------------------
\* validate_all's verdict is the directory's validity: when the report has
\* been printed, main exits 0 exactly when every JSON and Markdown file,
\* the cross-references, the workflow engine file and the template matrix
\* are valid.  Warnings (no code examples, slow or unreadable loads in the
\* performance phase, the edge-case placeholder) never fail the run, and a
\* header nesting the per-header loop of lines 181-185 gets wrong would
\* show here.
ExitReflectsTree ==
  pc = "done" /\ reported => (exitCode = 0 <=> TreeValid(fs))

\* The printed report accounts for every file and result: each existing
\* JSON and Markdown file has exactly one result, and the totals of
\* self.stats, kept by _update_stats beside self.results, are the numbers
\* of results with each status, so the success rate of line 485 is taken
\* over a positive total.
ReportAccountsEveryFile ==
  reported =>
    /\ \A f \in fs : Cardinality(ResultsOf(f)) = 1
    /\ stats.total = Len(results) /\ stats.total > 0
    /\ stats.passed = CountOf("PASS")
    /\ stats.failed = CountOf("FAIL")
    /\ stats.warnings = CountOf("WARNING")

\* Whenever the context root exists, the validator ends by printing its
\* report: every per-file failure is meant to become an issue of that
\* file (the try/except around each open), even when the directory
\* changes while the validator runs.
ValidationReported ==
  pc = "done" /\ root => reported

====
