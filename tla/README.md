# TLA+ models of the dap-sdk benchmarking and tooling scripts

This directory holds TLA+ specifications of the scripts under `src/`, the TLC
configurations that check them, and `PROJECT.json`, which records the
components, the runs, the mutants, the source lines each definition models,
the findings and the hazards.

## The system

The repository is a set of independent Python scripts. None of them shares
state with another. The parts are:

| Part | Source | State it changes | Concurrency / failure |
|---|---|---|---|
| Statistical validator | `src/statistical_validation_script.py` | `self.results` (tests, analysis), the JSON report file, exit code | subprocess failure and a 60 s timeout per run, KeyboardInterrupt at any point |
| Size-dependency analyzer | `src/simd_size_analysis.py` | temporary `.c` files and executables, local `analysis` / `all_results`, `self.results`, JSON file, exit code | compile errors, non-zero exits, a 30 s timeout per run, KeyboardInterrupt |
| MCP server daemon | `src/docs/mcp_server/run_server_daemon.py` | `self.running`, the server run, process exit | SIGINT/SIGTERM delivered at any step, client EOF, server exceptions |
| MCP server and tools | `src/docs/mcp_server/core/*.py`, `run_server.py`, `utils/helpers.py`, `src/docs/scripts/mcp_server.py` | the calls read from stdin and the answers written to stdout; nothing else across calls (each tool call is a read-only text search) | calls arrive while the daemon restarts servers; a server that raises loses the call it had read |
| Edge-case test suite | `.../run_edge_case_tests.py` | its result list; `has_cycle` threads a visited set and a path list | a ThreadPoolExecutor reads files concurrently, nothing shared |
| Template validator | `.../validate_all_templates.py` | result list, `stats` counters, exit code | sequential; other processes may change the directory it walks |
| SLC template CLI | `src/context/tools/scripts/slc_cli.py` | project directories created by `create`; a task file touched by `update` | separate CLI processes may run at once |
| Tests, `convert_tests.py` | `src/docs/scripts/...`, `src/docs/mcp_server/tests` | none of interest | none |

The two benchmark drivers follow the same pipeline (`spec.md` sections 2-4).
A *Sample Collector* runs a benchmark executable N times. A *Statistics
Engine* summarises each sample set. A *Comparative Analyzer* compares SIMD
against scalar. A *Report Generator* prints a summary and saves JSON. Both
drivers share the statistics code, which is modelled once in `BenchStats`.
The daemon wraps the MCP server in a restart loop: the two meet in the
server run, which answers the client's calls until stdin is closed, and
`McpService` composes them. The cycle check is a pure algorithm.

## Modules

| Module | Models | State (VARIABLES) | Actions |
|---|---|---|---|
| `BenchStats` | `calculate_statistics` and exact rational arithmetic | none (operators) | none |
| `StatValidation` | `ChipmunkStatisticalValidator` and `main()` | `pc`, `vi`, `i`, `series`, `tests`, `analysis`, `saved`, `exitCode`, history `runs` | `RunIteration` (one loop body of `run_test_series`, including its caught failure), `EndSeries`, `Analyze`, `AnalyzeFails` (ZeroDivisionError path of `main`'s `except Exception`), `Save`, `Interrupt`, `Exited` |
| `SizeAnalysis` | `SIMDSizeAnalyzer` and `main()` | `pc`, `si`, `vi`, `i`, `cur`, `simdR`, `files`, `analysis`, `allResults`, `results`, `breakEven`, `saved`, `exitCode`, history `runs` | `CreateSource`, `Compile`, `CompileFails`, `RunIteration`, `RunTimesOut`, `EndRuns` (cleanup, plus the size analysis after the scalar variant), `EndLoop`, `Report`, `NoResults`, `Interrupt`, `Exited` |
| `ServerDaemon` | `MCPServerDaemon` | `phase`, `running`, `stdin`, `pending`, history `received` | `Register`, `LoopCheck`, `StartServer`, `ServerReturns`, `ServerRaises`, `HandleError`, `SleepDone`, `ClientDisconnects`, `SignalArrives(sig)`, `signal_handler(sig)`, `Done` |
| `McpServer` | `DAPMCPServer.handle_call_tool` (all eight listed tools) and `run`, `DAPMCPTools.search_documentation`, `_search_in_directory`, `_find_context_matches`, `find_code_examples`, `_find_relevant_examples`, `_search_examples_in_directory`, the fixed-table tools | `docs` (file name to its lines, for the files present), `examples` (example name to whether it is nested, UTF-8, and its text), `inbox` (calls sent, not yet read), `responses`, `sent` | `ClientSends(r)`, `HandleRequest` (read one call, dispatch it, write the answer; rglob's order of each directory is a choice) |
| `McpService` | the daemon and the server together | those of `ServerDaemon` and `McpServer` | the daemon's actions, `ReturnsAtEof` (`ServerReturns` once the input is drained), `RaisesMidCall` (`ServerRaises`, possibly losing the call just read), `Serve` (`HandleRequest` while serving), `Send` (while stdin is open) |
| `SlcCreate` | `SLCManager.create_project_from_template`, `_generate_project_structure` and the per-domain writers of `slc_cli.py`, for concurrent `slc create` processes | per process `pc`, `tmpl`, `k` (next generation step), `checked` (passed the existence check); the set `fs` of existing paths | `Start` (template and existence checks), `MakeRoot`, `GenStep` (one mkdir or file write), `Raise` (a step fails), `Rollback` (the `except` with its `rmtree`), `Finish`, `Terminated` |
| `SlcCli` | `main()` of `slc_cli.py` with `list_templates`, `get_template_info`, `search_templates`, `validate_system` and `update_context_system`; composes `SlcCreate` with `INSTANCE` for the `create` command | per invocation `cmd`, `arg`, `cpc`, `out` (what it printed), `stamp`; the task file `task`; the clock `now`; `sys` (which of `modules/`, `context.reflection/`, `.context/` exist, and whether `modules/` holds the catalog); plus the variables of `SlcCreate` | `List`, `Info`, `Search`, `Validate`, `Help`, `UpdateStart` (clock, existence test, `json.load`), `UpdateTruncate` (`open(..., 'w')`), `UpdateDump`, `UpdateFails`, `CreateStep` (one step of `SlcCreate`), `Terminated` |
| `TemplateValidator` | `TemplateValidator.validate_all` and `main` | `pc`, `root`, `fs` (existing files), `content`, `todo` (the per-file loop's remaining listing), `results`, `stats`, `exitCode`, `reported` | `Start`, `CheckJson(f)`, `EndJson`, `CheckMd(f)`, `EndMd` (cross-references), `WorkflowCompleteness`, `Examples`, `Dependencies`, `Performance`, `EdgeCases`, `Report`, `Done`; in `SpecConcurrentEdit` also `Remove(f)` (another process) and `CheckVanished(f)` |
| `SampleCollector` | the Sample Collector of `spec.md` 4.1 and 5, as an abstract specification (not code) | `cur`, `attempts`, `batch`, `sets`, `stopped` | `Collect(m)`, `Fail`, `Complete`, `Stop` |
| `CycleCheck` | `has_cycle` of `_test_circular_dependencies` | `deps`, `start` (one input per state) | none: the input is fixed and the invariant compares `has_cycle` with a reference |

Each `MC_<Module>.tla` extends its module and gives the constants values. The
`.cfg` files name the MC module's definitions.

### Abstractions

- **Floats become exact rationals** (`BenchStats`). Sums use the least common
  denominator, so the values stay small. Float rounding at the 1 % and 1.0x
  thresholds is not modelled. A standard deviation is kept only as "positive
  or not", because the code branches on nothing else: the confidence interval
  is zero-width unless `stdev > 0` and `count > 1`.
- **A run's output is reduced to the lines the parser matches.** For each
  marker there is either no line, a line whose number has a decimal point, or
  one without. Only the decimal form matches the `\d+\.\d+` time patterns;
  `Operations per second: (\d+)` matches both. The wall clock is a small
  constant.
- **In `SizeAnalysis` a sample keeps only `ops_per_sec`.** It is the only
  metric `analyze_size_results` reads; the other metrics are stored and never
  read.
- **Report text, progress prints and logging are left out.** The
  break-even size of the size report is kept as a variable, because a
  property is about it.
- **Signals (`ServerDaemon`).** A signal first becomes pending: CPython's C
  handler sets a flag per signal number, so a second SIGINT merges with a
  pending one. The Python handler runs later at a bytecode boundary, which
  can be any step of `main_loop`. Before line 55 the default handlers end the
  process.
- **Documentation text (`McpServer`)** is a sequence of characters over
  `a`, `q` and `Q`, where `str.lower()` maps `Q` to `q`; a file is its list of
  lines, and its text is the lines joined by a newline character, so the
  file-level `in` test and the per-line test of `_find_context_matches` are
  both translated. A match keeps its line number and its context as the span
  of line numbers `lines[start:end]` covers; the stripped line and the joined
  context text are left out. Of the other parts of a search answer
  (suggested modules from keyword tables, example and API-reference scans)
  are left out. The five tools that return a fixed table answer with one
  value per table; `search_functions_and_apis` answers with its name only,
  as its regular expressions over C headers are not modelled. An example
  file is `[nested, utf8, text]`: in a subdirectory or not, decodable or
  not, and its text. A file whose read raises is skipped by the code, which is the
  same as a tree without it.
- **The file system (`SlcCreate`)** is a set of paths `<<project, relative
  path>>`; file contents are left out. A plain mkdir or a file write raises
  when its parent is missing, while `mkdir(parents=True)` makes the
  ancestors. Any step may also fail for an environment reason. The loops
  that make sibling folders under one parent are one step each. A template's
  domain is reduced to the first branch word it contains, or "other".
- **Templates (`SlcCli`)** are records `[cat, rel, data]`: the category
  directory, the path below it, and what `get_template_info` makes of the
  file. That is kind "error" for a file `json.load` rejects, or kind "ok"
  with the words of its name, description and `target_projects` and its
  domain. The search's substring test becomes word membership: a query is
  one word, or "" (which every text contains). The task file keeps only
  whether it is absent, truncated or readable, and its `last_updated`. The
  time is a counter that `datetime.now()` reads.
- **File contents (`TemplateValidator`)** are records of what the checks
  read. A JSON file has: whether it parses, its `type`, whether `version`
  and its type's required fields are present, one workflow pattern (trigger,
  sequence, complete steps), and a mention of an unknown template. A
  Markdown file has: a leading `#`, its header levels, the files its
  internal links name, the matrix hints, a code example, and an unknown
  mention. Each check becomes "issues or none", because only that decides a
  status. A slow JSON load is a nondeterministic choice.

## Runs

| Run | Cfg | Expect | Checks |
|---|---|---|---|
| `stat_report` | `StatValidation.cfg` | pass | `TypeOK`; `ReportReflectsRuns`: a saved final report holds exactly one sample per successful run, in order and with its iteration index, and spec 4.3's comparison of them per metric (polarity, zero-baseline guard, significance, CI width). `CollectorRefined`: the series loop implements `SampleCollector` (see Refinement). |
| `stat_zero_time` | `StatValidation_crash.cfg` | violation | `ReportWrittenWhenDataExists`: with samples on both sides a report is written. |
| `size_report` | `SizeAnalysis.cfg` | pass | `TypeOK`; `SizeReportReflectsRuns`: the final file ranks exactly the sizes whose two series completed with samples, stores those samples, gives each size its mean SIMD and scalar throughput (the empty dict when a side printed none), and the printed break-even is the smallest size at which SIMD beats a positive scalar mean. |
| `size_temp_files` | `SizeAnalysis_TempFilesRemoved.cfg` | violation | `TempFilesRemoved`: no temporary file survives the program. |
| `size_timeout` | `SizeAnalysis_TimeoutSkipsOnlyThatRun.cfg` | violation | `TimeoutSkipsOnlyThatRun`: a size with samples on both sides is ranked even if one run timed out. |
| `daemon_signal` | `McpService.cfg` | pass | `SignalStopsDaemon` under `ServiceSpecClientLeaves`: after a signal the daemon exits, wherever in `main_loop` the signal lands, provided the client eventually closes stdin (and its calls have been answered). `SearchAnswersReflectDocs`: a search answer lists, per documentation tree, exactly the files holding the query in any case, each with every matching line in order and the lines within two of it clipped at the ends of the file, in non-increasing relevance. `ExamplesAnswerReflectsTree`: an example lookup with a query lists exactly the UTF-8 example files of both trees (nested ones included) holding it in any case, each once, under its SDK, with its number of occurrences. |
| `daemon_open_session` | `McpService_open_session.cfg` | violation | `SignalStopsDaemon` under `Spec`, where the client may keep its session open. |
| `slc_cli` | `SlcCli.cfg` | pass | Two concurrent `slc` invocations, each with any command and argument, over any layout of the trees. `SearchReportsMatchingTemplates`: a search prints exactly the valid templates whose fields contain the query, with `list_templates`, `get_template_info` and `search_templates` agreeing on paths, and no empty category. `TaskFileDamageReported`: a task file left truncated when no update is mid-write was left by an update that reported the failure, and a silent update found no task file. `CreateOutcomeMatchesDisk`: creates of two different projects, with the template read from the modules tree and any step failing. A project reported created is complete and stays so, and a create that failed after its existence check leaves nothing behind. |
| `slc_same_name` | `SlcCreate_same_name.cfg` | violation | `CreatedProjectKept` for two creates of the same name: a project reported created stays complete. |
| `template_validator` | `TemplateValidator.cfg` | pass | `ExitReflectsTree`: after the report, the exit status is 0 exactly when the directory as a whole is valid (reference definitions `JsonValid`, `MdValid` with `HeadersNested`, `WorkflowComplete`). `ReportAccountsEveryFile`: each file has exactly one result, and `stats` counts the results by status. |
| `template_concurrent_edit` | `TemplateValidator_concurrent_edit.cfg` | violation | `ValidationReported` under `SpecConcurrentEdit`: the validator prints its report whenever the context root exists, even if the directory changes while it runs. |
| `cycle_check` | `CycleCheck.cfg` | pass | `HasCycleIsReachableCycle`: `has_cycle` answers True exactly when a cycle is reachable from the start (reference: `TransitiveClosure` from the community module `Relation`). |

Every property of a passing run has a mutant in `PROJECT.json`: a plausible
bug in one mapped definition that TLC must catch under the run's own cfg.

| Mutant | Plausible bug |
|---|---|
| `CompareMetricSimdBase` | the percent of a time metric computed over the SIMD mean |
| `RunIterationUnbounded` | the loop bound dropped |
| `LastAdvantage` | the break-even loop without its `break` |
| `NextSizePastEnd` | the last-size test off by one |
| `signal_handler_LogOnly` | a handler that does not clear `running` |
| `find_context_matches_ShortWindow` | the context window ending at `i + 2` instead of `i + 3` |
| `search_examples_in_directory_RawCount` | the relevance counted on the text as written (`content.count(query)`), not lower-cased |
| `has_cycle_KeepPath` | `path.remove(start)` dropped |
| `EndSeriesOneShort` | a series handed over after `Iterations - 1` runs; the saved report stays self-consistent, so only the refinement catches it |
| `SkippedLevelStrict` | the header check flags every deeper header (`>` instead of `> prev + 1`) |
| `UpdateStatsWarnAsPass` | `_update_stats`'s catch-all branch counting a warning as passed |
| `RollbackNoRmtree` | the `except` of `create` returning False without `rmtree` |
| `search_templates_NoErrorCheck` | `search_templates` without the `not template_info.get("error")` test; a broken file then matches the empty query |
| `UpdateFails_Silent` | the `except` of `update_context_system` returning without its message, as the missing-file path does |

### Refinement

`SampleCollector` states the promise of `spec.md` 4.1 and 5 without any
parsing. Each variant's batch runs in order. Each of its N iterations
either appends one sample tagged with its iteration index, or fails and
leaves no placeholder. The set is handed over whole after N iterations, and
an interrupt stops everything. `StatValidation` instantiates it with
`INSTANCE ... WITH`:

- `cur`, `attempts` and `batch` map to `vi`, `i` and the local `series`
  until the last variant's list is in `results['tests']`. After that they
  map to "all done".
- `sets` maps to `results['tests']`.
- `stopped` maps to "main has exited".

`stat_report` checks `Collector!Spec` as a property. The off-by-one mutant
shows that this says more than the report invariant does: a series that
ends one run early still produces a report consistent with its own runs.

### Bounds and why they suffice

**`StatValidation`: 2 runs per variant.** Each run may exit 0, exit non-zero
or time out. The total time is 0.00 ms, 2.00 ms, or 2 printed without a
decimal point. The throughput is missing, 1 or 2. There is no average line:
it goes through the same parse and comparison as the total time. With two
runs there are means of two different values (stdev > 0), single-sample sets
(zero-width CI), a metric present in one run only, all-failed series, and a
zero SIMD or scalar mean. The run reaches about 100,000 states in 15 s.

**`SizeAnalysis`: 2 sizes (64 and 128), 2 runs per variant.** Throughput is
missing, 1 or 2. This is enough for two sizes where SIMD wins (the
break-even mutant needs both), a timeout after a successful run, and a
compile error of either variant. It reaches about 900,000 states in 30 s. The
zero-baseline case needs throughput 0; see below.

**`McpService`: one call, the daemon unbounded.** Signals are unbounded
because pending ones merge. The client sends one call: a search for `q` or
`qa`, a listed tool, or an unknown name; one call is enough for it to meet
every daemon step (sent before the server starts, read by a server that
then raises, pending at end of input). The documentation has two files in
`docs` and one in the CellFrame tree. The first is absent or any of the 39
files of one to three lines over `a`, `Q`, `qa`; these put a match on the
first, middle and last line of files of every length, so the window is
clipped at either end or both, and give scores 0 to 3. The second (two
lines, one match of each query) and the CellFrame file are fixed: they give
ties in score, which rglob's order then decides, and a second tree.
Enumerating the other two files as well multiplies the state space by nine
and the liveness check past the time limit. The pass run reaches about
59,000 states in 70 s.

The calls cover all eight listed tools and an unknown name; example
lookups use `q`, `qa` and the empty query. Example trees: `x1` at the top of
`<root>/examples` is absent or holds `a`, `qaQ` or `Qaqa`, UTF-8 or not;
`x2` sits in a subdirectory; `y1` is in the CellFrame tree, UTF-8 or not.
That gives 0, 1 and 2 occurrences, matches only by case, a skipped file in
either tree, and the failing listing. `MCTrees` pairs every documentation
tree with one example tree, and every example tree with one documentation
tree: no answer reads both, so their product adds no case. The pass run
reaches about 206,000 states in 2 min 20 s.

**`CycleCheck`: 3 templates, lists of up to 2 entries, repeats allowed.**
This gives 2197 maps × 3 starts. It covers self-loops, 2- and 3-cycles,
diamonds, nodes reached again after their subtree is finished, and
duplicated list entries.

**`SlcCreate`: 2 processes; domains python, javascript, documentation,
other, plus an invalid template.** Obsidian is left out: its steps add
nothing the other domains lack (a plain mkdir, a file under it). Python and
documentation have the `mkdir(parents=True)` steps, javascript writes under
`src` without a mkdir of its own, and "other" has the shortest generation.
The `slc_same_name` run uses `MC_SlcCreate` with these domains.

**`SlcCli`: 2 invocations, each with any of the 7 commands.** The catalog
holds a valid template for each of python, javascript, documentation and a
domain with no branch, plus one file `json.load` rejects. One template is
in a category directory that is not a default category, and two share a
category. The queries are "" (matches every valid template, and a broken
file in the mutant), a word in two templates, and a word in none. All 12
layouts of the trees are enumerated: each of `modules/` and
`context.reflection/` present or not, `modules/` empty or not, `.context/`
present or not, and the task file present or not. Two updates are enough
for every interleaving of truncate, dump and read. The pass run reaches
about 100,000 states in 8 s.

**`TemplateValidator`: two JSON files (the workflow engine file and one
other) and two Markdown files (the matrix and one other), each of which may
be missing.** There are 7 JSON contents and 6 Markdown contents. They give
every check a passing and a failing case. They include a workflow pattern
that passes the JSON phase but fails completeness, and the other way round.
There are header sequences 1,2,1 / 1,3 / 2, and a link to a file that may be
absent. The pass run enumerates every directory: about 610,000 states in
11 s.

### Fairness

`ServerDaemon.Spec` and `McpService.ServiceSpec` are weakly fair to these steps:

- `main_loop`'s own steps: the asyncio loop keeps running the coroutine;
- `signal_handler` for a pending signal: CPython runs it at the next bytecode
  boundary, and `select` is retried after EINTR (PEP 475);
- `ServerReturns` (`ReturnsAtEof`): the MCP stdio server returns once its
  input is at EOF;
- `Serve` (in `ServiceSpec`): a serving server reads a call waiting on its
  input; the tool coroutines never block.

Signal arrival and client disconnection are the environment's choice.
`SpecClientLeaves` and `ServiceSpecClientLeaves` add only that the client eventually disconnects. The pass
run uses it; the `daemon_open_session` run shows what happens without it.
The benchmark modules have no liveness properties. Their `Exited` stutter
step makes termination explicit, so deadlock checking stays on.

## Findings

Each finding below has a violation run.

- **`stat_zero_time`** (code bug, `statistical_validation_script.py:128`). A
  SIMD series whose runs all print `Total time: 0.00 ms` makes
  `analyze_results` divide by zero. `main` then returns 1 with no report,
  although spec 7 asks for a best-effort summary.
- **`size_temp_files`** (`simd_size_analysis.py:149`). The cleanup runs only
  after a complete loop. A compile error (line 108), a timeout (line 116) or
  an interrupt leaves `temp_test_*` files behind, against spec 5.
- **`size_timeout`** (`simd_size_analysis.py:116`). `TimeoutExpired` escapes
  `compile_and_run_test` and drops the whole size, including the samples
  already taken. Spec 4.1 says a timeout skips that run only.
- **`daemon_open_session`** (`run_server_daemon.py:40`). The handler replaces
  the default SIGINT/SIGTERM behaviour and only clears `running`. A serving
  daemon ignores Ctrl-C and SIGTERM for as long as the client stays
  connected.
- **`slc_same_name`** (`slc_cli.py:106`). The existence check and
  `mkdir(parents=True, exist_ok=True)` are separate steps. Two `slc create`
  runs with the same name both pass the check. If one then fails, its
  `rmtree` (line 126) removes the directory after the other's last write,
  and the other still returns True and prints its "Next steps".
- **`template_concurrent_edit`** (`validate_all_templates.py:109`). Each
  file's open and parse is inside a `try` that turns a failure into an issue
  of that file. The `stat()` that records the file's size is outside it. A
  file removed by another process after the listing (line 73 or 151) ends
  the validation with a `FileNotFoundError` traceback, exit 1 and no report.

### Disagreements not given a run

These were found while modelling and are recorded as hazards in
`PROJECT.json`.

- **`statistical_validation_script.py:196`.** A KeyboardInterrupt during a
  series saves a partial file without that series, because `results['tests']`
  is written only after the series returns. This contradicts spec 5.
- **`statistical_validation_script.py:223`.** When every run fails, `main`
  saves an empty report and returns 0; spec 6 asks for exit 1.
- **`simd_size_analysis.py:223`.** A zero scalar mean gives ratio 0, where
  spec 4.3 says 1.0. The size is then shown as a disadvantage.
- **`simd_size_analysis.py:306`.** When no size yields samples, `main`
  returns 0 rather than 1.
- **`simd_size_analysis.py:191`.** `self.results` is set only
  after the sweep, so an interrupt saves empty tests and analysis.
- **`slc_cli.py:545`.** `update` reads the clock before it loads and
  rewrites the task file. Of two concurrent updates, the one that read the
  clock first can write last, so `last_updated` moves backwards while both
  print success. TLC finds this in `SlcCli`.
- **`slc_cli.py:525`.** `templates_available` is `len(list_templates()) >
  0`. It is always True, because `list_templates` always has its four
  default keys. `slc validate` therefore calls a modules directory without
  any template healthy. TLC reaches this state in `SlcCli`.
- **`core/tools.py:457`.** A file is selected by `query_lower in
  content.lower()` on its whole text, its matches by the same test on each
  line. A query holding a newline lists a file with no match and score 0.
  With such a query in `MCQueries`, TLC reports `SearchAnswersReflectDocs`
  violated.
- **`core/tools.py:376`.** `find_code_examples` with an empty query opens
  the DAP SDK examples without a `try`. One that is not UTF-8 turns the
  whole call into an `Error:` text, while a lookup with a query, and the
  CellFrame listing, skip it. TLC reaches that answer in `McpService`.
- **`core/tools.py:373`.** The same listing uses `glob("*.c")`, the lookup
  `rglob("*.c")`: an example in a subdirectory of `<root>/examples` is
  found by a query but missing from the list of all examples.
- **`core/server.py:237`.** `handle_call_tool` raises `ValueError` for an
  unknown tool, but its own `except Exception` turns the exception into an
  `Error:` text answer. `tests/test_server.py:158` expects the
  `ValueError` to reach the caller. The model follows the code: the
  `no_such_tool` request of `McpServer` gets an answer of kind "error".
  No property depends on which of the two is intended.
- **`run_server_daemon.py:44`.** A server run that raises after reading a
  call loses it; the next server never answers it (`RaisesMidCall`).
- **`run_server_daemon.py:60`.** After the client
  closes stdin, each new server returns at once and is restarted with no
  back-off: a busy loop that never ends without a signal.

The `simd_size_analysis.py:191` and `run_server_daemon.py:60` disagreements had violation runs in the first sitting. Those runs were
retired to keep the run set small when the template validator was added.
The disagreements stay recorded here.

## Not modelled, and why

- **`search_functions_and_apis` and `_find_api_references`.** Their result
  is what a set of regular expressions extract from C headers; the header
  trees and the expressions would be a model of `re`, and the scan itself
  (first 50 headers of each tree, read in a `try`) is the pattern the
  example lookup already shows. The suggestions, examples and API
  references inside a search answer are left out of it for the same
  reason and to keep the liveness run within its time.
- **`utils/helpers.py`.** Nothing imports it.
- **`scripts/mcp_server.py`.** A second, older server that the daemon does
  not run. Its tools report whether fixed module directories exist and how
  many files they hold. They keep no state, and a model of them would
  restate each path test.
- **Edge-case tests other than `has_cycle`.** They time single file reads;
  the thread-pool test shares nothing mutable.
- **Tests and `convert_tests.py`.** Test code and a one-shot text rewrite.
- **The C programs** the benchmark drivers generate are opaque executables,
  as `spec.md` treats them.

## Further work

In order of value:

1. **Violation runs for the recorded disagreements.** The project keeps
   twelve runs. Each disagreement above without a run is reached by an
   existing model, so each needs only a cfg and a one-property run: first
   the lost call (`run_server_daemon.py:44`, "every call is eventually
   answered"), then the example listing (`core/tools.py:376`).
2. **`search_functions_and_apis`**, with the 50-header limit as a named
   bound and its two expressions reduced to the identifiers they capture.
