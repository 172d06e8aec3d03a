---------------------------- MODULE SizeAnalysis ----------------------------
(***************************************************************************)
(* SIMDSizeAnalyzer and main() of src/simd_size_analysis.py: for every     *)
(* data size, write a C source for the SIMD variant, compile it, run it    *)
(* Iterations times and remove the source and executable; then the same    *)
(* for the scalar variant; compare the mean throughput of the two.  A      *)
(* compile error or a run timeout raises out of compile_and_run_test and   *)
(* the size is abandoned by analyze_size_performance's per-size 'except'.  *)
(* After the sweep main() prints the report (with the break-even size)     *)
(* and saves the JSON file; a KeyboardInterrupt at any step saves          *)
(* self.results to the partial file.                                       *)
(*                                                                         *)
(* A sample keeps only ops_per_sec, the one metric analyze_size_results    *)
(* reads; the wall clock, total and average times are stored in the JSON   *)
(* but never read.  A run's output is the throughput line: none, or its    *)
(* integer value.                                                          *)
(***************************************************************************)
EXTENDS Integers, Sequences, SequencesExt, FiniteSets, BenchStats

CONSTANTS
  Sizes,        \* test_sizes of main(), ascending
  Iterations,   \* iterations per compile_and_run_test (main() uses 10)
  OpsValues     \* possible values printed after "Operations per second:"

ASSUME /\ Sizes \in Seq(Nat \ {0}) /\ Sizes # <<>>
       /\ Iterations \in Nat \ {0}
       /\ OpsValues \subseteq Nat

NoOps == -1
\* The generated source (temp_test_<type>_<size>.c) and its executable.
Kinds == {"c", "exe"}
VariantOrder == <<"simd", "scalar">>
Variants == {"simd", "scalar"}
\* No break-even size found (break_even = None).
None == 0
\* main()'s return value while it is still running.
Running == -1

\* What one compile or run can produce.
Outcomes ==
  [rc: {"ok"}, ops: OpsValues \cup {NoOps}]
  \cup [rc: {"nonzero", "timeout", "compile_error"}, ops: {NoOps}]

VARIABLES
  pc,          \* "create", "compile", "run", "endloop", "main", "exited"
  si,          \* index in Sizes of the size under test
  vi,          \* index in VariantOrder of the variant under test
  i,           \* loop index of compile_and_run_test
  cur,         \* its local 'results' list
  simdR,       \* simd_results of the size under test
  files,       \* temporary files on disk: <<size, variant, kind>>
  analysis,    \* the local 'analysis' dict: size -> size analysis
  allResults,  \* the local 'all_results' dict
  results,     \* self.results: tests and analysis
  breakEven,   \* the break-even size printed by generate_report
  saved,       \* the JSON file written (file "none": none)
  exitCode,    \* main()'s return value, Running while it runs
  runs         \* history: outcomes per size index and variant

vars == <<pc, si, vi, i, cur, simdR, files, analysis, allResults, results,
          breakEven, saved, exitCode, runs>>

Size    == Sizes[si]
Variant == VariantOrder[vi]
Source  == <<Size, Variant, "c">>
Binary  == <<Size, Variant, "exe">>

(***************************************************************************)
(* The parse of one successful run in compile_and_run_test.                *)
(***************************************************************************)
ParseRun(out, iter) ==
  [iteration |-> iter,
   times |-> IF out.ops = NoOps THEN <<>> ELSE ("ops_per_sec" :> Rat(out.ops, 1))]

(***************************************************************************)
(* analyze_size_results: the empty dict unless both sides have a           *)
(* throughput value; else the means, their ratio and the advantage in      *)
(* percent, both 0 when the scalar mean is not positive.                   *)
(***************************************************************************)
EmptyDict == [empty |-> TRUE]

OpsOf(rs) ==
  LET with == SelectSeq(rs, LAMBDA r : "ops_per_sec" \in DOMAIN r.times)
  IN  [k \in 1..Len(with) |-> with[k].times["ops_per_sec"]]

analyze_size_results(simdRs, scalarRs, size) ==
  LET t == OpsOf(simdRs)
      b == OpsOf(scalarRs)
  IN  IF simdRs = <<>> \/ scalarRs = <<>> \/ t = <<>> \/ b = <<>> THEN EmptyDict
      ELSE LET tm == mean(t)
               bm == mean(b)
           IN  [empty |-> FALSE, size |-> size,
                simd_mean |-> tm, scalar_mean |-> bm,
                performance_ratio |-> IF RatLt(Zero, bm) THEN RatDiv(tm, bm) ELSE Zero,
                simd_advantage |-> IF RatLt(Zero, bm)
                                   THEN RatMul(RatDiv(RatSub(tm, bm), bm), Hundred)
                                   ELSE Zero]

\* data.get('performance_ratio', 0) in generate_report.
RatioOf(a) == IF a.empty THEN Zero ELSE a.performance_ratio

(***************************************************************************)
(* generate_report's break-even search: the first size, in sorted order,   *)
(* whose ratio exceeds 1.0.                                                *)
(***************************************************************************)
\* Mutant: the loop without its 'break', so the last such size wins.
RECURSIVE LastAdvantage(_, _)
LastAdvantage(an, ss) ==
  IF ss = <<>> THEN None
  ELSE LET later == LastAdvantage(an, Tail(ss))
       IN  IF later # None THEN later
           ELSE IF RatLt(One, RatioOf(an[Head(ss)])) THEN Head(ss) ELSE None

RECURSIVE FirstAdvantage(_, _)
FirstAdvantage(an, ss) ==
  IF ss = <<>> THEN None
  ELSE IF RatLt(One, RatioOf(an[Head(ss)])) THEN Head(ss)
  ELSE FirstAdvantage(an, Tail(ss))

SortedSizes(an) == SetToSortSeq(DOMAIN an, <)

break_even(an) == FirstAdvantage(an, SortedSizes(an))

-----------------------------------------------------------------------------
Init ==
  /\ pc = "create"
  /\ si = 1
  /\ vi = 1
  /\ i = 0
  /\ cur = <<>>
  /\ simdR = <<>>
  /\ files = {}
  /\ analysis = <<>>
  /\ allResults = <<>>
  /\ results = [tests |-> <<>>, analysis |-> <<>>]
  /\ breakEven = None
  /\ saved = [file |-> "none", tests |-> <<>>, analysis |-> <<>>]
  /\ exitCode = Running
  /\ runs = [k \in 1..Len(Sizes) |-> [v \in Variants |-> <<>>]]

\* Mutant: the last-size test off by one.
NextSizePastEnd ==
  /\ vi' = 1
  /\ i' = 0
  /\ cur' = <<>>
  /\ simdR' = <<>>
  /\ IF si <= Len(Sizes) THEN si' = si + 1 /\ pc' = "create"
                         ELSE pc' = "endloop" /\ si' = si

\* The for-loop of analyze_size_performance moves to the next size, or
\* leaves the loop; the locals of the finished size are dead.
NextSize ==
  /\ vi' = 1
  /\ i' = 0
  /\ cur' = <<>>
  /\ simdR' = <<>>
  /\ IF si < Len(Sizes) THEN si' = si + 1 /\ pc' = "create"
                        ELSE pc' = "endloop" /\ si' = si

Record(out) == runs' = [runs EXCEPT ![si][Variant] = Append(@, out)]

\* create_test_with_size writes temp_test_<type>_<size>.c.
CreateSource ==
  /\ pc = "create"
  /\ files' = files \cup {Source}
  /\ pc' = "compile"
  /\ UNCHANGED <<si, vi, i, cur, simdR, analysis, allResults, results,
                 breakEven, saved, exitCode, runs>>

\* gcc succeeds: the executable exists; the iteration loop starts.
Compile ==
  /\ pc = "compile"
  /\ files' = files \cup {Binary}
  /\ pc' = "run"
  /\ UNCHANGED <<si, vi, i, cur, simdR, analysis, allResults, results,
                 breakEven, saved, exitCode, runs>>

\* gcc fails: "Compilation failed" is raised before the cleanup; the
\* per-size 'except' abandons the size (both variants).
CompileFails ==
  /\ pc = "compile"
  /\ Record([rc |-> "compile_error", ops |-> NoOps])
  /\ NextSize
  /\ UNCHANGED <<files, analysis, allResults, results, breakEven, saved, exitCode>>

\* One iteration: a run that exits 0 is parsed and appended; a non-zero
\* exit is skipped.
RunIteration ==
  /\ pc = "run"
  /\ i < Iterations
  /\ \E out \in Outcomes :
       /\ out.rc \in {"ok", "nonzero"}
       /\ cur' = IF out.rc = "ok" THEN Append(cur, ParseRun(out, i)) ELSE cur
       /\ Record(out)
  /\ i' = i + 1
  /\ UNCHANGED <<pc, si, vi, simdR, files, analysis, allResults, results,
                 breakEven, saved, exitCode>>

\* subprocess.TimeoutExpired is not caught in compile_and_run_test: it
\* skips the cleanup and the per-size 'except' abandons the size.
RunTimesOut ==
  /\ pc = "run"
  /\ i < Iterations
  /\ Record([rc |-> "timeout", ops |-> NoOps])
  /\ NextSize
  /\ UNCHANGED <<files, analysis, allResults, results, breakEven, saved, exitCode>>

\* compile_and_run_test removes the source and the executable and returns
\* its results.  After the simd variant the scalar one is created; after
\* the scalar one, a size with samples on both sides is analysed and kept.
\* (When its analysis is the empty dict, the progress print raises
\* ValueError on 'N/A':.3f after both dicts were updated; the 'except'
\* then goes on with the next size, which is what happens anyway.)
EndRuns ==
  /\ pc = "run"
  /\ i = Iterations
  /\ files' = files \ {Source, Binary}
  /\ IF vi = 1
       THEN /\ simdR' = cur
            /\ vi' = 2
            /\ i' = 0
            /\ cur' = <<>>
            /\ pc' = "create"
            /\ UNCHANGED <<si, analysis, allResults>>
       ELSE /\ IF simdR # <<>> /\ cur # <<>>
                 THEN /\ analysis' = (Size :> analyze_size_results(simdR, cur, Size)) @@ analysis
                      /\ allResults' = (Size :> [simd |-> simdR, scalar |-> cur]) @@ allResults
                 ELSE UNCHANGED <<analysis, allResults>>
            /\ NextSize
  /\ UNCHANGED <<results, breakEven, saved, exitCode, runs>>

\* After the loop: self.results gets the tests and the analysis.
EndLoop ==
  /\ pc = "endloop"
  /\ results' = [tests |-> allResults, analysis |-> analysis]
  /\ pc' = "main"
  /\ UNCHANGED <<si, vi, i, cur, simdR, files, analysis, allResults,
                 breakEven, saved, exitCode, runs>>

\* main(): a non-empty analysis is reported and saved to
\* simd_size_analysis.json; main returns 0.
Report ==
  /\ pc = "main"
  /\ DOMAIN analysis # {}
  /\ breakEven' = break_even(analysis)
  /\ saved' = [file |-> "final", tests |-> results.tests, analysis |-> results.analysis]
  /\ exitCode' = 0
  /\ pc' = "exited"
  /\ UNCHANGED <<si, vi, i, cur, simdR, files, analysis, allResults, results, runs>>

\* main(): "No valid results obtained"; nothing saved; main returns 0.
NoResults ==
  /\ pc = "main"
  /\ DOMAIN analysis = {}
  /\ exitCode' = 0
  /\ pc' = "exited"
  /\ UNCHANGED <<si, vi, i, cur, simdR, files, analysis, allResults, results,
                 breakEven, saved, runs>>

\* KeyboardInterrupt: main() saves self.results to simd_size_partial.json
\* and returns 0; temporary files of the size under test stay on disk.
Interrupt ==
  /\ pc # "exited"
  /\ saved' = [file |-> "partial", tests |-> results.tests, analysis |-> results.analysis]
  /\ exitCode' = 0
  /\ pc' = "exited"
  /\ UNCHANGED <<si, vi, i, cur, simdR, files, analysis, allResults, results,
                 breakEven, runs>>

\* The process has exited.
Exited ==
  /\ pc = "exited"
  /\ UNCHANGED vars

Next ==
  \/ CreateSource \/ Compile \/ CompileFails
  \/ RunIteration \/ RunTimesOut \/ EndRuns
  \/ EndLoop \/ Report \/ NoResults \/ Interrupt \/ Exited

Spec == Init /\ [][Next]_vars

-----------------------------------------------------------------------------
(***************************************************************************)
(* Reference definitions over the run history, from spec.md.               *)
(***************************************************************************)

\* Spec 4.1: one sample per successful run, in order, with its iteration.
SpecSampleSet(rs) ==
  LET ok == {k \in 1..Len(rs) : rs[k].rc = "ok"}
      nth(j) == CHOOSE k \in ok : Cardinality({x \in ok : x <= k}) = j
  IN  [j \in 1..Cardinality(ok) |-> ParseRun(rs[nth(j)], nth(j) - 1)]

SpecSamples(k) == [v \in Variants |-> SpecSampleSet(runs[k][v])]

\* Both series of size index k ran to the end: no compile error, no timeout.
SeriesCompleted(k) ==
  \A v \in Variants : /\ Len(runs[k][v]) = Iterations
                      /\ \A e \in 1..Len(runs[k][v]) : runs[k][v][e].rc \in {"ok", "nonzero"}

\* Size indices with samples on both sides.
HasSamples(k) == \A v \in Variants : SpecSamples(k)[v] # <<>>

\* Spec 7.2: the break-even size is the smallest whose SIMD mean throughput
\* exceeds the (positive) scalar one.
AdvantageSizes(K) ==
  {Sizes[k] : k \in {k \in K : LET t == OpsOf(SpecSamples(k)["simd"])
                                   b == OpsOf(SpecSamples(k)["scalar"])
                               IN  t # <<>> /\ b # <<>> /\ RatLt(Zero, mean(b))
                                   /\ RatLt(mean(b), mean(t))}}

-----------------------------------------------------------------------------
(***************************************************************************)
(* Invariants                                                              *)
(***************************************************************************)

TypeOK ==
  /\ pc \in {"create", "compile", "run", "endloop", "main", "exited"}
  /\ si \in 1..Len(Sizes)
  /\ vi \in 1..2
  /\ i \in 0..Iterations
  /\ Len(cur) <= i
  /\ files \subseteq {Sizes[k] : k \in 1..Len(Sizes)} \X Variants \X Kinds
  /\ DOMAIN analysis \subseteq {Sizes[k] : k \in 1..Len(Sizes)}
  /\ DOMAIN allResults = DOMAIN analysis
  /\ saved.file \in {"none", "final", "partial"}
  /\ exitCode \in {Running, 0}
  /\ runs \in [1..Len(Sizes) -> [Variants -> Seq(Outcomes)]]

\* The saved report agrees with what the benchmark runs printed: it ranks
\* exactly the sizes whose two series completed with samples on both
\* sides, stores those samples in run order, gives a size its mean SIMD and
\* scalar throughput (the empty dict when one side printed none), and
\* names as break-even the smallest size at which SIMD's mean throughput
\* beats a positive scalar one.  Breaking it takes a fault in the sample
\* loop, the per-size abandonment, the analysis or the break-even search.
SizeReportReflectsRuns ==
  LET ranked == {k \in 1..Len(Sizes) : SeriesCompleted(k) /\ HasSamples(k)}
  IN  saved.file = "final" =>
        /\ DOMAIN saved.analysis = {Sizes[k] : k \in ranked}
        /\ \A k \in ranked :
             LET smp == SpecSamples(k)
                 a   == saved.analysis[Sizes[k]]
                 t   == OpsOf(smp["simd"])
                 b   == OpsOf(smp["scalar"])
             IN  /\ saved.tests[Sizes[k]] = smp
                 /\ a.empty = (t = <<>> \/ b = <<>>)
                 /\ ~a.empty => a.simd_mean = mean(t) /\ a.scalar_mean = mean(b)
        /\ breakEven = IF AdvantageSizes(ranked) = {} THEN None
                       ELSE Min(AdvantageSizes(ranked))

\* Spec 5: the temporary source and executable are deleted after each test
\* whatever happens, so none is left once the program has exited.  The
\* 'rm -f' of compile_and_run_test runs only when the loop finishes.
TempFilesRemoved ==
  pc = "exited" => files = {}

\* Spec 4.1 and 7: a timeout skips that run only, so a size whose two
\* variants both produced samples is ranked in the final report.  The
\* TimeoutExpired of compile_and_run_test abandons the whole size.
TimeoutSkipsOnlyThatRun ==
  saved.file = "final" =>
    \A k \in 1..Len(Sizes) : HasSamples(k) => Sizes[k] \in DOMAIN saved.analysis

====
