--------------------------- MODULE StatValidation ---------------------------
(***************************************************************************)
(* ChipmunkStatisticalValidator and main() of                              *)
(* src/statistical_validation_script.py: run the SIMD benchmark            *)
(* Iterations times, then the scalar one, each run a subprocess that       *)
(* exits 0, exits non-zero or times out; parse the metrics of every        *)
(* successful run; compare the two sample sets per metric; print the       *)
(* report and save the JSON file.  A KeyboardInterrupt may arrive at any   *)
(* step and makes main() save whatever self.results holds to the partial   *)
(* results file.                                                           *)
(*                                                                         *)
(* A run's output is abstracted to the lines the parser looks at: for     *)
(* each marker either no line (fmt "none"), or a line whose number is      *)
(* printed with a decimal point ("dec") or without one ("int"), and its    *)
(* value.                                                                  *)
(***************************************************************************)
EXTENDS Integers, Sequences, FiniteSets, BenchStats

CONSTANTS
  Iterations,   \* iterations per series (main() uses 25)
  TotalLines,   \* possible "Total time: <x> ms" lines, or NoLine
  AvgLines,     \* possible "Average time per operation: <x> us" lines
  OpsLines,     \* possible "Operations per second: <x>" lines
  WallTimes     \* possible wall-clock durations of a run, in ms

ASSUME Iterations \in Nat \ {0}

NoLine == [fmt |-> "none", val |-> 0]
\* main()'s return value while it is still running.
Running == -1

\* main() runs test_chipmunk_simple (simd) first, then test_chipmunk_scalar.
VariantOrder == <<"simd", "scalar">>
Variants     == {"simd", "scalar"}

Outputs ==
  [rc: {"ok"}, total: TotalLines, avg: AvgLines, ops: OpsLines, wall: WallTimes]
  \cup [rc: {"nonzero", "timeout"}, total: {NoLine}, avg: {NoLine},
        ops: {NoLine}, wall: {0}]

\* operation_types of analyze_results; only operations_per_second is
\* "higher is better".
OpTypes == {"total_test_time_s", "avg_per_operation_s",
            "operations_per_second", "wallclock_time_s"}
Throughput == "operations_per_second"

VARIABLES
  pc,        \* where main() is: "series", "analyze", "save", "exited"
  vi,        \* index in VariantOrder of the series being run
  i,         \* loop index of run_test_series
  series,    \* the local 'results' list of run_test_series
  tests,     \* self.results['tests']: stored variant -> samples
  analysis,  \* self.results['analysis']
  saved,     \* the JSON file written by save_results (file "none": none)
  exitCode,  \* main()'s return value, Running while it runs
  runs       \* history: the outputs of every run, per variant

vars == <<pc, vi, i, series, tests, analysis, saved, exitCode, runs>>

(***************************************************************************)
(* run_single_test: the regex parsing of one successful run.  The two time *)
(* patterns need "\d+\.\d+", so a number printed without a decimal point   *)
(* is not matched; "Operations per second:\s+(\d+)" matches either form.   *)
(* The ms and us values are converted to seconds; the caller's wall clock  *)
(* delta is always recorded.                                               *)
(***************************************************************************)
IsDecimal(line) == line.fmt = "dec"

run_single_test(out) ==
  LET present ==
        {"wallclock_time_s"}
        \cup (IF IsDecimal(out.total) THEN {"total_test_time_s"} ELSE {})
        \cup (IF IsDecimal(out.avg) THEN {"avg_per_operation_s"} ELSE {})
        \cup (IF out.ops.fmt # "none" THEN {"operations_per_second"} ELSE {})
  IN  [m \in present |->
         CASE m = "total_test_time_s"     -> Rat(out.total.val, 1000)
           [] m = "avg_per_operation_s"   -> Rat(out.avg.val, 1000000)
           [] m = "operations_per_second" -> Rat(out.ops.val, 1)
           [] m = "wallclock_time_s"      -> Rat(out.wall, 1000)]

(***************************************************************************)
(* analyze_results: per operation type, the values of the samples that     *)
(* have the metric; the type is skipped unless both sides have some.       *)
(***************************************************************************)
MetricValues(results, op) ==
  LET with == SelectSeq(results, LAMBDA r : op \in DOMAIN r.times)
  IN  [k \in 1..Len(with) |-> with[k].times[op]]

Compared(simdR, scalarR) ==
  {op \in OpTypes : MetricValues(simdR, op) # <<>> /\ MetricValues(scalarR, op) # <<>>}

\* Mutant: the percent of a time metric taken over the SIMD mean instead
\* of the scalar baseline.
CompareMetricSimdBase(op, simdR, scalarR) ==
  LET sm == calculate_statistics(MetricValues(simdR, op))
      sc == calculate_statistics(MetricValues(scalarR, op))
      ratio ==
        CASE ~RatLt(Zero, sc.mean) -> One
          [] op = Throughput       -> RatDiv(sm.mean, sc.mean)
          [] OTHER                 -> RatDiv(sc.mean, sm.mean)
      percent ==
        CASE ~RatLt(Zero, sc.mean) -> Zero
          [] op = Throughput -> RatMul(RatDiv(RatSub(sm.mean, sc.mean), sc.mean), Hundred)
          [] OTHER           -> RatMul(RatDiv(RatSub(sc.mean, sm.mean), sm.mean), Hundred)
  IN  [simd_stats   |-> sm,
       scalar_stats |-> sc,
       improvement_ratio   |-> ratio,
       improvement_percent |-> percent,
       ci_zero_width |-> ~(sm.stdev_pos /\ sm.count > 1),
       significant   |-> RatLt(One, RatAbs(percent))]

\* The improvement of one operation type (lines 117-149).
CompareMetric(op, simdR, scalarR) ==
  LET sm == calculate_statistics(MetricValues(simdR, op))
      sc == calculate_statistics(MetricValues(scalarR, op))
      ratio ==
        CASE ~RatLt(Zero, sc.mean) -> One
          [] op = Throughput       -> RatDiv(sm.mean, sc.mean)
          [] OTHER                 -> RatDiv(sc.mean, sm.mean)
      percent ==
        CASE ~RatLt(Zero, sc.mean) -> Zero
          [] op = Throughput -> RatMul(RatDiv(RatSub(sm.mean, sc.mean), sc.mean), Hundred)
          [] OTHER           -> RatMul(RatDiv(RatSub(sc.mean, sm.mean), sc.mean), Hundred)
  IN  [simd_stats   |-> sm,
       scalar_stats |-> sc,
       improvement_ratio   |-> ratio,
       improvement_percent |-> percent,
       ci_zero_width |-> ~(sm.stdev_pos /\ sm.count > 1),
       significant   |-> RatLt(One, RatAbs(percent))]

\* Line 128 divides by the SIMD mean of a time metric: ZeroDivisionError
\* when that mean is 0 and the scalar one is not.
AnalysisRaises(simdR, scalarR) ==
  \E op \in Compared(simdR, scalarR) \ {Throughput} :
    /\ RatLt(Zero, calculate_statistics(MetricValues(scalarR, op)).mean)
    /\ calculate_statistics(MetricValues(simdR, op)).mean = Zero

analyze_results(simdR, scalarR) ==
  [op \in Compared(simdR, scalarR) |-> CompareMetric(op, simdR, scalarR)]

-----------------------------------------------------------------------------
Init ==
  /\ pc = "series"
  /\ vi = 1
  /\ i = 0
  /\ series = <<>>
  /\ tests = <<>>
  /\ analysis = <<>>
  /\ saved = [file |-> "none", tests |-> <<>>, analysis |-> <<>>]
  /\ exitCode = Running
  /\ runs = [v \in Variants |-> <<>>]

\* Mutant: the loop bound dropped, so the series never ends by itself.
RunIterationUnbounded ==
  /\ pc = "series"
  /\ \E out \in Outputs :
       /\ series' = IF out.rc = "ok"
                    THEN Append(series, [iteration |-> i, times |-> run_single_test(out)])
                    ELSE series
       /\ runs' = [runs EXCEPT ![VariantOrder[vi]] = Append(@, out)]
  /\ i' = i + 1
  /\ UNCHANGED <<pc, vi, tests, analysis, saved, exitCode>>

\* One iteration of run_test_series: run_single_test either returns a
\* sample, which is appended, or raises (non-zero exit, TimeoutExpired),
\* which is caught and the iteration skipped.
RunIteration ==
  /\ pc = "series"
  /\ i < Iterations
  /\ \E out \in Outputs :
       /\ series' = IF out.rc = "ok"
                    THEN Append(series, [iteration |-> i, times |-> run_single_test(out)])
                    ELSE series
       /\ runs' = [runs EXCEPT ![VariantOrder[vi]] = Append(@, out)]
  /\ i' = i + 1
  /\ UNCHANGED <<pc, vi, tests, analysis, saved, exitCode>>

\* Mutant: the series is handed over one run early (a range bound of
\* iterations - 1).
EndSeriesOneShort ==
  /\ pc = "series"
  /\ i = Iterations - 1
  /\ tests' = (VariantOrder[vi] :> series) @@ tests
  /\ IF vi < Len(VariantOrder)
       THEN /\ vi' = vi + 1
            /\ i' = 0
            /\ series' = <<>>
            /\ pc' = "series"
       ELSE /\ pc' = "analyze"
            /\ UNCHANGED <<vi, i, series>>
  /\ UNCHANGED <<analysis, saved, exitCode, runs>>

\* run_test_series returns; main() stores the list in results['tests'] and
\* starts the scalar series or the analysis.
EndSeries ==
  /\ pc = "series"
  /\ i = Iterations
  /\ tests' = (VariantOrder[vi] :> series) @@ tests
  /\ IF vi < Len(VariantOrder)
       THEN /\ vi' = vi + 1
            /\ i' = 0
            /\ series' = <<>>
            /\ pc' = "series"
       ELSE /\ pc' = "analyze"
            /\ UNCHANGED <<vi, i, series>>
  /\ UNCHANGED <<analysis, saved, exitCode, runs>>

\* analyze_results succeeds; results['analysis'] is set and the report
\* printed.
Analyze ==
  /\ pc = "analyze"
  /\ ~AnalysisRaises(tests["simd"], tests["scalar"])
  /\ analysis' = analyze_results(tests["simd"], tests["scalar"])
  /\ pc' = "save"
  /\ UNCHANGED <<vi, i, series, tests, saved, exitCode, runs>>

\* analyze_results raises; main()'s 'except Exception' returns 1 and
\* nothing is saved.
AnalyzeFails ==
  /\ pc = "analyze"
  /\ AnalysisRaises(tests["simd"], tests["scalar"])
  /\ pc' = "exited"
  /\ exitCode' = 1
  /\ UNCHANGED <<vi, i, series, tests, analysis, saved, runs>>

\* save_results() to chipmunk_statistical_validation.json; main returns 0.
Save ==
  /\ pc = "save"
  /\ saved' = [file |-> "final", tests |-> tests, analysis |-> analysis]
  /\ pc' = "exited"
  /\ exitCode' = 0
  /\ UNCHANGED <<vi, i, series, tests, analysis, runs>>

\* KeyboardInterrupt (not an Exception, so not caught by run_test_series):
\* main() saves self.results to chipmunk_partial_results.json, returns 0.
Interrupt ==
  /\ pc \in {"series", "analyze", "save"}
  /\ saved' = [file |-> "partial", tests |-> tests, analysis |-> analysis]
  /\ pc' = "exited"
  /\ exitCode' = 0
  /\ UNCHANGED <<vi, i, series, tests, analysis, runs>>

\* The process has exited.
Exited ==
  /\ pc = "exited"
  /\ UNCHANGED vars

Next ==
  \/ RunIteration
  \/ EndSeries
  \/ Analyze
  \/ AnalyzeFails
  \/ Save
  \/ Interrupt
  \/ Exited

Spec == Init /\ [][Next]_vars

-----------------------------------------------------------------------------
(***************************************************************************)
(* Reference definitions, from spec.md rather than from the code.          *)
(***************************************************************************)

\* Spec 4.1: the SampleSet of a series holds one sample per successful
\* run, in invocation order, tagged with its iteration index; failed and
\* timed-out runs leave no placeholder.
SpecSampleSet(rs) ==
  LET ok == {k \in 1..Len(rs) : rs[k].rc = "ok"}
      nth(j) == CHOOSE k \in ok : Cardinality({x \in ok : x <= k}) = j
  IN  [j \in 1..Cardinality(ok) |->
         [iteration |-> nth(j) - 1, times |-> run_single_test(rs[nth(j)])]]

\* Spec 4.3: ratio and percent by polarity, 1.0 / 0.0 for a zero baseline,
\* significance as |percent| > 1, a zero-width interval when count <= 1 or
\* the deviation is 0.
SpecComparison(op, t, b) ==
  LET cmp ==
        CASE b.mean = Zero    -> [r |-> One, p |-> Zero]
          [] op = Throughput  -> [r |-> RatDiv(t.mean, b.mean),
                                  p |-> RatDiv(RatMul(RatSub(t.mean, b.mean), Hundred), b.mean)]
          [] OTHER            -> [r |-> RatDiv(b.mean, t.mean),
                                  p |-> RatDiv(RatMul(RatSub(b.mean, t.mean), Hundred), b.mean)]
  IN  [simd_stats |-> t, scalar_stats |-> b,
       improvement_ratio |-> cmp.r, improvement_percent |-> cmp.p,
       ci_zero_width |-> t.count <= 1 \/ ~t.stdev_pos,
       significant |-> RatLt(One, RatAbs(cmp.p))]

SpecAnalysis(t, b) ==
  [op \in Compared(t, b) |->
     SpecComparison(op, calculate_statistics(MetricValues(t, op)),
                        calculate_statistics(MetricValues(b, op)))]

SpecTests == [v \in Variants |-> SpecSampleSet(runs[v])]

-----------------------------------------------------------------------------
(***************************************************************************)
(* Invariants                                                              *)
(***************************************************************************)

Sample(smp) ==
  /\ smp.iteration \in 0..Iterations - 1
  /\ DOMAIN smp.times \subseteq OpTypes
  /\ \A m \in DOMAIN smp.times : smp.times[m].den > 0

TypeOK ==
  /\ pc \in {"series", "analyze", "save", "exited"}
  /\ vi \in 1..Len(VariantOrder)
  /\ i \in 0..Iterations
  /\ Len(series) <= i /\ \A k \in 1..Len(series) : Sample(series[k])
  /\ DOMAIN tests \subseteq Variants /\ \A v \in DOMAIN tests : \A k \in DOMAIN tests[v] : Sample(tests[v][k])
  /\ DOMAIN analysis \subseteq OpTypes
  /\ saved.file \in {"none", "final", "partial"}
  /\ exitCode \in {Running, 0, 1}
  /\ runs \in [Variants -> Seq(Outputs)]

\* The saved report is the analysis of exactly the successful runs: its
\* samples are those the spec's collector keeps from the run history (no
\* failed run, no lost success, iteration order and index preserved) and
\* its comparisons are spec 4.3's for those samples.  Breaking it takes a
\* fault in run_test_series, in main()'s hand-off of the series, or in
\* analyze_results.
ReportReflectsRuns ==
  saved.file = "final" =>
    /\ saved.tests = SpecTests
    /\ saved.analysis = SpecAnalysis(SpecTests["simd"], SpecTests["scalar"])

\* Spec 7: when both variants produced samples the run ends with a report
\* (a best-effort summary of whatever data exists), not an exception.
ReportWrittenWhenDataExists ==
  pc = "exited" /\ saved.file = "none" =>
    \E v \in Variants : v \notin DOMAIN tests \/ tests[v] = <<>>


-----------------------------------------------------------------------------
(***************************************************************************)
(* Refinement: the series loop of main() and run_test_series implements    *)
(* the abstract Sample Collector of spec.md.  Collection is over once the  *)
(* last variant's list is in results['tests']; until then the current     *)
(* batch is the local list of run_test_series.                             *)
(***************************************************************************)
CollectionDone == VariantOrder[Len(VariantOrder)] \in DOMAIN tests

Collector == INSTANCE SampleCollector WITH
  Order    <- VariantOrder,
  N        <- Iterations,
  Values   <- {run_single_test(out) : out \in {o \in Outputs : o.rc = "ok"}},
  cur      <- IF CollectionDone THEN Len(VariantOrder) + 1 ELSE vi,
  attempts <- IF CollectionDone THEN 0 ELSE i,
  batch    <- IF CollectionDone THEN <<>> ELSE series,
  sets     <- tests,
  stopped  <- pc = "exited"

\* Every step of main()'s series loop is a step of the Sample Collector of
\* spec 4.1 and 5: a successful run appends one sample with its iteration
\* index, a failed one only counts, a variant's set is handed over whole
\* after Iterations runs and the next starts empty, and after an
\* interrupt or the end of main() nothing more is collected.
CollectorRefined == Collector!Spec

====
