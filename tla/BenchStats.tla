----------------------------- MODULE BenchStats -----------------------------
(***************************************************************************)
(* Exact-rational arithmetic and the descriptive statistics shared by the  *)
(* two benchmark drivers (statistical_validation_script.py and             *)
(* simd_size_analysis.py).  Python computes these with floats; the model   *)
(* uses exact rationals, so rounding at the 1% significance threshold and  *)
(* at the 1.0x break-even ratio is not modelled.  A standard deviation is  *)
(* irrational in general: the model keeps whether it is positive, which    *)
(* is all the analysis code branches on.                                   *)
(***************************************************************************)
EXTENDS Integers, Sequences, SequencesExt

(***************************************************************************)
(* Rationals, always normalised (den > 0, gcd(num, den) = 1) so that equal *)
(* values are equal records.                                               *)
(***************************************************************************)
RECURSIVE GCD(_, _)
GCD(a, b) == IF b = 0 THEN a ELSE GCD(b, a % b)

AbsInt(n) == IF n < 0 THEN -n ELSE n

Rat(n, d) ==
  LET s == IF d < 0 THEN -1 ELSE 1
      g == GCD(AbsInt(n), AbsInt(d))
  IN  [num |-> (s * n) \div g, den |-> (s * d) \div g]

Zero    == Rat(0, 1)
One     == Rat(1, 1)
Hundred == Rat(100, 1)

\* Sums over the least common denominator keep the numbers small.
LcmDen(a, b) == (a.den \div GCD(a.den, b.den)) * b.den
RatAdd(a, b) == LET l == LcmDen(a, b) IN Rat(a.num * (l \div a.den) + b.num * (l \div b.den), l)
RatSub(a, b) == LET l == LcmDen(a, b) IN Rat(a.num * (l \div a.den) - b.num * (l \div b.den), l)
RatMul(a, b) == Rat(a.num * b.num, a.den * b.den)
\* Python's '/': defined only when b # 0 (else ZeroDivisionError).
RatDiv(a, b) == Rat(a.num * b.den, a.den * b.num)
RatLt(a, b)  == a.num * b.den < b.num * a.den
RatAbs(a)    == Rat(AbsInt(a.num), a.den)

(***************************************************************************)
(* statistics.mean over a non-empty sequence of rationals, and whether     *)
(* statistics.stdev (the sample deviation, n > 1) is positive: exactly     *)
(* when two values differ.                                                 *)
(***************************************************************************)
SumOf(data) == FoldLeft(RatAdd, Zero, data)

mean(data) == RatDiv(SumOf(data), Rat(Len(data), 1))

StdevPositive(data) == \E j, k \in 1..Len(data) : data[j] # data[k]

(***************************************************************************)
(* calculate_statistics (statistical_validation_script.py): the empty      *)
(* record for no data, else count, mean, and stdev and variance as 0 for a *)
(* single value; min, max, median and range are not read by the analysis  *)
(* and are left out.                                                       *)
(***************************************************************************)
NoStats == [count |-> 0]

calculate_statistics(data) ==
  IF data = <<>> THEN NoStats
  ELSE [count    |-> Len(data),
        mean     |-> mean(data),
        stdev_pos |-> Len(data) > 1 /\ StdevPositive(data)]

=============================================================================
