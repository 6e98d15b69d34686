----------------------------- MODULE BenchCommon -----------------------------
(***************************************************************************)
(* The statistics and the validity rules of                                *)
(* bench/microbench/bench_common.cu.  A time is a natural number of ticks; *)
(* fractions are kept exact by scaling: the median is doubled, and the     *)
(* deviation compared squared.                                             *)
(***************************************************************************)
EXTENDS Integers, Sequences, FiniteSets, Functions

CONSTANTS
  MinWarmup, MinSamples,   \* BENCH_MIN_WARMUP, BENCH_MIN_SAMPLES
  MaxStddevPct             \* BENCH_MAX_STDDEV_PCT

ASSUME ProtocolAssumption ==
  {MinWarmup, MinSamples, MaxStddevPct} \subseteq Nat /\ 0 < MinSamples

NoStats == [n |-> 0, min |-> 0, max |-> 0, median2 |-> 0, valid |-> TRUE, reasons |-> {}]

MarkInvalid(s, reason) == [s EXCEPT !.valid = FALSE, !.reasons = @ \cup {reason}]
MarkIf(failed, reason, s) == IF failed THEN MarkInvalid(s, reason) ELSE s

Total(x) ==
  LET sum[k \in 0 .. Len(x)] == IF k = 0 THEN 0 ELSE sum[k - 1] + x[k] IN sum[Len(x)]

\* The samples in order: qsort with cmp_double.
Sorted(x) ==
  LET n == Len(x)
      order == CHOOSE p \in Bijection(1 .. n, 1 .. n) :
                 \A i, j \in 1 .. n : i < j => x[p[i]] <= x[p[j]]
  IN  [i \in 1 .. n |-> x[order[i]]]

DoubledMedian(sorted) ==
  LET n == Len(sorted) IN
  IF n % 2 = 1 THEN 2 * sorted[(n \div 2) + 1] ELSE sorted[n \div 2] + sorted[(n \div 2) + 1]

(* The standard deviation (divisor n-1) above its share of the median.  A  *)
(* median of zero has no share: it is taken for zero per cent.             *)
\* Mutant: the divisor is n.
TooWideOfAll(x, median2) ==
  LET n == Len(x)
      squares == Total([k \in 1 .. n |-> (n * x[k] - Total(x)) * (n * x[k] - Total(x))])
  IN  median2 # 0 /\ 40000 * squares > MaxStddevPct * MaxStddevPct * median2 * median2 * n * n * n

TooWide(x, median2) ==
  LET n == Len(x)
      squares == Total([k \in 1 .. n |-> (n * x[k] - Total(x)) * (n * x[k] - Total(x))])
  IN  median2 # 0 /\ 40000 * squares > MaxStddevPct * MaxStddevPct * median2 * median2 * n * n * (n - 1)

\* bench_compute_stats; mem: the copy that is sorted can be allocated.
ComputeStats(x, mem) ==
  LET n == Len(x)
      sorted == Sorted(x)
      s == [NoStats EXCEPT !.n = n, !.min = sorted[1], !.max = sorted[n], !.median2 = DoubledMedian(sorted)]
  IN  IF n = 0 THEN MarkInvalid(NoStats, "no samples")
      ELSE IF ~mem THEN MarkInvalid([NoStats EXCEPT !.n = n], "allocation")
      ELSE MarkIf(TooWide(x, s.median2), "spread", MarkIf(n < MinSamples, "few", s))
=============================================================================
