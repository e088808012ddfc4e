------------------------------ MODULE Reporter ------------------------------
(***************************************************************************)
(* The reporter (internal/reporter): the statistics of each metric, the    *)
(* alerts, and the advice that follows from them.                          *)
(***************************************************************************)
EXTENDS Analyzer, SequencesExt

\* Fault: the index is rounded down.
PercentileFloor(n) == IF n < 2 THEN n ELSE (95 * n) \div 100

\* ceil(0.95 n), counted from 1 and clamped to the values there are.
Percentile(n) ==
  LET rank == (95 * n + 99) \div 100
  IN  IF rank < 1 THEN 1 ELSE IF rank > n THEN n ELSE rank

\* A position there is, the first with at least 95 of 100 values up to it.
NearestRank(n) ==
  /\ Percentile(n) \in 1 .. n
  /\ 100 * Percentile(n) >= 95 * n
  /\ 100 * (Percentile(n) - 1) < 95 * n

\* computeStats: the average is sum / n; all zero for no value.
ComputeStats(values) ==
  LET n == Cardinality(DOMAIN values) IN
  IF n = 0 THEN [min |-> 0, sum |-> 0, n |-> 0, p95 |-> 0, max |-> 0]
  ELSE [min |-> Sorted(values, 1), sum |-> Total(values), n |-> n,
        p95 |-> Sorted(values, Percentile(n)), max |-> Sorted(values, n)]

\* Fault: the first interval is skipped.
TimedFromSecond(s) == {i \in 3..Len(s) : s[i].gap > 0}

\* The intervals of positive length, each named by the sample that ends it.
Timed(s) == {i \in 2..Len(s) : s[i].gap > 0}

\* Levels are averaged over the samples, rates over the timed intervals.
Values(s) ==
  [cpu |-> [i \in DOMAIN s |-> s[i].cpu],
   mem |-> [i \in DOMAIN s |-> s[i].rss],
   wr |-> [i \in Timed(s) |-> WriteRate(s, i)],
   flt |-> [i \in Timed(s) |-> FaultRate(s, i)]]

BuildSummary(s) ==
  [cpu |-> ComputeStats(Values(s).cpu), mem |-> ComputeStats(Values(s).mem),
   wr |-> ComputeStats(Values(s).wr), flt |-> ComputeStats(Values(s).flt)]

-----------------------------------------------------------------------------
(* alert.go *)

\* The analyzer's bottlenecks, in the order DetectBottlenecks looks for them.
DetectBottlenecks(s, throttled, pressed) ==
  (IF throttled THEN <<"CPU Throttling">> ELSE <<>>)
    \o (IF pressed THEN <<"Memory Pressure">> ELSE <<>>)
    \o (IF DetectIOSaturation(s) THEN <<"I/O Saturation">> ELSE <<>>)

Severity(type) ==
  IF type \in {"CPU Throttling", "Memory Pressure"} THEN "CRITICAL" ELSE "WARNING"

\* GenerateAlerts: the bottlenecks first, then what the series itself shows.
\* "bursty" already implies a mean above 0.
GenerateAlerts(s, bottlenecks, limit) ==
  LET faults == BuildSummary(s).flt
      nearLimit == limit > 0 /\ s # <<>> /\ 10 * Last(s).rss > 9 * limit
      types == bottlenecks
        \o (IF nearLimit THEN <<"memory_near_limit">> ELSE <<>>)
        \o (IF faults.sum > Scale * faults.n THEN <<"high_major_faults">> ELSE <<>>)
        \o (IF DetectMemoryLeak(s).leak THEN <<"memory_leak">> ELSE <<>>)
        \o (IF AnalyzeCPU(s).bursty THEN <<"bursty_cpu">> ELSE <<>>)
  IN  [k \in DOMAIN types |-> [type |-> types[k], severity |-> Severity(types[k])]]

\* One piece of advice per alert type, two for throttling.
AdviceFor(type) ==
  IF type = "CPU Throttling" THEN <<<<type, 1>>, <<type, 2>>>> ELSE <<<<type, 1>>>>

Fallback(type) ==
  IF type \in {"CPU-bound", "Memory-bound", "I/O-bound"} THEN <<<<type, 1>>>> ELSE <<>>

\* GenerateSuggestions: the fallback only when no alert advised anything, then
\* the first occurrence of each.
GenerateSuggestions(alerts, type) ==
  LET advice == FlattenSeq([k \in DOMAIN alerts |-> AdviceFor(alerts[k].type)])
      all == IF advice = <<>> THEN Fallback(type) ELSE advice
  IN  FoldLeft(LAMBDA seen, a : IF Contains(seen, a) THEN seen ELSE Append(seen, a),
               <<>>, all)
=============================================================================
