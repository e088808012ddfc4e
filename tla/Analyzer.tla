------------------------------ MODULE Analyzer ------------------------------
(***************************************************************************)
(* The analyzer's rules over a series of samples (internal/analyzer):      *)
(* classification, bottlenecks, patterns and the fingerprint.              *)
(*                                                                         *)
(* A sample is [gap, cpu, rss, rd, wr, flt]: the time since the sample     *)
(* before it, and the counters the rules read.  The units are chosen so    *)
(* that the thresholds are small: a tick of time moves one unit of I/O at  *)
(* 1 MB/s and takes one unit of major faults at 50/s.  Averages are        *)
(* compared by cross-multiplication, so no fraction is rounded.            *)
(***************************************************************************)
EXTENDS Sequences, FiniteSetsExt, Totals

CONSTANTS
  Scale,   \* a rate is in units per Scale ticks: a multiple of every gap
  Width    \* counters wrap at Width (uint64 in the code)

ASSUME ScaleAssumption == Scale \in Nat \ {0}
ASSUME WidthAssumption == Width \in Nat \ {0}

Types == {"CPU-bound", "Memory-bound", "I/O-bound", "Mixed", "Unknown"}
Levels == {"HIGH", "MEDIUM", "LOW"}

\* uint64 subtraction.
Minus(a, b) == (a - b) % Width

\* Fault: a counter that fell wraps.
RiseUnguarded(prev, curr) == Minus(curr, prev)

\* What a counter gained, 0 when it fell.
Rise(prev, curr) == IF curr >= prev THEN Minus(curr, prev) ELSE 0

\* A clock that was set back makes the time between two samples, and the rate,
\* negative.
PerTick(units, gap) ==
  IF gap > 0 THEN units * (Scale \div gap) ELSE -(units * (Scale \div (-gap)))

Io(sample) == sample.rd + sample.wr
IoRate(s, i) == PerTick(Rise(Io(s[i - 1]), Io(s[i])), s[i].gap)
WriteRate(s, i) == PerTick(Rise(s[i - 1].wr, s[i].wr), s[i].gap)
FaultRate(s, i) == PerTick(Rise(s[i - 1].flt, s[i].flt), s[i].gap)

\* The samples that end an interval of some length, negative or not.
Intervals(s) == {i \in 2..Len(s) : s[i].gap # 0}

-----------------------------------------------------------------------------
(* classifier.go *)

CpuHigh(s, i) == s[i].cpu > 70
CpuLow(s, i) == s[i].cpu < 30
IoLow(s, i) == IoRate(s, i) < Scale
IoHigh(s, i) == IoRate(s, i) > 10 * Scale
FaultsHigh(s, i) == FaultRate(s, i) > 2 * Scale
MemHigh(s, i, limit) == limit > 0 /\ 10 * s[i].rss > 8 * limit

\* The rules of Classify's switch, the first that applies.  The divisor of
\* every average is Len(s) - 1, intervals of no length included.
WorkloadOf(s, limit) ==
  LET n == Len(s) - 1
      cpu == Total([i \in Intervals(s) |-> s[i].cpu])
      rss == Total([i \in Intervals(s) |-> s[i].rss])
      io == Total([i \in Intervals(s) |-> IoRate(s, i)])
      faults == Total([i \in Intervals(s) |-> FaultRate(s, i)])
  IN  IF cpu > 70 * n /\ io < Scale * n THEN "CPU-bound"
      ELSE IF faults > 2 * Scale * n \/ (limit > 0 /\ 10 * rss > 8 * limit * n)
        THEN "Memory-bound"
      ELSE IF io > 10 * Scale * n \/ cpu < 30 * n THEN "I/O-bound"
      ELSE IF cpu > 50 * n /\ io > 5 * Scale * n THEN "Mixed"
      ELSE "Unknown"

\* Fault: a CPU-bound run counts the larger of the two.
MatchCountMax(s, limit, type) ==
  LET Count(P(_)) == Quantify(Intervals(s), P) IN
  CASE type = "CPU-bound" -> Max({Count(LAMBDA i : CpuHigh(s, i)), Count(LAMBDA i : IoLow(s, i))})
    [] type = "Memory-bound" ->
         Max({Count(LAMBDA i : FaultsHigh(s, i)), Count(LAMBDA i : MemHigh(s, i, limit))})
    [] type = "I/O-bound" -> Max({Count(LAMBDA i : IoHigh(s, i)), Count(LAMBDA i : CpuLow(s, i))})
    [] OTHER -> 0

\* How many samples the switch says matched; it leaves 0 for the other types.
MatchCount(s, limit, type) ==
  LET Count(P(_)) == Quantify(Intervals(s), P) IN
  CASE type = "CPU-bound" -> Min({Count(LAMBDA i : CpuHigh(s, i)), Count(LAMBDA i : IoLow(s, i))})
    [] type = "Memory-bound" ->
         Max({Count(LAMBDA i : FaultsHigh(s, i)), Count(LAMBDA i : MemHigh(s, i, limit))})
    [] type = "I/O-bound" -> Max({Count(LAMBDA i : IoHigh(s, i)), Count(LAMBDA i : CpuLow(s, i))})
    [] OTHER -> 0

\* computeConfidence, for a total above 0.
Confidence(count, total) ==
  IF 10 * count >= 9 * total THEN "HIGH"
  ELSE IF 10 * count >= 6 * total THEN "MEDIUM"
  ELSE "LOW"

Classify(s, limit) ==
  IF Len(s) < 2 THEN [type |-> "Unknown", confidence |-> "LOW"]
  ELSE LET type == WorkloadOf(s, limit)
       IN  [type |-> type,
            confidence |-> Confidence(MatchCount(s, limit, type), Len(s) - 1)]

-----------------------------------------------------------------------------
(* pattern.go *)

NoLeak == [leak |-> FALSE, growth |-> 0]

\* Fault: the end of the run is not looked at.
DetectMemoryLeakOpen(s) ==
  LET n == Len(s)
      at == <<1, n \div 4 + 1, n \div 2 + 1, (3 * n) \div 4 + 1>>
  IN  IF n >= 5 /\ \A k \in 1..3 : s[at[k]].rss <= s[at[k + 1]].rss
        THEN [leak |-> TRUE, growth |-> Minus(s[n].rss, s[1].rss)]
        ELSE NoLeak

\* RSS at the start, the three quarters and the end never falls.
DetectMemoryLeak(s) ==
  LET n == Len(s)
      at == <<1, n \div 4 + 1, n \div 2 + 1, (3 * n) \div 4 + 1, n>>
  IN  IF n >= 5 /\ \A k \in 1..4 : s[at[k]].rss <= s[at[k + 1]].rss
        THEN [leak |-> TRUE, growth |-> Minus(s[n].rss, s[1].rss)]
        ELSE NoLeak

\* Bursty: the standard deviation exceeds 30% of the mean; steady: it is below
\* 10%.  n^2 times the variance is n * squares - sum^2.
AnalyzeCPU(s) ==
  LET n == Len(s)
      sum == Total([i \in 1..n |-> s[i].cpu])
      squares == Total([i \in 1..n |-> s[i].cpu * s[i].cpu])
      spread == n * squares - sum * sum
  IN  [bursty |-> sum > 0 /\ 100 * spread > 9 * sum * sum,
       steady |-> sum > 0 /\ 100 * spread < sum * sum]

\* What was written in each interval, the intervals where the counter fell
\* left out.
WriteDeltas(s) ==
  [i \in {i \in 2..Len(s) : s[i].wr >= s[i - 1].wr} |-> Minus(s[i].wr, s[i - 1].wr)]

\* The k-th of the values in ascending order, counted from 1.
Sorted(values, k) ==
  CHOOSE v \in Range(values) :
    /\ Cardinality({x \in DOMAIN values : values[x] < v}) < k
    /\ Cardinality({x \in DOMAIN values : values[x] <= v}) >= k

\* Fault: the lower median of an even number of values.
MedianLow(values) == Sorted(values, (Cardinality(DOMAIN values) + 1) \div 2)

\* sorted[len/2], counted from 0.
Median(values) == Sorted(values, Cardinality(DOMAIN values) \div 2 + 1)

\* The intervals that wrote more than three times the median.
SpikesIn(deltas) ==
  IF DOMAIN deltas = {} \/ Median(deltas) = 0 THEN {}
  ELSE {i \in DOMAIN deltas : deltas[i] > 3 * Median(deltas)}

\* Periodic: the distances between spikes, in intervals that were not left out,
\* deviate by less than 20% of their mean.
AnalyzeIOSpikes(s) ==
  LET deltas == WriteDeltas(s)
      at == IF Len(s) < 3 THEN {} ELSE SpikesIn(deltas)
      Following(i) == Min({j \in at : j > i})
      distance == [i \in {i \in at : \E j \in at : j > i} |->
                     Cardinality({j \in DOMAIN deltas : i < j /\ j <= Following(i)})]
      m == Cardinality(at) - 1
      sum == Total(distance)
      squares == Total([i \in DOMAIN distance |-> distance[i] * distance[i]])
  IN  [spikes |-> Cardinality(at),
       periodic |-> m >= 1 /\ 25 * (m * squares - sum * sum) < sum * sum]

-----------------------------------------------------------------------------
(* bottleneck.go: detectIOSaturation.  The cgroup files the other two checks *)
(* read are part of the state, not of the series.                            *)

\* The rate of the last interval before i that was not skipped, 0 if none.
RateBefore(s, i) ==
  LET before == {j \in Intervals(s) : j < i}
  IN  IF before = {} THEN 0 ELSE WriteRate(s, Max(before))

DetectIOSaturation(s) ==
  /\ Len(s) >= 5
  /\ Intervals(s) # {}
  /\ LET plateau == {i \in Intervals(s) : i > 3 /\ 100 * WriteRate(s, i) < 105 * RateBefore(s, i)}
     IN  Cardinality(plateau) > Cardinality(Intervals(s)) \div 4

-----------------------------------------------------------------------------
(* fingerprints.go: the vector, as sums over "count" samples.               *)

\* Fault: the averages divide by every sample, the first included.
BuildFingerprintOverall(s) ==
  LET after == 2..Len(s) IN
  [count |-> Len(s),
   cpu |-> Total([i \in after |-> s[i].cpu]),
   mem |-> Total([i \in after |-> s[i].rss]),
   flt |-> Total([i \in after |-> Rise(s[i - 1].flt, s[i].flt)])]

\* A single sample has no deltas and counts for itself.
BuildFingerprint(s) ==
  LET after == 2..Len(s) IN
  IF Len(s) = 1 THEN [count |-> 1, cpu |-> s[1].cpu, mem |-> s[1].rss, flt |-> 0]
  ELSE [count |-> Len(s) - 1,
        cpu |-> Total([i \in after |-> s[i].cpu]),
        mem |-> Total([i \in after |-> s[i].rss]),
        flt |-> Total([i \in after |-> Rise(s[i - 1].flt, s[i].flt)])]
=============================================================================
