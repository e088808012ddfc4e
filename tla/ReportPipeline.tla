--------------------------- MODULE ReportPipeline ---------------------------
(***************************************************************************)
(* From the counters of a cgroup to the report: StartSampler reads them    *)
(* once a tick, the stored series is analysed when `cspip report` runs.    *)
(*                                                                         *)
(* "work" is what the container really did; the sampler sees it through    *)
(* "live", the counters that can be read now: page faults are summed over  *)
(* the processes alive, so the sum falls when one exits, and every reader  *)
(* yields 0 once the cgroup is gone or when a read fails.                  *)
(***************************************************************************)
EXTENDS Reporter, Limits

CONSTANT Workloads  \* what may be run, and how much of it is told apart

\* cgroupMemory, cgroupIO and the others: each has an error path of its own.
Readers == {"cpu", "mem", "io", "faults"}

\* gap: ticks between two samples, 0 when the clock did not move and negative
\* when it was set back, since the stored times are wall-clock times; cpu, rss: the
\* levels a sample can show; rd, wr, flt: what is read, written and faulted in
\* one interval; mem, quota: the texts of the limits; fails: the readers that
\* fail now and then; samples: a bound on the length of the series.
ASSUME WorkloadAssumption == \A w \in Workloads :
  /\ \A S \in {w.cpu, w.rss, w.rd, w.wr, w.flt} : S # {} /\ S \subseteq Nat
  /\ \E most \in w.rss : \A level \in w.rss : level <= most
  /\ w.gap \subseteq Int /\ w.gap # {}
  /\ \A g \in w.gap : g # 0 => Scale % (IF g > 0 THEN g ELSE -g) = 0
  /\ w.mem \in MemTexts /\ w.quota \in CpuTexts
  /\ w.fails \subseteq Readers /\ w.samples \in Nat

VARIABLES
  load,       \* the workload of this run
  series,     \* the samples taken so far
  live,       \* the readable counters [rd, wr, flt]
  work,       \* major faults and writes since the first sample
  cg,         \* the cgroup: [up, throttled, mem, cpu], the last two its limits
  stored,     \* the run has ended and its record is on disk
  report      \* what the last `cspip report` printed, <<>> before

vars == <<load, series, live, work, cg, stored, report>>

NoWork == [wr |-> 0, flt |-> 0]

\* The limit in the record.
MemLimit == RecordedMem(load.mem)

\* What memory.max and cpu.max may hold when container_run has tried to set
\* them: a write that fails is ignored.
MemMax(w) == {Unlimited, AppliedMem(w.mem)}
CpuMax(w) == {Unlimited, AppliedCpu(w.quota)}

Init ==
  /\ load \in Workloads
  /\ series = <<>>
  /\ live = [rd |-> 0, wr |-> 0, flt |-> 0]
  /\ work = NoWork
  /\ cg \in [up : {TRUE}, throttled : {FALSE}, mem : MemMax(load), cpu : CpuMax(load)]
  /\ stored = FALSE
  /\ report = <<>>

\* What the readers of the cgroup return: each yields 0 when the cgroup is gone
\* or its own read fails.
Seen(gap, cpu, rss, counters, lost) ==
  LET Read(reader, value) == IF cg.up /\ reader \notin lost THEN value ELSE 0
  IN  [gap |-> gap, cpu |-> Read("cpu", cpu), rss |-> Read("mem", rss),
       rd |-> Read("io", counters.rd), wr |-> Read("io", counters.wr),
       flt |-> Read("faults", counters.flt)]

\* One turn of StartSampler's loop.  In the interval the container reads,
\* writes and faults, and the processes that exit take "gone" of their faults
\* out of the sum.
Sample ==
  /\ ~stored
  /\ Len(series) < load.samples
  /\ \E r \in load.rd, w \in load.wr, f \in load.flt :
       \E gone \in 0..(live.flt + f) :
         /\ live' = [rd |-> live.rd + r, wr |-> live.wr + w, flt |-> live.flt + f - gone]
         /\ work' = IF series = <<>> THEN NoWork
                    ELSE [wr |-> work.wr + w, flt |-> work.flt + f]
  /\ \E gap \in IF series = <<>> THEN {1} ELSE load.gap,
        cpu \in load.cpu, rss \in load.rss, lost \in SUBSET load.fails :
       series' = Append(series, Seen(gap, cpu, rss, live', lost))
  /\ UNCHANGED <<load, cg, stored, report>>

\* The kernel throttles the container, if it has a quota.
Throttle ==
  /\ ~stored /\ cg.cpu # Unlimited /\ cg.up /\ ~cg.throttled
  /\ cg' = [cg EXCEPT !.throttled = TRUE]
  /\ UNCHANGED <<load, series, live, work, stored, report>>

\* `cspip container rm` deletes the cgroup, before the run ends or after.
RemoveContainer ==
  /\ cg.up
  /\ cg' = [cg EXCEPT !.up = FALSE]
  /\ UNCHANGED <<load, series, live, work, stored, report>>

\* The container's init is gone; the series is saved as it is.
EndRun ==
  /\ ~stored
  /\ stored' = TRUE
  /\ UNCHANGED <<load, series, live, work, cg, report>>

\* checkCPUThrottling: nr_throttled at report time.
Throttled == cg.up /\ cg.throttled

\* checkMemoryPressure: memory.current at report time against memory.max.
Pressed(current) == cg.up /\ cg.mem > 0 /\ 10 * current > 9 * cg.mem

\* cmdReport: analyse the stored series, and the cgroup as it is now.
Report ==
  /\ stored
  /\ \E current \in {0} \cup load.rss :
       LET class == Classify(series, MemLimit)
           bottlenecks == DetectBottlenecks(series, Throttled, Pressed(current))
           alerts == GenerateAlerts(series, bottlenecks, MemLimit)
       IN  report' = [class |-> class, summary |-> BuildSummary(series), leak |-> DetectMemoryLeak(series), alerts |-> alerts,
                      suggestions |-> GenerateSuggestions(alerts, class.type)]
  /\ UNCHANGED <<load, series, live, work, cg, stored>>

Next == Sample \/ Throttle \/ RemoveContainer \/ EndRun \/ Report

Spec == Init /\ [][Next]_vars

-----------------------------------------------------------------------------
MaxRss == Max(load.rss)

\* TypeOK: the report holds known types and levels, and a growth of memory that
\* the samples can show: no subtraction of detectMemoryLeak ever wraps.
TypeOK ==
  /\ load \in Workloads /\ Len(series) <= load.samples
  /\ cg \in [up : BOOLEAN, throttled : BOOLEAN, mem : MemMax(load), cpu : CpuMax(load)]
  /\ stored \in BOOLEAN
  /\ report # <<>> =>
       /\ report.class \in [type : Types, confidence : Levels]
       /\ report.leak.growth \in 0..MaxRss

\* As long as the fault reader does not fail, the faults the analyzer and the summary count
\* between samples are faults the container took: processes that exit and take
\* their counts out of the sum, or a cgroup deleted under the sampler, may hide
\* work but never invent it (classifier.go:58-62, summary.go:88-92).
CountedIsReal ==
  "faults" \notin load.fails =>
    Total([i \in 2..Len(series) |-> Rise(series[i - 1].flt, series[i].flt)]) <= work.flt

AlertTypes == {report.alerts[k].type : k \in DOMAIN report.alerts}

\* The classifier and the alerts agree on page faults although they average
\* them differently (classifier.go:88-93 divides by every interval,
\* summary.go:71-74 by those of positive length) and although the alert asks for
\* half the rate: a run that is called memory-bound while no sample shows memory
\* near the limit has the alert on major faults.
FaultsAgree ==
  /\ report # <<>> /\ report.class.type = "Memory-bound"
  /\ \A i \in Intervals(series) : ~MemHigh(series, i, MemLimit)
  => "high_major_faults" \in AlertTypes

\* A CPU-bound verdict with more than low confidence rests on at least one
\* sample that shows both halves of the rule, a busy CPU and little I/O: the
\* smaller of the two counts (classifier.go:102), each at 60% or more, leaves
\* no room for disjoint samples.
ConfidentTogether ==
  report # <<>> /\ report.class.type = "CPU-bound" /\ report.class.confidence # "LOW"
    => \E i \in Intervals(series) : CpuHigh(series, i) /\ IoLow(series, i)

\* The fingerprint bears out the verdict, although it averages over all samples
\* and the classifier leaves out those at the end of an interval of no length
\* (classifier.go:36-38, fingerprints.go:48-90): a CPU-bound run has a fingerprint
\* with a busy CPU, and a memory-bound one without the alert on faults has one
\* with memory near the limit.
FingerprintAgrees ==
  LET print == BuildFingerprint(series) IN
  report # <<>> =>
    /\ report.class.type = "CPU-bound" => print.cpu > 70 * print.count
    /\ report.class.type = "Memory-bound" /\ "high_major_faults" \notin AlertTypes =>
         MemLimit > 0 /\ 10 * print.mem > 8 * MemLimit * print.count

\* A spike is exceptional: fewer than half of the intervals can be spikes,
\* since the median they exceed is the upper one of an even number of values
\* (pattern.go:109-121).
SpikesAreFew ==
  2 * AnalyzeIOSpikes(series).spikes < Max({1, Cardinality(DOMAIN WriteDeltas(series))})

\* The figures of a metric describe its values: the 95th percentile and the
\* average lie between the extremes, at least 95 of 100 values are up to the 95th
\* percentile, and fewer than 95 of 100 below it.
Describes(stats, values) ==
  LET n == Cardinality(DOMAIN values) IN
  n > 0 =>
    /\ stats.min <= stats.p95 /\ stats.p95 <= stats.max
    /\ stats.min * n <= stats.sum /\ stats.sum <= stats.max * n
    /\ 100 * Cardinality({i \in DOMAIN values : values[i] <= stats.p95}) >= 95 * n
    /\ 100 * Cardinality({i \in DOMAIN values : values[i] < stats.p95}) < 95 * n

\* The summary in a report describes the stored series, metric by metric,
\* although intervals of no or negative length give no rate and a metric may
\* have one value only, or none (summary.go:18-44, 64-93).
SummaryDescribes ==
  report # <<>> =>
    /\ Describes(report.summary.cpu, Values(series).cpu)
    /\ Describes(report.summary.mem, Values(series).mem)
    /\ Describes(report.summary.wr, Values(series).wr)
    /\ Describes(report.summary.flt, Values(series).flt)

\* When the record has a limit and the text names bytes that fit a signed
\* integer, cspip-runtime took the text for a limit as well.  It wrote the same
\* number of bytes to memory.max, or fewer when the text has a blank behind its
\* unit; memory.max has that limit unless the write failed
\* (cgroup.c:108-137, 196-211, main.go:88-107).
LimitsAgree ==
  MemLimit # 0 /\ Fits(load.mem) =>
    /\ AppliedMem(load.mem) \in 1..MemLimit
    /\ cg.mem # Unlimited /\ load.mem.tail # "blank" => cg.mem = MemLimit

-----------------------------------------------------------------------------
\* README.md:587: "Count how many samples exceeded the threshold (not just the
\* average). If 90%+ of samples triggered a rule, confidence = HIGH. If 60-90%,
\* confidence = MEDIUM."  The rule of a type is the one of README.md:565-582.
Triggers(i, type) ==
  CASE type = "CPU-bound" -> CpuHigh(series, i) /\ IoLow(series, i)
    [] type = "Memory-bound" -> FaultsHigh(series, i) \/ MemHigh(series, i, MemLimit)
    [] type = "I/O-bound" -> IoHigh(series, i) \/ CpuLow(series, i)
    [] type = "Mixed" -> series[i].cpu > 50 /\ IoRate(series, i) > 5 * Scale
    [] OTHER -> FALSE

ConfidenceIsTheShare ==
  report # <<>> /\ Len(series) > 1 =>
    LET triggered == Quantify(Intervals(series), LAMBDA i : Triggers(i, report.class.type))
    IN  report.class.confidence = Confidence(triggered, Len(series) - 1)
=============================================================================
