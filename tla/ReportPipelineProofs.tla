----------------------- MODULE ReportPipelineProofs -----------------------
(***************************************************************************)
(* Proofs about the way from the samples to the report, for any workload,  *)
(* any length of the series and any width of the counters: the types, the  *)
(* two readings of a limit, what a confident verdict rests on, and what    *)
(* the counters, the alerts and the fingerprint have to do with each other. *)
(***************************************************************************)
EXTENDS ReportPipeline, ReporterProofs

Samples == [gap : Int, cpu : Nat, rss : Nat, rd : Nat, wr : Nat, flt : Nat]

\* The series only shows levels of the workload, or 0, and the report was made
\* from the series that was stored.
PipelineInv ==
  /\ load \in Workloads
  /\ series \in Seq(Samples) /\ Len(series) <= load.samples
  /\ \A i \in 1 .. Len(series) : series[i].rss \in load.rss \cup {0}
  /\ live \in [rd : Nat, wr : Nat, flt : Nat]
  /\ work \in [wr : Nat, flt : Nat]
  /\ cg \in [up : BOOLEAN, throttled : BOOLEAN, mem : MemMax(load), cpu : CpuMax(load)]
  /\ stored \in BOOLEAN
  /\ report # <<>> =>
       /\ stored
       /\ report.summary = BuildSummary(series)
       /\ report.class = Classify(series, MemLimit)
       /\ report.leak = DetectMemoryLeak(series)
       /\ \E bottlenecks \in Seq(AlertNames) :
            report.alerts = GenerateAlerts(series, bottlenecks, MemLimit)

-----------------------------------------------------------------------------
(* Limits *)

LEMMA MultiplierType == ASSUME NEW unit \in Units PROVE Multiplier(unit) \in Nat \ {0}
<1>1. Kilo \in Nat /\ Kilo > 0
  BY KiloAssumption
<1>2. Kilo * Kilo \in Nat /\ Kilo * Kilo > 0
  BY <1>1
<1>3. Kilo * Kilo * Kilo \in Nat /\ Kilo * Kilo * Kilo > 0
  BY <1>1, <1>2
<1>4. \/ unit = "" /\ Multiplier(unit) = 1
      \/ unit = "k" /\ Multiplier(unit) = Kilo
      \/ unit = "m" /\ Multiplier(unit) = Kilo * Kilo
      \/ unit = "g" /\ Multiplier(unit) = Kilo * Kilo * Kilo
  BY DEF Multiplier, Units
<1>5. Multiplier(unit) \in Nat /\ Multiplier(unit) > 0
  <2>1. CASE Multiplier(unit) = Kilo * Kilo
    BY <1>2, <2>1
  <2>2. CASE Multiplier(unit) = Kilo * Kilo * Kilo
    BY <1>3, <2>2
  <2>3. CASE Multiplier(unit) = 1 \/ Multiplier(unit) = Kilo
    BY <1>1, <2>3
  <2> QED
    BY <1>4, <2>1, <2>2, <2>3
<1> QED
  BY <1>5

LEMMA NoWrap == ASSUME NEW n \in Nat, n < Long PROVE n % (2 * Long) = n
BY LongAssumption

LEMMA AtLeastFactor ==
  ASSUME NEW a \in Nat, NEW b \in Nat \ {0}
  PROVE  a * b \in Nat /\ a <= a * b /\ (a # 0 => a * b # 0)
<1>1. b - 1 \in Nat /\ a * b = a + a * (b - 1)
  OBVIOUS
<1>2. \A n \in Nat : a * n \in Nat
  OBVIOUS
<1>3. a * (b - 1) \in Nat /\ a * b \in Nat
  BY <1>1, <1>2
<1> DEFINE product == a * b
           rest == a * (b - 1)
<1> HIDE DEF product, rest
<1>4. product = a + rest /\ rest \in Nat /\ product \in Nat
  BY <1>1, <1>3 DEF product, rest
<1>5. a <= product /\ (a # 0 => product # 0)
  BY <1>4
<1> QED
  BY <1>4, <1>5 DEF product

\* What the two parsers make of a text that is a limit in the record and names
\* bytes that fit a signed integer: the same, or less with a blank at its end.
THEOREM ParsersAgree ==
  ASSUME NEW t \in MemTexts, RecordedMem(t) # 0, Fits(t)
  PROVE  /\ AppliedMem(t) \in 1 .. RecordedMem(t)
         /\ t.tail # "blank" => AppliedMem(t) = RecordedMem(t)
<1> DEFINE w == t.whole
           m == Multiplier(t.unit)
           bytes == w * m
<1>1. /\ t.unit \in Units /\ "" \in Units
      /\ t.tail \in {"", "blank", "b"}
  BY DEF MemTexts, Units
<1>a. w \in Nat
  BY DEF MemTexts
<1>2. m \in Nat \ {0} /\ bytes \in Nat /\ w <= bytes /\ (w # 0 => bytes # 0)
  BY <1>1, <1>a, MultiplierType, AtLeastFactor
<1>3. bytes < Long /\ Long \in Nat
  BY LongAssumption DEF Fits
<1> HIDE DEF w, m, bytes
<1>b. bytes \in Nat /\ w <= bytes /\ (w # 0 => bytes # 0)
  BY <1>2
<1>4. w < Long /\ w < 2 * Long
  BY <1>a, <1>b, <1>3
<1>5. ParsedUint(t) # 0
  <2> SUFFICES ASSUME ParsedUint(t) = 0 PROVE RecordedMem(t) = 0
    OBVIOUS
  <2> DEFINE factor == Multiplier(IF t.tail = "b" THEN "" ELSE t.unit)
  <2>1. factor \in Nat
    BY <1>1, MultiplierType
  <2>2. RecordedMem(t) = (0 * factor) % (2 * Long)
    BY DEF RecordedMem
  <2> HIDE DEF factor
  <2>3. 0 * factor = 0
    BY <2>1
  <2>4. 0 % (2 * Long) = 0
    <3>1. 2 * Long \in Nat /\ 0 < 2 * Long
      BY <1>3, <1>b
    <3> QED
      BY <3>1, NoWrap
  <2> QED
    BY <2>2, <2>3, <2>4
<1>6. t.sign = "" /\ t.tail # "b" /\ ParsedUint(t) = w
  <2>1. ~ t.whole >= 2 * Long
    BY <1>4, <1>3, <1>a DEF w
  <2>2. t.sign = ""
    BY <1>5 DEF ParsedUint
  <2>3. ParsedUint(t) = IF t.fraction \/ t.tail = "b" THEN 0 ELSE t.whole
    BY <2>1, <2>2 DEF ParsedUint
  <2> QED
    BY <1>5, <2>2, <2>3 DEF w
<1>7. w # 0 /\ bytes # 0
  BY <1>b, <1>5, <1>6
<1>8. RecordedMem(t) = bytes
  <2>1. RecordedMem(t) = bytes % (2 * Long)
    BY <1>6 DEF RecordedMem, bytes, m
  <2>2. 2 * Long \in Nat /\ bytes < 2 * Long
    BY <1>3, <1>b
  <2> QED
    BY <1>b, <2>1, <2>2, NoWrap
<1> DEFINE factor == Multiplier(IF t.tail = "" THEN t.unit ELSE "")
           product == w * factor
<1>9. /\ t.tail = "" => product = bytes
      /\ t.tail = "blank" => product = w
  <2>1. t.tail = "" => product = bytes
    BY DEF bytes, m
  <2>2. ASSUME t.tail = "blank" PROVE product = w
    <3>1. factor = 1
      BY <2>2 DEF Multiplier
    <3>2. product = w * 1
      BY <3>1
    <3> HIDE DEF factor, product
    <3> QED
      BY <1>a, <3>2
  <2> QED
    BY <2>1, <2>2
<1>10. product = bytes \/ product = w
  BY <1>1, <1>6, <1>9
<1> HIDE DEF factor
<1>11. product \in Nat /\ product # 0 /\ product <= bytes /\ product < Long
  <2> HIDE DEF product
  <2> QED
    BY <1>a, <1>b, <1>3, <1>4, <1>7, <1>10
<1>12. AppliedMem(t) = product
  <2>1. (IF w < Long THEN w ELSE Long - 1) = w
    BY <1>4
  <2>2. AppliedMem(t) =
          IF t.sign = "-" \/ w = 0 \/ product % (2 * Long) >= Long
            THEN Unlimited ELSE product % (2 * Long)
    BY <2>1 DEF AppliedMem, w, factor
  <2> HIDE DEF product
  <2>3. 2 * Long \in Nat /\ product < 2 * Long
    BY <1>3, <1>11
  <2>4. product % (2 * Long) = product
    BY <1>11, <2>3, NoWrap
  <2>5. ~ product >= Long
    BY <1>3, <1>11
  <2> QED
    BY <1>6, <1>7, <2>2, <2>4, <2>5
<1> HIDE DEF product
<1>13. AppliedMem(t) \in 1 .. RecordedMem(t)
  <2>1. product \in 1 .. bytes
    BY <1>b, <1>11
  <2> QED
    BY <1>8, <1>12, <2>1
<1>14. t.tail # "blank" => AppliedMem(t) = RecordedMem(t)
  BY <1>1, <1>6, <1>8, <1>9, <1>12
<1> QED
  BY <1>13, <1>14

-----------------------------------------------------------------------------
(* The verdict *)

LEMMA Smaller ==
  ASSUME NEW a \in Nat, NEW b \in Nat
  PROVE  Min({a, b}) \in Nat /\ Min({a, b}) <= a /\ Min({a, b}) <= b
<1>1. \E x \in {a, b} : \A y \in {a, b} : x <= y
  BY SMT
<1> QED
  BY <1>1 DEF Min

LEMMA ConfidentCount ==
  ASSUME NEW count \in Nat, NEW total \in Nat
  PROVE  /\ Confidence(count, total) # "LOW" => 10 * count >= 6 * total
         /\ Confidence(count, total) = "HIGH" => 10 * count >= 9 * total
BY DEF Confidence

\* Two conditions that hold in many of the intervals each hold together in many:
\* a busy CPU and little I/O in at least 80% of the samples of a CPU-bound
\* verdict with high confidence, in at least 20% with medium (classifier.go:99-138).
THEOREM ShareTogether ==
  ASSUME NEW s, Len(s) \in Nat, NEW limit, Classify(s, limit).type = "CPU-bound"
  PROVE  LET n == Len(s) - 1
             both == Cardinality({i \in Intervals(s) : CpuHigh(s, i) /\ IoLow(s, i)})
             level == Classify(s, limit).confidence
         IN  /\ n > 0 /\ both \in Nat
             /\ level # "LOW" => 10 * both >= 2 * n
             /\ level = "HIGH" => 10 * both >= 8 * n
<1> DEFINE C == {i \in Intervals(s) : CpuHigh(s, i)}
           I == {i \in Intervals(s) : IoLow(s, i)}
           B == {i \in Intervals(s) : CpuHigh(s, i) /\ IoLow(s, i)}
           n == Len(s) - 1
           level == Classify(s, limit).confidence
<1>1. /\ n \in Nat /\ n > 0
      /\ level = Confidence(MatchCount(s, limit, "CPU-bound"), n)
  BY DEF Classify
<1>2. MatchCount(s, limit, "CPU-bound") = Min({Cardinality(C), Cardinality(I)})
  BY DEF MatchCount, Quantify
<1>3. IsFiniteSet(Intervals(s)) /\ Cardinality(Intervals(s)) <= n
      /\ Cardinality(Intervals(s)) \in Nat
  <2>1. IsFiniteSet(2 .. Len(s)) /\ Cardinality(2 .. Len(s)) = n
    BY <1>1, FS_Interval
  <2>2. Intervals(s) \in SUBSET (2 .. Len(s))
    BY DEF Intervals
  <2> QED
    BY <2>1, <2>2, FS_Subset, FS_CardinalityType
<1>4. C \subseteq Intervals(s) /\ I \subseteq Intervals(s) /\ B = C \cap I
  OBVIOUS
<1> HIDE DEF C, I, B, n, level
<1>5. /\ IsFiniteSet(C) /\ IsFiniteSet(I) /\ IsFiniteSet(B)
      /\ Cardinality(C) \in Nat /\ Cardinality(I) \in Nat /\ Cardinality(B) \in Nat
  BY <1>3, <1>4, FS_Subset, FS_CardinalityType
<1>6. Cardinality(B) >= Cardinality(C) + Cardinality(I) - n
  <2>1. /\ Cardinality(C \cup I) = Cardinality(C) + Cardinality(I) - Cardinality(B)
        /\ IsFiniteSet(C \cup I)
    BY <1>4, <1>5, FS_Union
  <2>2. Cardinality(C \cup I) <= Cardinality(Intervals(s)) /\ Cardinality(C \cup I) \in Nat
    BY <1>3, <1>4, <2>1, FS_Subset, FS_CardinalityType
  <2> QED
    BY <1>1, <1>3, <1>5, <2>1, <2>2
<1> DEFINE m == Min({Cardinality(C), Cardinality(I)})
<1>7. m \in Nat /\ m <= Cardinality(C) /\ m <= Cardinality(I)
  BY <1>5, Smaller
<1>8. (level # "LOW" => 10 * m >= 6 * n) /\ (level = "HIGH" => 10 * m >= 9 * n)
  <2> HIDE DEF m
  <2> QED
    BY <1>1, <1>2, <1>7, ConfidentCount DEF m
<1> HIDE DEF m
<1>9. /\ level # "LOW" => 10 * Cardinality(B) >= 2 * n
      /\ level = "HIGH" => 10 * Cardinality(B) >= 8 * n
  BY <1>1, <1>5, <1>6, <1>7, <1>8
<1> QED
  BY <1>1, <1>5, <1>9 DEF B, n, level

\* A confident CPU-bound verdict has a sample with a busy CPU and little I/O.
THEOREM Together ==
  ASSUME NEW s, Len(s) \in Nat, NEW limit,
         Classify(s, limit).type = "CPU-bound", Classify(s, limit).confidence # "LOW"
  PROVE  \E i \in Intervals(s) : CpuHigh(s, i) /\ IoLow(s, i)
<1> DEFINE B == {i \in Intervals(s) : CpuHigh(s, i) /\ IoLow(s, i)}
           n == Len(s) - 1
<1>1. n > 0 /\ Cardinality(B) \in Nat /\ 10 * Cardinality(B) >= 2 * n
  BY ShareTogether
<1>2. B # {}
  <2> HIDE DEF B, n
  <2>1. n \in Int
    BY DEF n
  <2>2. Cardinality(B) # 0
    BY <1>1, <2>1
  <2> QED
    BY <2>2, FS_EmptySet
<1> QED
  BY <1>2

-----------------------------------------------------------------------------
(* The growth of memory *)

\* From the first to the last sample memory never seems to shrink.
LEMMA Growth ==
  ASSUME NEW s \in Seq(Samples), NEW most \in Nat,
         \A i \in 1 .. Len(s) : s[i].rss <= most
  PROVE  DetectMemoryLeak(s).growth \in 0 .. most
<1>1. CASE DetectMemoryLeak(s) = NoLeak
  BY <1>1 DEF NoLeak
<1>2. CASE DetectMemoryLeak(s) # NoLeak
  <2> DEFINE n == Len(s)
             at == <<1, n \div 4 + 1, n \div 2 + 1, (3 * n) \div 4 + 1, n>>
  <2>1. /\ n >= 5 /\ \A k \in 1 .. 4 : s[at[k]].rss <= s[at[k + 1]].rss
        /\ DetectMemoryLeak(s).growth = Minus(s[n].rss, s[1].rss)
    BY <1>2 DEF DetectMemoryLeak
  <2>2. n \in Nat /\ n \div 4 + 1 \in 1 .. n /\ n \div 2 + 1 \in 1 .. n
        /\ (3 * n) \div 4 + 1 \in 1 .. n
    BY <2>1
  <2>3. \A i \in 1 .. n : s[i].rss \in Nat
    <3>1. \A i \in 1 .. n : s[i] \in Samples
      OBVIOUS
    <3> QED
      BY <3>1 DEF Samples
  <2>4. /\ s[1].rss <= s[n \div 4 + 1].rss
        /\ s[n \div 4 + 1].rss <= s[n \div 2 + 1].rss
        /\ s[n \div 2 + 1].rss <= s[(3 * n) \div 4 + 1].rss
        /\ s[(3 * n) \div 4 + 1].rss <= s[n].rss
    <3>1. /\ at[1] = 1 /\ at[2] = n \div 4 + 1 /\ at[3] = n \div 2 + 1
          /\ at[4] = (3 * n) \div 4 + 1 /\ at[5] = n
      OBVIOUS
    <3>2. /\ s[at[1]].rss <= s[at[1 + 1]].rss /\ s[at[2]].rss <= s[at[2 + 1]].rss
          /\ s[at[3]].rss <= s[at[3 + 1]].rss /\ s[at[4]].rss <= s[at[4 + 1]].rss
      BY <2>1
    <3>3. 1 + 1 = 2 /\ 2 + 1 = 3 /\ 3 + 1 = 4 /\ 4 + 1 = 5
      OBVIOUS
    <3> HIDE DEF at
    <3>4. s[at[1]].rss <= s[at[2]].rss /\ s[at[2]].rss <= s[at[3]].rss
      BY <3>2, <3>3
    <3>5. s[at[3]].rss <= s[at[4]].rss /\ s[at[4]].rss <= s[at[5]].rss
      BY <3>2, <3>3
    <3> QED
      BY <3>1, <3>4, <3>5
  <2> HIDE DEF at
  <2>5. s[1].rss <= s[n].rss /\ s[1].rss \in Nat /\ s[n].rss \in Nat /\ s[n].rss <= most
    <3>1. s[1].rss \in Nat /\ s[n].rss \in Nat /\ s[n].rss <= most
      BY <2>1, <2>2, <2>3
    <3>2. /\ s[n \div 4 + 1].rss \in Nat /\ s[n \div 2 + 1].rss \in Nat
          /\ s[(3 * n) \div 4 + 1].rss \in Nat
      BY <2>2, <2>3
    <3> DEFINE a == s[1].rss
               b == s[n \div 4 + 1].rss
               c == s[n \div 2 + 1].rss
               d == s[(3 * n) \div 4 + 1].rss
               e == s[n].rss
    <3>3. /\ a \in Nat /\ b \in Nat /\ c \in Nat /\ d \in Nat /\ e \in Nat
          /\ a <= b /\ b <= c /\ c <= d /\ d <= e
      BY <3>1, <3>2, <2>4
    <3> HIDE DEF a, b, c, d, e
    <3>4. a <= e
      BY <3>3
    <3> QED
      BY <3>1, <3>4 DEF a, e
  <2> DEFINE rise == s[n].rss - s[1].rss
  <2>6. rise \in Nat /\ rise <= most
    BY <2>5
  <2>7. rise % Width \in 0 .. rise
    <3> HIDE DEF rise
    <3> QED
      BY <2>6, WidthAssumption
  <2> QED
    BY <2>1, <2>6, <2>7 DEF Minus
<1> QED
  BY <1>1, <1>2

-----------------------------------------------------------------------------
(* The alerts of the bottlenecks *)

LEMMA Bottlenecks ==
  ASSUME NEW s, NEW throttled, NEW pressed
  PROVE  DetectBottlenecks(s, throttled, pressed) \in Seq(AlertNames)
<1> DEFINE t == IF throttled THEN <<"CPU Throttling">> ELSE <<>>
           p == IF pressed THEN <<"Memory Pressure">> ELSE <<>>
           o == IF DetectIOSaturation(s) THEN <<"I/O Saturation">> ELSE <<>>
<1>1. {"CPU Throttling", "Memory Pressure", "I/O Saturation"} \subseteq AlertNames
  BY DEF AlertNames
<1>2. t \in Seq(AlertNames) /\ p \in Seq(AlertNames) /\ o \in Seq(AlertNames)
  BY <1>1, OneAlert
<1>3. DetectBottlenecks(s, throttled, pressed) = t \o p \o o
  BY DEF DetectBottlenecks
<1> HIDE DEF t, p, o
<1> QED
  BY <1>2, <1>3

-----------------------------------------------------------------------------
(* The inductive invariant *)

LEMMA PipelineInit == Init => PipelineInv
<1> SUFFICES ASSUME Init PROVE PipelineInv
  OBVIOUS
<1>1. series \in Seq(Samples) /\ Len(series) = 0
  BY DEF Init
<1>2. load \in Workloads /\ load.samples \in Nat
  BY WorkloadAssumption DEF Init
<1>3. /\ live \in [rd : Nat, wr : Nat, flt : Nat] /\ work \in [wr : Nat, flt : Nat]
      /\ cg \in [up : BOOLEAN, throttled : BOOLEAN, mem : MemMax(load), cpu : CpuMax(load)]
  BY DEF Init, NoWork
<1>4. stored \in BOOLEAN /\ report = <<>>
  BY DEF Init
<1>5. 1 .. Len(series) = {} /\ Len(series) <= load.samples
  BY <1>1, <1>2
<1> QED
  BY <1>1, <1>2, <1>3, <1>4, <1>5 DEF PipelineInv

LEMMA SampleStep ==
  ASSUME PipelineInv, Sample
  PROVE  PipelineInv'
<1>1. PICK r \in load.rd, w \in load.wr, f \in load.flt :
        \E gone \in 0 .. (live.flt + f) :
          /\ live' = [rd |-> live.rd + r, wr |-> live.wr + w, flt |-> live.flt + f - gone]
          /\ work' = IF series = <<>> THEN NoWork
                     ELSE [wr |-> work.wr + w, flt |-> work.flt + f]
  BY DEF Sample
<1>2. r \in Nat /\ w \in Nat /\ f \in Nat
  BY WorkloadAssumption DEF PipelineInv
<1>3. live' \in [rd : Nat, wr : Nat, flt : Nat] /\ work' \in [wr : Nat, flt : Nat]
  <2>1. live \in [rd : Nat, wr : Nat, flt : Nat] /\ work \in [wr : Nat, flt : Nat]
    BY DEF PipelineInv
  <2>2. live' \in [rd : Nat, wr : Nat, flt : Nat]
    BY <1>1, <1>2, <2>1
  <2>3. NoWork \in [wr : Nat, flt : Nat]
    BY DEF NoWork
  <2>4. [wr |-> work.wr + w, flt |-> work.flt + f] \in [wr : Nat, flt : Nat]
    BY <1>2, <2>1
  <2>5. work' = NoWork \/ work' = [wr |-> work.wr + w, flt |-> work.flt + f]
    BY <1>1
  <2> QED
    BY <2>2, <2>3, <2>4, <2>5
<1>4. PICK gap \in IF series = <<>> THEN {1} ELSE load.gap, cpu \in load.cpu,
           rss \in load.rss, lost \in SUBSET load.fails :
        series' = Append(series, Seen(gap, cpu, rss, live', lost))
  BY DEF Sample
<1>5. gap \in Int /\ cpu \in Nat /\ rss \in Nat
  <2>1. load \in Workloads
    BY DEF PipelineInv
  <2>2. load.gap \subseteq Int /\ load.cpu \subseteq Nat /\ load.rss \subseteq Nat
    BY <2>1, WorkloadAssumption
  <2>3. gap = 1 \/ gap \in load.gap
    OBVIOUS
  <2> QED
    BY <2>2, <2>3
<1> DEFINE x == Seen(gap, cpu, rss, live', lost)
<1>6. x \in Samples /\ x.rss \in load.rss \cup {0}
  BY <1>3, <1>5 DEF Seen, Samples
<1> HIDE DEF x
<1>7. /\ series' = Append(series, x) /\ series \in Seq(Samples)
      /\ ~stored /\ Len(series) < load.samples /\ load.samples \in Nat
      /\ UNCHANGED <<load, cg, stored, report>>
  BY <1>4, WorkloadAssumption DEF Sample, x, PipelineInv
<1>8. /\ series' \in Seq(Samples) /\ Len(series') = Len(series) + 1
      /\ \A i \in 1 .. Len(series) : series'[i] = series[i]
      /\ series'[Len(series) + 1] = x
  BY <1>6, <1>7
<1>9. Len(series') <= load.samples
  BY <1>7, <1>8
<1>10. \A i \in 1 .. Len(series') : series'[i].rss \in load.rss \cup {0}
  BY <1>6, <1>7, <1>8 DEF PipelineInv
<1> QED
  BY <1>3, <1>7, <1>8, <1>9, <1>10 DEF PipelineInv

LEMMA PipelineNext == PipelineInv /\ [Next]_vars => PipelineInv'
<1> SUFFICES ASSUME PipelineInv, [Next]_vars PROVE PipelineInv'
  OBVIOUS
<1>1. CASE Sample
  BY <1>1, SampleStep
<1>2. CASE Throttle
  BY <1>2 DEF Throttle, PipelineInv, MemLimit
<1>3. CASE RemoveContainer
  BY <1>3 DEF RemoveContainer, PipelineInv, MemLimit
<1>4. CASE EndRun
  BY <1>4 DEF EndRun, PipelineInv, MemLimit
<1>5. CASE Report
  <2>1. /\ stored /\ UNCHANGED <<load, series, live, work, cg, stored>>
        /\ report'.class = Classify(series, MemLimit)
        /\ report'.leak = DetectMemoryLeak(series)
        /\ report'.summary = BuildSummary(series)
        /\ \E current \in {0} \cup load.rss :
             report'.alerts =
               GenerateAlerts(series, DetectBottlenecks(series, Throttled, Pressed(current)),
                              MemLimit)
    BY <1>5 DEF Report
  <2>2. \E bottlenecks \in Seq(AlertNames) :
          report'.alerts = GenerateAlerts(series, bottlenecks, MemLimit)
    BY <2>1, Bottlenecks
  <2> QED
    BY <2>1, <2>2 DEF PipelineInv, MemLimit
<1>6. CASE UNCHANGED vars
  BY <1>6 DEF vars, PipelineInv, MemLimit
<1> QED
  BY <1>1, <1>2, <1>3, <1>4, <1>5, <1>6 DEF Next

\* Every reachable state satisfies the inductive invariant.
THEOREM PipelineInvariance == Spec => []PipelineInv
BY PipelineInit, PipelineNext, PTL DEF Spec

-----------------------------------------------------------------------------

LEMMA LargestRss ==
  ASSUME load \in Workloads
  PROVE  MaxRss \in load.rss /\ \A level \in load.rss : level <= MaxRss
<1>1. \E most \in load.rss : \A level \in load.rss : level <= most
  BY WorkloadAssumption
<1>2. \E x \in load.rss : \A y \in load.rss : x >= y
  BY <1>1, WorkloadAssumption
<1> QED
  BY <1>2 DEF MaxRss, Max

\* The report holds a known type and level, and a growth of memory the samples
\* can show.
THEOREM ReportTypes == Spec => []TypeOK
<1>1. ASSUME PipelineInv PROVE TypeOK
  <2>1. \A s, limit : Classify(s, limit).confidence \in Levels
    BY DEF Classify, Confidence, Levels
  <2>2. \A s, limit : Classify(s, limit).type \in Types
    BY DEF Classify, WorkloadOf, Types
  <2>3. \A s, limit : Classify(s, limit) =
          [type |-> Classify(s, limit).type, confidence |-> Classify(s, limit).confidence]
    BY DEF Classify
  <2>4. Classify(series, MemLimit) \in [type : Types, confidence : Levels]
    BY <2>1, <2>2, <2>3
  <2>5. MaxRss \in Nat /\ \A i \in 1 .. Len(series) : series[i].rss <= MaxRss
    BY <1>1, LargestRss, WorkloadAssumption DEF PipelineInv
  <2>6. DetectMemoryLeak(series).growth \in 0 .. MaxRss
    BY <1>1, <2>5, Growth DEF PipelineInv
  <2> QED
    BY <1>1, <2>4, <2>6 DEF PipelineInv, TypeOK
<1> QED
  BY <1>1, PipelineInvariance, PTL

\* A report measures against the limit that was given to the cgroup, unless the
\* bytes do not fit, the text has a blank at its end or the write failed
\* (cgroup.c:108-137, 196-211, main.go:88-107).
THEOREM Limited == Spec => []LimitsAgree
<1>1. ASSUME PipelineInv PROVE LimitsAgree
  <2>1. load.mem \in MemTexts
    BY <1>1, WorkloadAssumption DEF PipelineInv
  <2> QED
    BY <1>1, <2>1, ParsersAgree DEF LimitsAgree, MemLimit, MemMax, PipelineInv
<1> QED
  BY <1>1, PipelineInvariance, PTL

\* A confident CPU-bound verdict rests on a sample that shows both halves of the
\* rule.
THEOREM Confident == Spec => []ConfidentTogether
<1>1. ASSUME PipelineInv PROVE ConfidentTogether
  BY <1>1, Together DEF PipelineInv, ConfidentTogether
<1> QED
  BY <1>1, PipelineInvariance, PTL

-----------------------------------------------------------------------------
(* What the series, the alerts and the fingerprint say of the same run *)

LEMMA SeriesReadable == ASSUME PipelineInv PROVE Readable(series)
<1>1. Len(series) \in Nat /\ \A i \in 1 .. Len(series) : series[i] \in Samples
  BY DEF PipelineInv
<1> QED
  BY <1>1 DEF Samples, Readable

\* Fewer than half of the intervals of a stored series are spikes.
THEOREM Spikes == Spec => []SpikesAreFew
<1>1. ASSUME PipelineInv PROVE SpikesAreFew
  <2>1. Len(series) \in Nat /\ \A i \in 1 .. Len(series) : series[i] \in Samples
    BY <1>1 DEF PipelineInv
  <2>2. \A i \in 1 .. Len(series) : series[i].wr \in Nat
    BY <2>1 DEF Samples
  <2> QED
    BY <2>1, <2>2, FewSpikes DEF SpikesAreFew
<1> QED
  BY <1>1, PipelineInvariance, PTL

LEMMA LimitType == ASSUME load \in Workloads PROVE MemLimit \in Nat
<1>1. load.mem \in MemTexts
  BY WorkloadAssumption
<1>2. ParsedUint(load.mem) \in Nat
  <2>1. load.mem.whole \in Nat /\ 2 * Long - 1 \in Nat
    <3>1. load.mem.whole \in Nat
      BY <1>1 DEF MemTexts
    <3>2. \A l \in Nat \ {0} : 2 * l - 1 \in Nat
      OBVIOUS
    <3> QED
      BY <3>1, <3>2, LongAssumption
  <2>2. \/ ParsedUint(load.mem) = 0
        \/ ParsedUint(load.mem) = 2 * Long - 1
        \/ ParsedUint(load.mem) = load.mem.whole
    <3>1. CASE load.mem.sign # ""
      BY <3>1 DEF ParsedUint
    <3>2. CASE load.mem.sign = "" /\ load.mem.whole >= 2 * Long
      BY <3>2 DEF ParsedUint
    <3>3. CASE load.mem.sign = "" /\ ~ load.mem.whole >= 2 * Long
      BY <3>3 DEF ParsedUint
    <3> QED
      BY <3>1, <3>2, <3>3
  <2> QED
    BY <2>1, <2>2
<1> DEFINE factor == Multiplier(IF load.mem.tail = "b" THEN "" ELSE load.mem.unit)
<1>3. factor \in Nat
  BY <1>1, MultiplierType DEF MemTexts, Units
<1>4. MemLimit = (ParsedUint(load.mem) * factor) % (2 * Long)
  BY DEF MemLimit, RecordedMem
<1>5. \A a, b \in Nat : a * b \in Nat
  OBVIOUS
<1>6. \A n \in Nat : n % (2 * Long) \in Nat
  BY LongAssumption
<1> HIDE DEF factor
<1> QED
  BY <1>2, <1>3, <1>4, <1>5, <1>6

\* Faults above the threshold raise the alert.
LEMMA FaultyAlert ==
  ASSUME PipelineInv, report # <<>>, Faulty(series)
  PROVE  "high_major_faults" \in AlertTypes
<1>1. PICK bottlenecks \in Seq(AlertNames) :
        report.alerts = GenerateAlerts(series, bottlenecks, MemLimit)
  BY DEF PipelineInv
<1>2. \E k \in DOMAIN report.alerts : report.alerts[k].type = "high_major_faults"
  BY <1>1, SeriesReadable, FaultAlert
<1> QED
  BY <1>2 DEF AlertTypes

LEMMA SeriesLevels ==
  ASSUME PipelineInv
  PROVE  /\ Len(series) \in Nat
         /\ \A i \in 1 .. Len(series) :
              series[i].cpu \in Nat /\ series[i].rss \in Nat /\ series[i].wr \in Nat
<1>1. Len(series) \in Nat /\ \A i \in 1 .. Len(series) : series[i] \in Samples
  BY DEF PipelineInv
<1> QED
  BY <1>1 DEF Samples

\* A report that calls a run memory-bound while no sample is near the limit has
\* the alert on faults (classifier.go:88-93, summary.go:71-74).
THEOREM Faults == Spec => []FaultsAgree
<1>1. ASSUME PipelineInv PROVE FaultsAgree
  <2> SUFFICES ASSUME report # <<>>, report.class.type = "Memory-bound",
                      \A i \in Intervals(series) : ~MemHigh(series, i, MemLimit)
               PROVE  "high_major_faults" \in AlertTypes
    BY DEF FaultsAgree
  <2>1. Classify(series, MemLimit).type = "Memory-bound" /\ Readable(series)
    BY <1>1, SeriesReadable DEF PipelineInv
  <2>2. \/ Faulty(series)
        \/ /\ MemLimit > 0
           /\ 10 * Total([i \in Intervals(series) |-> series[i].rss])
                > 8 * MemLimit * (Len(series) - 1)
    BY <2>1, MemoryVerdict
  <2>3. Len(series) > 1 /\ MemLimit \in Nat /\ \A i \in 1 .. Len(series) : series[i].rss \in Nat
    BY <1>1, <2>1, MemoryVerdict, LimitType, SeriesLevels DEF PipelineInv
  <2>4. Faulty(series)
    BY <2>1, <2>2, <2>3, MemoryNearLimit
  <2> QED
    BY <1>1, <2>4, FaultyAlert
<1> QED
  BY <1>1, PipelineInvariance, PTL

\* The fingerprint bears out a CPU-bound verdict, and a memory-bound one without
\* the alert on faults, whatever the lengths of the intervals
\* (classifier.go:36-38, fingerprints.go:48-90).
THEOREM Fingerprint == Spec => []FingerprintAgrees
<1>1. ASSUME PipelineInv, report # <<>> PROVE FingerprintAgrees
  <2> DEFINE n == Len(series) - 1
             S == 2 .. Len(series)
             I == Intervals(series)
             print == BuildFingerprint(series)
             cpu == [i \in S |-> series[i].cpu]
             rss == [i \in S |-> series[i].rss]
             cpuI == [i \in I |-> series[i].cpu]
             rssI == [i \in I |-> series[i].rss]
  <2>1. /\ \A i \in S : cpu[i] \in Nat /\ rss[i] \in Nat
        /\ \A i \in I : i \in S /\ cpuI[i] = cpu[i] /\ rssI[i] = rss[i]
    BY <1>1, SeriesLevels DEF Intervals
  <2>2. DOMAIN cpu = S /\ DOMAIN rss = S /\ DOMAIN cpuI = I /\ DOMAIN rssI = I
    OBVIOUS
  <2>3. Len(series) \in Nat
    BY <1>1, SeriesLevels
  <2>4. Len(series) > 1 => print.cpu = Total(cpu) /\ print.mem = Total(rss) /\ print.count = n
    BY <2>3 DEF BuildFingerprint
  <2>5. /\ Total(cpuI) \in Nat /\ Total(cpu) \in Nat /\ Total(cpuI) <= Total(cpu)
        /\ Total(rssI) \in Nat /\ Total(rss) \in Nat /\ Total(rssI) <= Total(rss)
    <3> HIDE DEF cpu, rss, cpuI, rssI
    <3>1. /\ IsFiniteSet(I)
          /\ Over(cpu, I) \in Nat /\ Over(cpu, S) \in Nat /\ Over(cpu, I) <= Over(cpu, S)
          /\ Over(rss, I) \in Nat /\ Over(rss, S) \in Nat /\ Over(rss, I) <= Over(rss, S)
      BY <2>1, <2>3, LevelsOnIntervals
    <3> HIDE DEF I, S
    <3>2. Over(cpuI, I) = Over(cpu, I) /\ Over(rssI, I) = Over(rss, I)
      BY <2>1, <3>1, OverAgree
    <3> QED
      BY <2>2, <3>1, <3>2, TotalIsOver
  <2>6. report.class = Classify(series, MemLimit)
    BY <1>1 DEF PipelineInv
  <2>7. ASSUME report.class.type = "CPU-bound" PROVE print.cpu > 70 * print.count
    <3>1. Len(series) > 1 /\ WorkloadOf(series, MemLimit) = "CPU-bound"
      BY <2>3, <2>6, <2>7 DEF Classify
    <3>2. Total(cpuI) > 70 * n
      BY <3>1 DEF WorkloadOf
    <3> HIDE DEF cpu, cpuI, print
    <3> QED
      BY <2>3, <2>4, <2>5, <3>1, <3>2
  <2>8. ASSUME report.class.type = "Memory-bound", "high_major_faults" \notin AlertTypes
        PROVE  MemLimit > 0 /\ 10 * print.mem > 8 * MemLimit * print.count
    <3>1. ~Faulty(series)
      BY <1>1, <2>8, FaultyAlert
    <3>2. Len(series) > 1 /\ MemLimit > 0 /\ 10 * Total(rssI) > 8 * MemLimit * n
      BY <1>1, <2>6, <2>8, <3>1, SeriesReadable, MemoryVerdict
    <3> DEFINE bound == 8 * MemLimit * n
    <3>3. bound \in Int
      <4>1. MemLimit \in Nat /\ n \in Nat
        BY <1>1, <2>3, <3>2, LimitType DEF PipelineInv
      <4>2. \A a, b \in Nat : 8 * a * b \in Int
        OBVIOUS
      <4> HIDE DEF n
      <4> QED
        BY <4>1, <4>2
    <3>4. 10 * Total(rss) > bound
      <4> HIDE DEF bound, rss, rssI
      <4> QED
        BY <2>5, <3>2, <3>3 DEF bound
    <3> HIDE DEF rss, rssI, print, n
    <3> QED
      BY <2>4, <3>2, <3>4
  <2> QED
    BY <2>7, <2>8 DEF FingerprintAgrees
<1>2. report = <<>> => FingerprintAgrees
  BY DEF FingerprintAgrees
<1>3. PipelineInv => FingerprintAgrees
  BY <1>1, <1>2
<1> QED
  BY <1>3, PipelineInvariance, PTL

LEMMA SeriesDescribed ==
  ASSUME NEW f, IsFiniteSet(DOMAIN f), \A x \in DOMAIN f : f[x] \in Nat
  PROVE  Describes(ComputeStats(f), f)
<1> DEFINE n == Cardinality(DOMAIN f)
           st == ComputeStats(f)
<1> SUFFICES ASSUME n > 0 PROVE Describes(st, f)
  BY DEF Describes
<1>1. DOMAIN f # {} /\ n # 0
  BY FS_EmptySet
<1>2. st.n = n
  BY <1>1 DEF ComputeStats
<1>3. /\ st.min <= st.p95 /\ st.p95 <= st.max
      /\ st.min * n <= st.sum /\ st.sum <= st.max * n
  BY <1>2, StatsInOrder
<1>4. /\ 100 * Cardinality({x \in DOMAIN f : f[x] <= st.p95}) >= 95 * n
      /\ 100 * Cardinality({x \in DOMAIN f : f[x] < st.p95}) < 95 * n
  BY <1>1, PercentileCounts
<1> HIDE DEF n, st
<1> QED
  BY <1>3, <1>4 DEF Describes, n

\* The summary in a report describes the stored series: the figures of every
\* metric are in order, and its 95th percentile has 95 of 100 values up to it
\* and fewer below (summary.go:18-44, 64-93).
THEOREM Summary == Spec => []SummaryDescribes
<1>1. ASSUME PipelineInv, report # <<>> PROVE SummaryDescribes
  <2> DEFINE v == Values(series)
  <2>1. Len(series) \in Nat /\ DOMAIN series = 1 .. Len(series)
    BY <1>1 DEF PipelineInv
  <2>2. /\ IsFiniteSet(DOMAIN v.cpu) /\ IsFiniteSet(DOMAIN v.mem)
        /\ IsFiniteSet(DOMAIN v.wr) /\ IsFiniteSet(DOMAIN v.flt)
    <3>1. IsFiniteSet(1 .. Len(series)) /\ IsFiniteSet(Timed(series))
      <4>1. IsFiniteSet(1 .. Len(series)) /\ Timed(series) \in SUBSET (1 .. Len(series))
        BY <2>1, FS_Interval DEF Timed
      <4> QED
        BY <4>1, FS_Subset
    <3>2. /\ DOMAIN v.cpu = 1 .. Len(series) /\ DOMAIN v.mem = 1 .. Len(series)
          /\ DOMAIN v.wr = Timed(series) /\ DOMAIN v.flt = Timed(series)
      BY <2>1 DEF Values
    <3> QED
      BY <3>1, <3>2
  <2>3. /\ \A i \in DOMAIN v.cpu : v.cpu[i] \in Nat
        /\ \A i \in DOMAIN v.mem : v.mem[i] \in Nat
    BY <1>1, <2>1, SeriesLevels DEF Values
  <2>4. \A i \in DOMAIN v.flt : v.flt[i] \in Nat
    <3>1. \A i \in Timed(series) : FaultRate(series, i) \in Nat
      <4> TAKE i \in Timed(series)
      <4>1. i \in Intervals(series) /\ series[i].gap > 0
        BY <2>1, SeriesReadable, <1>1 DEF Timed, Intervals, Readable
      <4> QED
        BY <1>1, <4>1, SeriesReadable, FaultRateSign
    <3> QED
      BY <3>1 DEF Values
  <2>5. \A i \in DOMAIN v.wr : v.wr[i] \in Nat
    <3>1. \A i \in Timed(series) : WriteRate(series, i) \in Nat
      <4> TAKE i \in Timed(series)
      <4>1. i \in 1 .. Len(series) /\ i - 1 \in 1 .. Len(series) /\ series[i].gap > 0
        BY <2>1 DEF Timed
      <4>2. series[i].gap \in Int /\ Rise(series[i - 1].wr, series[i].wr) \in Nat
        BY <1>1, <4>1, SeriesReadable, SeriesLevels, RiseType DEF Readable
      <4> DEFINE rise == Rise(series[i - 1].wr, series[i].wr)
                 gap == series[i].gap
      <4>3. rise \in Nat /\ gap \in Int /\ gap > 0
        BY <4>1, <4>2
      <4>4. WriteRate(series, i) = PerTick(rise, gap)
        BY DEF WriteRate
      <4> HIDE DEF rise, gap
      <4>5. PerTick(rise, gap) \in Nat
        BY <4>3, PerTickSign
      <4> QED
        BY <4>4, <4>5
    <3> QED
      BY <3>1 DEF Values
  <2>6. report.summary = BuildSummary(series)
    BY <1>1 DEF PipelineInv
  <2>7. /\ report.summary.cpu = ComputeStats(v.cpu) /\ report.summary.mem = ComputeStats(v.mem)
        /\ report.summary.wr = ComputeStats(v.wr) /\ report.summary.flt = ComputeStats(v.flt)
    BY <2>6 DEF BuildSummary
  <2> HIDE DEF v
  <2>8. /\ Describes(ComputeStats(v.cpu), v.cpu) /\ Describes(ComputeStats(v.mem), v.mem)
        /\ Describes(ComputeStats(v.wr), v.wr) /\ Describes(ComputeStats(v.flt), v.flt)
    BY <2>2, <2>3, <2>4, <2>5, SeriesDescribed
  <2> QED
    BY <2>7, <2>8 DEF SummaryDescribes, v
<1>2. report = <<>> => SummaryDescribes
  BY DEF SummaryDescribes
<1>3. PipelineInv => SummaryDescribes
  BY <1>1, <1>2
<1> QED
  BY <1>3, PipelineInvariance, PTL

-----------------------------------------------------------------------------
(* The faults that are counted *)

Rises(s) == [i \in 2 .. Len(s) |-> Rise(s[i - 1].flt, s[i].flt)]

\* A reader that does not fail shows the counter of the processes alive, and the rises of
\* what was shown add up to no more than the work.
CountedInv ==
  "faults" \notin load.fails =>
    /\ Total(Rises(series)) <= work.flt
    /\ cg.up /\ series # <<>> => series[Len(series)].flt = live.flt

LEMMA RiseBound ==
  ASSUME NEW prev, prev \in Nat, NEW curr, curr \in Nat, NEW most, most \in Nat,
         curr >= prev => curr - prev <= most
  PROVE  Rise(prev, curr) \in Nat /\ Rise(prev, curr) <= most
<1>1. /\ Rise(prev, curr) \in Nat
      /\ curr >= prev => Rise(prev, curr) <= curr - prev
  BY RiseType
<1>2. ~ curr >= prev => Rise(prev, curr) = 0
  BY DEF Rise
<1> QED
  BY <1>1, <1>2

\* One sample more adds the rise to it.
LEMMA RisesNext ==
  ASSUME NEW s \in Seq(Samples), NEW x \in Samples, Len(s) >= 1
  PROVE  /\ Total(Rises(Append(s, x))) = Total(Rises(s)) + Rise(s[Len(s)].flt, x.flt)
         /\ Total(Rises(s)) \in Nat
<1> DEFINE n == Len(s)
           N == Len(s) + 1
           t == Append(s, x)
           f == Rises(s)
           g == Rises(t)
<1>1. /\ n \in Nat /\ Len(t) = N /\ t[N] = x /\ N - 1 = n /\ N \in 2 .. N
      /\ \A i \in 1 .. n : t[i] = s[i]
  OBVIOUS
<1>2. \A i \in 1 .. n : s[i].flt \in Nat
  <2>1. \A i \in 1 .. n : s[i] \in Samples
    OBVIOUS
  <2> QED
    BY <2>1 DEF Samples
<1>3. x.flt \in Nat /\ t[n] = s[n] /\ s[n].flt \in Nat
  BY <1>1, <1>2 DEF Samples
<1>4. \A i \in 2 .. n : i \in 1 .. n /\ i - 1 \in 1 .. n
  BY <1>1
<1>5. DOMAIN f = 2 .. n /\ DOMAIN g = 2 .. N
  BY <1>1 DEF Rises
<1>6. \A i \in 2 .. n : f[i] = Rise(s[i - 1].flt, s[i].flt) /\ g[i] = f[i]
  <2> TAKE i \in 2 .. n
  <2>1. i \in 2 .. N /\ t[i] = s[i] /\ t[i - 1] = s[i - 1]
    BY <1>1, <1>4
  <2> HIDE DEF t
  <2>2. f[i] = Rise(s[i - 1].flt, s[i].flt)
    BY DEF Rises
  <2>3. g[i] = Rise(t[i - 1].flt, t[i].flt)
    BY <1>1, <2>1 DEF Rises
  <2> QED
    BY <2>1, <2>2, <2>3
<1>7. g[N] = Rise(s[n].flt, x.flt)
  <2> HIDE DEF t
  <2>1. g[N] = Rise(t[N - 1].flt, t[N].flt)
    BY <1>1 DEF Rises
  <2> QED
    BY <1>1, <1>3, <2>1
<1>8. /\ \A i \in 2 .. n : f[i] \in Nat
      /\ g[N] \in Nat
  <2>1. \A i \in 2 .. n : Rise(s[i - 1].flt, s[i].flt) \in Nat
    BY <1>2, <1>4, RiseType
  <2>2. Rise(s[n].flt, x.flt) \in Nat
    BY <1>3, RiseType
  <2> QED
    BY <1>6, <1>7, <2>1, <2>2
<1>9. /\ IsFiniteSet(2 .. n) /\ IsFiniteSet(2 .. N) /\ (2 .. N) \ {N} = 2 .. n
      /\ \A i \in 2 .. N : i = N \/ i \in 2 .. n
  <2>1. n \in Nat /\ N \in Nat /\ N = n + 1
    BY <1>1
  <2> HIDE DEF n, N
  <2>2. IsFiniteSet(2 .. n) /\ IsFiniteSet(2 .. N)
    BY <2>1, FS_Interval
  <2>3. (2 .. N) \ {N} = 2 .. n /\ \A i \in 2 .. N : i = N \/ i \in 2 .. n
    BY <2>1
  <2> QED
    BY <2>2, <2>3
<1> HIDE DEF f, g, t, n, N
<1>10. Over(f, 2 .. n) \in Nat
  BY <1>8, <1>9, OverNat
<1>11. Over(g, 2 .. n) = Over(f, 2 .. n)
  BY <1>6, <1>9, OverAgree
<1>12. Over(g, 2 .. N) = g[N] + Over(g, 2 .. n)
  <2> DEFINE S == 2 .. N
  <2>1. N \in S /\ IsFiniteSet(S) /\ \A i \in S : g[i] \in Int
    BY <1>1, <1>6, <1>8, <1>9
  <2>2. Over(g, S) = g[N] + Over(g, S \ {N})
    <3> HIDE DEF S
    <3> QED
      BY <2>1, OverRemove
  <2> QED
    BY <1>9, <2>2
<1>13. Total(f) = Over(f, 2 .. n) /\ Total(g) = Over(g, 2 .. N)
  BY <1>5, TotalIsOver
<1>14. Total(g) = Total(f) + g[N] /\ Total(f) \in Nat
  BY <1>8, <1>10, <1>11, <1>12, <1>13
<1> QED
  BY <1>7, <1>14 DEF f, g, t, n

LEMMA CountedInit == Init => CountedInv
<1> SUFFICES ASSUME Init PROVE CountedInv
  OBVIOUS
<1>1. series = <<>> /\ work.flt = 0
  BY DEF Init, NoWork
<1>2. DOMAIN Rises(series) = {}
  BY <1>1 DEF Rises
<1>3. Total(Rises(series)) = 0
  BY <1>2, TotalIsOver, OverEmpty
<1> QED
  BY <1>1, <1>3 DEF CountedInv

LEMMA CountedSample ==
  ASSUME PipelineInv, CountedInv, Sample
  PROVE  CountedInv'
<1> SUFFICES ASSUME "faults" \notin load.fails
             PROVE  /\ Total(Rises(series')) <= work'.flt
                    /\ cg.up => series'[Len(series')].flt = live'.flt
  BY DEF CountedInv, Sample
<1>1. PICK r \in load.rd, w \in load.wr, f \in load.flt :
        \E gone \in 0 .. (live.flt + f) :
          /\ live' = [rd |-> live.rd + r, wr |-> live.wr + w, flt |-> live.flt + f - gone]
          /\ work' = IF series = <<>> THEN NoWork
                     ELSE [wr |-> work.wr + w, flt |-> work.flt + f]
  BY DEF Sample
<1>2. r \in Nat /\ w \in Nat /\ f \in Nat
  BY WorkloadAssumption DEF PipelineInv
<1>3. /\ live'.flt \in Nat /\ live'.flt <= live.flt + f /\ live.flt \in Nat
      /\ live'.rd \in Nat /\ live'.wr \in Nat /\ work.flt \in Nat
  BY <1>1, <1>2 DEF PipelineInv
<1>4. PICK gap \in IF series = <<>> THEN {1} ELSE load.gap, cpu \in load.cpu,
           rss \in load.rss, lost \in SUBSET load.fails :
        series' = Append(series, Seen(gap, cpu, rss, live', lost))
  BY DEF Sample
<1>5. "faults" \notin lost /\ gap \in Int /\ cpu \in Nat /\ rss \in Nat
  BY WorkloadAssumption DEF PipelineInv
<1> DEFINE x == Seen(gap, cpu, rss, live', lost)
<1>6. x \in Samples /\ x.flt = IF cg.up THEN live'.flt ELSE 0
  BY <1>3, <1>5 DEF Seen, Samples
<1> HIDE DEF x
<1>7. /\ series \in Seq(Samples) /\ series' = Append(series, x)
      /\ Len(series') = Len(series) + 1 /\ series'[Len(series')] = x
  BY <1>4, <1>6 DEF PipelineInv, x
<1>8. Total(Rises(series')) <= work'.flt
  <2>1. CASE series = <<>>
    <3>1. work'.flt = 0
      BY <1>1, <2>1 DEF NoWork
    <3>2. Len(series') = 1
      BY <1>7, <2>1
    <3>3. DOMAIN Rises(series') = {}
      BY <3>2 DEF Rises
    <3>4. Total(Rises(series')) = 0
      BY <3>3, TotalIsOver, OverEmpty
    <3> QED
      BY <3>1, <3>4
  <2>2. CASE series # <<>>
    <3> DEFINE last == series[Len(series)]
    <3>1. Len(series) >= 1 /\ last \in Samples
      BY <1>7, <2>2
    <3>2. last.flt \in Nat /\ work'.flt = work.flt + f
      BY <1>1, <2>2, <3>1 DEF Samples
    <3>3. /\ Total(Rises(series')) = Total(Rises(series)) + Rise(last.flt, x.flt)
          /\ Total(Rises(series)) \in Nat
      BY <1>6, <1>7, <3>1, RisesNext
    <3>4. Total(Rises(series)) <= work.flt /\ (cg.up => last.flt = live.flt)
      BY <2>2 DEF CountedInv
    <3>5. x.flt \in Nat /\ (x.flt >= last.flt => x.flt - last.flt <= f)
      BY <1>2, <1>3, <1>6, <3>2, <3>4
    <3>6. Rise(last.flt, x.flt) \in Nat /\ Rise(last.flt, x.flt) <= f
      BY <1>2, <3>2, <3>5, RiseBound
    <3> QED
      BY <1>2, <1>3, <3>2, <3>3, <3>4, <3>6
  <2> QED
    BY <2>1, <2>2
<1> QED
  BY <1>6, <1>7, <1>8

LEMMA CountedNext == PipelineInv /\ CountedInv /\ [Next]_vars => CountedInv'
<1> SUFFICES ASSUME PipelineInv, CountedInv, [Next]_vars PROVE CountedInv'
  OBVIOUS
<1>1. CASE Sample
  BY <1>1, CountedSample
<1>2. CASE RemoveContainer
  BY <1>2 DEF RemoveContainer, CountedInv
<1>3. CASE Throttle
  BY <1>3 DEF Throttle, CountedInv
<1>4. CASE EndRun \/ Report \/ UNCHANGED vars
  BY <1>4 DEF EndRun, Report, vars, CountedInv
<1> QED
  BY <1>1, <1>2, <1>3, <1>4 DEF Next

\* As long as the fault reader does not fail, no fault is counted that the container did not take,
\* whichever processes exit between two samples and whenever the cgroup is
\* removed (classifier.go:58-62, summary.go:88-92).
THEOREM Counted == Spec => []CountedIsReal
<1>1. Spec => []CountedInv
  BY PipelineInvariance, CountedInit, CountedNext, PTL DEF Spec
<1>2. CountedInv => CountedIsReal
  BY DEF CountedInv, CountedIsReal, Rises
<1> QED
  BY <1>1, <1>2, PTL
=============================================================================
