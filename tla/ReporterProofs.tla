--------------------------- MODULE ReporterProofs ---------------------------
(***************************************************************************)
(* What the operators of the reporter compute, for every input.            *)
(***************************************************************************)
EXTENDS Reporter, TotalsProofs

\* The 95th percentile of n sorted values is the nearest-rank one, for every n;
\* the clamps of computeStats never take effect (summary.go:29-36).
THEOREM Nearest ==
  ASSUME NEW n \in Nat \ {0}
  PROVE  NearestRank(n)
<1> DEFINE rank == (95 * n + 99) \div 100
<1>1. /\ rank \in Int
      /\ 100 * rank >= 95 * n
      /\ 100 * rank <= 95 * n + 99
  OBVIOUS
<1>2. rank >= 1 /\ rank <= n
  BY <1>1
<1>3. Percentile(n) = rank
  BY <1>2, <1>1 DEF Percentile
<1> QED
  BY <1>1, <1>2, <1>3 DEF NearestRank

-----------------------------------------------------------------------------
(* Sorting: there is a value at every position, and it has as many values   *)
(* below it, and up to it, as the position says.                            *)

LEMMA SortedPosition ==
  ASSUME NEW f, IsFiniteSet(DOMAIN f), \A x \in DOMAIN f : f[x] \in Nat,
         NEW k \in Nat, 1 <= k, k <= Cardinality(DOMAIN f)
  PROVE  /\ Sorted(f, k) \in Nat
         /\ Cardinality({x \in DOMAIN f : f[x] < Sorted(f, k)}) < k
         /\ Cardinality({x \in DOMAIN f : f[x] <= Sorted(f, k)}) >= k
<1> DEFINE D == DOMAIN f
           Upto(n) == {x \in D : f[x] <= n}
           Below(n) == {x \in D : f[x] < n}
           Enough == {n \in Nat : Cardinality(Upto(n)) >= k}
           most == Over(f, D)
<1>1. \A n \in Nat : Cardinality(Upto(n)) \in Nat /\ Cardinality(Below(n)) \in Nat
  <2> TAKE n \in Nat
  <2>1. Upto(n) \in SUBSET D /\ Below(n) \in SUBSET D
    OBVIOUS
  <2> HIDE DEF D, Upto, Below
  <2> QED
    BY <2>1, FS_Subset, FS_CardinalityType DEF D
<1>2. most \in Nat /\ \A x \in D : f[x] <= most
  <2>1. most \in Nat
    BY OverNat
  <2>2. ASSUME NEW x \in D PROVE f[x] <= most
    <3>1. most = f[x] + Over(f, D \ {x})
      <4>1. \A y \in D : f[y] \in Int
        OBVIOUS
      <4> QED
        BY <4>1, OverRemove
    <3>2. Over(f, D \ {x}) \in Nat
      <4>1. IsFiniteSet(D \ {x}) /\ \A y \in D \ {x} : f[y] \in Nat
        BY FS_RemoveElement
      <4> QED
        BY <4>1, OverNat
    <3> QED
      BY <3>1, <3>2
  <2> QED
    BY <2>1, <2>2
<1>3. most \in Enough
  <2>1. Upto(most) = D
    BY <1>2
  <2> QED
    BY <1>2, <2>1
<1>4. PICK v \in Enough : \A n \in Enough : v <= n
  <2>1. Enough \in SUBSET Nat /\ Enough # {}
    BY <1>3
  <2> HIDE DEF Enough
  <2> QED
    BY <2>1, LeastNumber
<1>5. v \in Nat /\ Cardinality(Upto(v)) >= k
  OBVIOUS
<1>6. Cardinality(Below(v)) < k
  <2>1. CASE v = 0
    <3>1. Below(v) = {}
      BY <2>1
    <3> QED
      BY <3>1, FS_EmptySet
  <2>2. CASE v # 0
    <3>1. v - 1 \in Nat /\ v - 1 \notin Enough
      BY <1>4, <1>5, <2>2
    <3>2. Below(v) = Upto(v - 1)
      BY <1>5, <2>2
    <3>3. Cardinality(Upto(v - 1)) \in Nat /\ ~ Cardinality(Upto(v - 1)) >= k
      BY <1>1, <3>1
    <3> HIDE DEF Upto, Below
    <3> QED
      BY <3>2, <3>3
  <2> QED
    BY <2>1, <2>2
<1>7. v \in Range(f)
  <2> SUFFICES ASSUME v \notin Range(f) PROVE FALSE
    OBVIOUS
  <2>1. \A x \in D : f[x] # v
    BY DEF Range
  <2>2. Upto(v) = Below(v)
    BY <1>5, <2>1
  <2>3. Cardinality(Below(v)) \in Nat
    BY <1>1, <1>5
  <2> HIDE DEF Upto, Below
  <2> QED
    BY <1>5, <1>6, <2>2, <2>3
<1>8. /\ Sorted(f, k) \in Range(f)
      /\ Cardinality(Below(Sorted(f, k))) < k
      /\ Cardinality(Upto(Sorted(f, k))) >= k
  BY <1>5, <1>6, <1>7 DEF Sorted
<1>9. Sorted(f, k) \in Nat
  BY <1>8 DEF Range
<1> QED
  BY <1>8, <1>9

\* No two values have the same position, so that Sorted is the value an ascending
\* order has there, whichever algorithm makes it (pattern.go:97-109,
\* summary.go:20-22).
THEOREM SortedUnique ==
  ASSUME NEW f, IsFiniteSet(DOMAIN f), \A x \in DOMAIN f : f[x] \in Nat,
         NEW k \in Nat, 1 <= k, k <= Cardinality(DOMAIN f),
         NEW v \in Nat,
         Cardinality({x \in DOMAIN f : f[x] < v}) < k,
         Cardinality({x \in DOMAIN f : f[x] <= v}) >= k
  PROVE  v = Sorted(f, k)
<1> DEFINE D == DOMAIN f
           w == Sorted(f, k)
           Upto(n) == {x \in D : f[x] <= n}
           Below(n) == {x \in D : f[x] < n}
<1>1. w \in Nat /\ Cardinality(Below(w)) < k /\ Cardinality(Upto(w)) >= k
  BY SortedPosition
<1>2. Cardinality(Below(v)) < k /\ Cardinality(Upto(v)) >= k
  OBVIOUS
<1> HIDE DEF w
<1>3. ASSUME NEW a \in Nat, NEW b \in Nat, a < b
      PROVE  Cardinality(Upto(a)) <= Cardinality(Below(b))
  <2>1. Upto(a) \in SUBSET Below(b) /\ Below(b) \in SUBSET D
    BY <1>3
  <2> HIDE DEF D, Upto, Below
  <2> QED
    BY <2>1, FS_Subset DEF D
<1>4. \A n \in Nat : Cardinality(Upto(n)) \in Nat /\ Cardinality(Below(n)) \in Nat
  <2> TAKE n \in Nat
  <2>1. Upto(n) \in SUBSET D /\ Below(n) \in SUBSET D
    OBVIOUS
  <2> HIDE DEF D, Upto, Below
  <2> QED
    BY <2>1, FS_Subset, FS_CardinalityType DEF D
<1> HIDE DEF D, Upto, Below
<1>5. ~ (v < w)
  BY <1>1, <1>2, <1>3, <1>4
<1>6. ~ (w < v)
  BY <1>1, <1>2, <1>3, <1>4
<1> QED
  BY <1>1, <1>5, <1>6 DEF w

\* The 95th percentile of computeStats is one of the values and has at least 95
\* of 100 of them up to it and fewer than 95 of 100 below it, for every number
\* of values, equal ones included (summary.go:29-41).
THEOREM PercentileCounts ==
  ASSUME NEW f, IsFiniteSet(DOMAIN f), \A x \in DOMAIN f : f[x] \in Nat,
         DOMAIN f # {}
  PROVE  LET n == Cardinality(DOMAIN f)
             p95 == ComputeStats(f).p95
         IN  /\ 100 * Cardinality({x \in DOMAIN f : f[x] <= p95}) >= 95 * n
             /\ 100 * Cardinality({x \in DOMAIN f : f[x] < p95}) < 95 * n
<1> DEFINE n == Cardinality(DOMAIN f)
           k == Percentile(n)
           p95 == ComputeStats(f).p95
           U == {x \in DOMAIN f : f[x] <= p95}
           B == {x \in DOMAIN f : f[x] < p95}
<1>1. n \in Nat \ {0}
  BY FS_EmptySet, FS_CardinalityType
<1>2. p95 = Sorted(f, k)
  BY <1>1 DEF ComputeStats
<1>3. k \in 1 .. n /\ 100 * k >= 95 * n /\ 100 * (k - 1) < 95 * n
  <2> HIDE DEF n
  <2> QED
    BY <1>1, Nearest DEF NearestRank
<1>4. k \in Nat /\ 1 <= k /\ k <= n
  <2> HIDE DEF n, k
  <2> QED
    BY <1>1, <1>3
<1>5. Cardinality(B) < k /\ Cardinality(U) >= k
  <2> HIDE DEF k
  <2>1. /\ Cardinality({x \in DOMAIN f : f[x] < Sorted(f, k)}) < k
        /\ Cardinality({x \in DOMAIN f : f[x] <= Sorted(f, k)}) >= k
    BY <1>4, SortedPosition
  <2> QED
    BY <1>2, <2>1
<1>6. Cardinality(B) \in Nat /\ Cardinality(U) \in Nat
  BY FS_Subset, FS_CardinalityType
<1>7. 100 * Cardinality(U) >= 95 * n /\ 100 * Cardinality(B) < 95 * n
  <2> HIDE DEF n, k, B, U
  <2> QED
    BY <1>1, <1>3, <1>4, <1>5, <1>6
<1> QED
  BY <1>7

\* The average and the 95th percentile of a metric each lie between the least
\* and the greatest value, which bound all of its values (summary.go:12-44).
THEOREM StatsInOrder ==
  ASSUME NEW f, IsFiniteSet(DOMAIN f), \A x \in DOMAIN f : f[x] \in Nat
  PROVE  LET st == ComputeStats(f)
         IN  /\ st.min <= st.p95 /\ st.p95 <= st.max
             /\ st.min * st.n <= st.sum /\ st.sum <= st.max * st.n
             /\ \A x \in DOMAIN f : st.min <= f[x] /\ f[x] <= st.max
<1> DEFINE D == DOMAIN f
           n == Cardinality(D)
           k == Percentile(n)
           st == ComputeStats(f)
           least == Sorted(f, 1)
           most == Sorted(f, n)
           p95 == Sorted(f, k)
<1>1. CASE D = {}
  <2>1. n = 0
    BY <1>1, FS_EmptySet
  <2>2. st = [min |-> 0, sum |-> 0, n |-> 0, p95 |-> 0, max |-> 0]
    BY <2>1 DEF ComputeStats
  <2> QED
    BY <1>1, <2>2
<1>2. CASE D # {}
  <2>1. n \in Nat /\ n >= 1
    BY <1>2, FS_EmptySet, FS_CardinalityType
  <2>0. \A j \in Nat : 1 <= j /\ j <= n =>
          /\ Sorted(f, j) \in Nat
          /\ Cardinality({x \in D : f[x] < Sorted(f, j)}) < j
          /\ Cardinality({x \in D : f[x] <= Sorted(f, j)}) >= j
    BY SortedPosition
  <2>2. k \in Nat /\ 1 <= k /\ k <= n
    <3> HIDE DEF n
    <3>1. k \in 1 .. n
      BY <2>1, Nearest DEF NearestRank
    <3> QED
      BY <2>1, <3>1
  <2>3. /\ st.min = least /\ st.p95 = p95 /\ st.max = most
        /\ st.n = n /\ st.sum = Over(f, D)
    BY <2>1, TotalIsOver DEF ComputeStats
  <2>4. least \in Nat /\ \A x \in D : least <= f[x]
    <3> DEFINE B == {x \in D : f[x] < least}
    <3>1. least \in Nat /\ Cardinality(B) < 1
      <4>1. 1 \in Nat /\ 1 <= 1 /\ 1 <= n
        BY <2>1
      <4> HIDE DEF n, D
      <4> QED
        BY <2>0, <4>1
    <3>2. IsFiniteSet(B) /\ Cardinality(B) \in Nat
      BY FS_Subset, FS_CardinalityType
    <3>3. B = {}
      <4> HIDE DEF B
      <4>1. Cardinality(B) = 0
        BY <3>1, <3>2
      <4> QED
        BY <3>2, <4>1, FS_EmptySet
    <3> HIDE DEF least
    <3> QED
      BY <3>1, <3>3
  <2>5. most \in Nat /\ \A x \in D : f[x] <= most
    <3> DEFINE U == {x \in D : f[x] <= most}
    <3>1. most \in Nat /\ Cardinality(U) >= n
      <4>1. n \in Nat /\ 1 <= n /\ n <= n
        BY <2>1
      <4> HIDE DEF n, D
      <4> QED
        BY <2>0, <4>1
    <3>2. U \in SUBSET D /\ IsFiniteSet(D)
      OBVIOUS
    <3>3. Cardinality(U) \in Nat /\ Cardinality(U) <= n /\ (Cardinality(U) = n => U = D)
      <4> HIDE DEF U, D, most
      <4> QED
        BY <3>2, FS_Subset, FS_CardinalityType
    <3>4. U = D
      <4> HIDE DEF U, D, n
      <4> QED
        BY <2>1, <3>1, <3>3
    <3> HIDE DEF most
    <3> QED
      BY <3>1, <3>4
  <2>6. p95 \in Nat /\ \E x \in D : f[x] = p95
    <3> DEFINE B == {x \in D : f[x] < p95}
               U == {x \in D : f[x] <= p95}
    <3>1. p95 \in Nat /\ Cardinality(B) < k /\ Cardinality(U) >= k
      <4> HIDE DEF k
      <4> QED
        BY <2>2, SortedPosition
    <3>2. B # U /\ B \subseteq U
      BY <2>2, <3>1, FS_Subset, FS_CardinalityType
    <3>3. PICK x \in U : x \notin B
      BY <3>2
    <3> HIDE DEF p95
    <3> QED
      BY <3>1, <3>3
  <2>7. least <= p95 /\ p95 <= most
    BY <2>4, <2>5, <2>6
  <2>8. least * n <= Over(f, D)
    <3> HIDE DEF least, D
    <3>1. Over(f, D) >= least * n
      BY <2>4, OverAtLeast DEF D
    <3>2. Over(f, D) \in Int /\ least * n \in Int
      BY <2>1, <2>4, OverInt DEF D
    <3> QED
      BY <3>1, <3>2
  <2>9. Over(f, D) <= most * n
    <3> HIDE DEF most, D
    <3> QED
      BY <2>5, OverAtMost DEF D
  <2> HIDE DEF st, least, most, p95, n
  <2>10. /\ st.min <= st.p95 /\ st.p95 <= st.max
         /\ st.min * st.n <= st.sum /\ st.sum <= st.max * st.n
         /\ \A x \in D : st.min <= f[x] /\ f[x] <= st.max
    BY <2>3, <2>4, <2>5, <2>7, <2>8, <2>9
  <2> QED
    BY <2>10 DEF st
<1> QED
  BY <1>1, <1>2

LEMMA Larger ==
  ASSUME NEW a \in Nat, NEW b \in Nat
  PROVE  Max({a, b}) \in Nat /\ Max({a, b}) >= a /\ Max({a, b}) >= b
<1>1. \E x \in {a, b} : \A y \in {a, b} : x >= y
  BY SMT
<1> QED
  BY <1>1 DEF Max

\* Fewer than half of the intervals are spikes, for every series of counters:
\* what exceeds three times the upper median exceeds the median, which at least
\* half of the intervals do not (pattern.go:109-121).
THEOREM FewSpikes ==
  ASSUME NEW s, Len(s) \in Nat, \A i \in 1 .. Len(s) : s[i].wr \in Nat
  PROVE  2 * AnalyzeIOSpikes(s).spikes < Max({1, Cardinality(DOMAIN WriteDeltas(s))})
<1> DEFINE f == WriteDeltas(s)
           D == DOMAIN f
           n == Cardinality(D)
           at == IF Len(s) < 3 THEN {} ELSE SpikesIn(f)
<1>1. AnalyzeIOSpikes(s).spikes = Cardinality(at)
  BY DEF AnalyzeIOSpikes
<1>2. D \in SUBSET (2 .. Len(s)) /\ IsFiniteSet(2 .. Len(s))
  BY FS_Interval DEF WriteDeltas
<1>3. IsFiniteSet(D) /\ n \in Nat
  BY <1>2, FS_Subset, FS_CardinalityType
<1>4. \A i \in D : f[i] \in Nat
  <2> TAKE i \in D
  <2>1. i \in 1 .. Len(s) /\ i - 1 \in 1 .. Len(s)
    BY <1>2
  <2>2. f[i] = (s[i].wr - s[i - 1].wr) % Width
    BY DEF WriteDeltas, Minus
  <2> QED
    BY <2>1, <2>2, WidthAssumption
<1> HIDE DEF f
<1>5. CASE at = {}
  <2>1. AnalyzeIOSpikes(s).spikes = 0
    BY <1>1, <1>5, FS_EmptySet
  <2> QED
    BY <1>3, <2>1, Larger DEF f
<1>6. CASE at # {}
  <2> DEFINE m == Median(f)
             k == n \div 2 + 1
             Up == {x \in D : f[x] <= m}
             Spikes == {i \in D : f[i] > 3 * m}
  <2>1. D # {} /\ at = Spikes
    BY <1>6 DEF SpikesIn
  <2>2. n >= 1
    BY <1>3, <2>1, FS_EmptySet
  <2>3. m = Sorted(f, k) /\ k \in Nat /\ 1 <= k /\ k <= n
    BY <1>3, <2>2 DEF Median
  <2>4. m \in Nat /\ Cardinality(Up) >= k
    <3> HIDE DEF k
    <3>1. /\ Sorted(f, k) \in Nat
          /\ Cardinality({x \in DOMAIN f : f[x] <= Sorted(f, k)}) >= k
      BY <1>3, <1>4, <2>3, SortedPosition
    <3> QED
      BY <2>3, <3>1
  <2>5. Spikes \in SUBSET (D \ Up) /\ Up \in SUBSET D
    BY <1>4, <2>4
  <2>6. /\ IsFiniteSet(D \ Up) /\ Cardinality(D \ Up) = n - Cardinality(D \cap Up)
        /\ Cardinality(D \ Up) \in Nat
    BY <1>3, FS_Difference, FS_CardinalityType
  <2>7. D \cap Up = Up /\ Cardinality(Up) \in Nat
    BY <1>3, <2>5, FS_Subset, FS_CardinalityType
  <2>8. Cardinality(Spikes) <= Cardinality(D \ Up) /\ Cardinality(Spikes) \in Nat
    BY <2>5, <2>6, FS_Subset, FS_CardinalityType
  <2> HIDE DEF D, n, Up, Spikes, m, at
  <2>9. 2 * Cardinality(Spikes) < n
    <3>1. Cardinality(D \ Up) = n - Cardinality(Up)
      BY <2>6, <2>7
    <3>2. Cardinality(Spikes) <= n - Cardinality(Up)
      BY <2>8, <3>1
    <3>3. Cardinality(Up) \in Nat /\ Cardinality(Up) >= n \div 2 + 1
      BY <2>4, <2>7
    <3>4. \A a, b, c \in Nat : b <= c - a /\ a >= c \div 2 + 1 => 2 * b < c
      OBVIOUS
    <3> QED
      BY <1>3, <2>8, <3>2, <3>3, <3>4
  <2>10. Max({1, n}) \in Nat /\ Max({1, n}) >= n
    BY <1>3, Larger
  <2>11. 2 * AnalyzeIOSpikes(s).spikes < Max({1, n})
    BY <1>1, <1>3, <2>1, <2>8, <2>9, <2>10
  <2> QED
    BY <2>11 DEF n, D, f
<1> QED
  BY <1>5, <1>6

-----------------------------------------------------------------------------
(* Page faults: what the classifier adds up over all intervals is no more   *)
(* than what the summary adds up over those of positive length, since the   *)
(* rate of an interval of negative length is not positive.                  *)

LEMMA PerTickSign ==
  ASSUME NEW units \in Nat, NEW gap \in Int, gap # 0
  PROVE  /\ PerTick(units, gap) \in Int
         /\ gap > 0 => PerTick(units, gap) \in Nat
         /\ gap < 0 => PerTick(units, gap) <= 0
<1>1. \A a, b \in Nat : a * b \in Nat
  OBVIOUS
<1>2. CASE gap > 0
  <2>1. Scale \div gap \in Nat
    BY <1>2, ScaleAssumption
  <2>2. units * (Scale \div gap) \in Nat
    BY <1>1, <2>1
  <2>3. PerTick(units, gap) = units * (Scale \div gap)
    BY <1>2 DEF PerTick
  <2> QED
    BY <1>2, <2>2, <2>3
<1>3. CASE gap < 0
  <2>1. Scale \div (-gap) \in Nat
    BY <1>3, ScaleAssumption
  <2>2. units * (Scale \div (-gap)) \in Nat
    BY <1>1, <2>1
  <2>3. PerTick(units, gap) = -(units * (Scale \div (-gap)))
    BY <1>3 DEF PerTick
  <2> DEFINE p == units * (Scale \div (-gap))
  <2> HIDE DEF p
  <2>4. p \in Nat /\ PerTick(units, gap) = -p
    BY <2>2, <2>3 DEF p
  <2> QED
    BY <1>3, <2>4
<1> QED
  BY <1>2, <1>3

LEMMA RiseType ==
  ASSUME NEW prev \in Nat, NEW curr \in Nat
  PROVE  Rise(prev, curr) \in Nat /\ (curr >= prev => Rise(prev, curr) <= curr - prev)
<1>1. CASE curr >= prev
  <2> DEFINE d == curr - prev
  <2>1. d \in Nat /\ Rise(prev, curr) = d % Width
    BY <1>1 DEF Rise, Minus
  <2> HIDE DEF d
  <2>2. d % Width \in Nat /\ d % Width <= d
    BY <2>1, WidthAssumption
  <2> QED
    BY <2>1, <2>2 DEF d
<1>2. CASE ~ curr >= prev
  BY <1>2 DEF Rise
<1> QED
  BY <1>1, <1>2

\* A series whose intervals and counters are numbers.
Readable(s) ==
  Len(s) \in Nat /\ \A i \in 1 .. Len(s) : s[i].gap \in Int /\ s[i].flt \in Nat

LEMMA FaultRateSign ==
  ASSUME NEW s, Readable(s), NEW i \in Intervals(s)
  PROVE  /\ FaultRate(s, i) \in Int
         /\ s[i].gap > 0 => FaultRate(s, i) \in Nat
         /\ s[i].gap < 0 => FaultRate(s, i) <= 0
<1>1. i \in 2 .. Len(s) /\ i \in 1 .. Len(s) /\ i - 1 \in 1 .. Len(s) /\ s[i].gap # 0
  BY DEF Readable, Intervals
<1>2. s[i].gap \in Int /\ Rise(s[i - 1].flt, s[i].flt) \in Nat
  BY <1>1, RiseType DEF Readable
<1> QED
  BY <1>1, <1>2, PerTickSign DEF FaultRate

LEMMA FaultsOnTimed ==
  ASSUME NEW s, Readable(s)
  PROVE  /\ Total([i \in Intervals(s) |-> FaultRate(s, i)]) \in Int
         /\ Total([i \in Timed(s) |-> FaultRate(s, i)]) \in Nat
         /\ Total([i \in Intervals(s) |-> FaultRate(s, i)])
              <= Total([i \in Timed(s) |-> FaultRate(s, i)])
<1> DEFINE I == Intervals(s)
           T == Timed(s)
           f == [i \in I |-> FaultRate(s, i)]
           t == [i \in T |-> FaultRate(s, i)]
           g == [i \in I |-> IF i \in T THEN FaultRate(s, i) ELSE 0]
<1>1. /\ T = {i \in I : s[i].gap > 0} /\ IsFiniteSet(I) /\ IsFiniteSet(T)
      /\ T \in SUBSET I
  <2>1. IsFiniteSet(2 .. Len(s)) /\ I \in SUBSET (2 .. Len(s))
    BY FS_Interval DEF Intervals, Readable
  <2>2. T = {i \in I : s[i].gap > 0}
    <3>1. \A i \in 2 .. Len(s) : s[i].gap \in Int
      BY DEF Readable
    <3> QED
      BY <3>1 DEF Timed, Intervals
  <2> QED
    BY <2>1, <2>2, FS_Subset
<1>2. \A i \in I : /\ FaultRate(s, i) \in Int
                   /\ s[i].gap # 0
                   /\ s[i].gap \in Int
                   /\ s[i].gap > 0 => FaultRate(s, i) \in Nat
                   /\ s[i].gap < 0 => FaultRate(s, i) <= 0
  <2>1. \A i \in I : s[i].gap # 0 /\ s[i].gap \in Int
    BY DEF Intervals, Readable
  <2> QED
    BY <2>1, FaultRateSign
<1> HIDE DEF I, T
<1>3. \A i \in I : f[i] \in Int /\ g[i] \in Int /\ f[i] <= g[i]
  <2> TAKE i \in I
  <2>1. CASE i \in T
    BY <1>2, <2>1
  <2>2. CASE i \notin T
    BY <1>1, <1>2, <2>2
  <2> QED
    BY <2>1, <2>2
<1>4. /\ \A i \in T : t[i] \in Nat /\ g[i] = t[i]
      /\ \A i \in I \ T : g[i] = 0
      /\ DOMAIN f = I /\ DOMAIN t = T
  BY <1>1, <1>2
<1> HIDE DEF f, g, t
<1>5. Over(f, I) \in Int /\ Over(f, I) <= Over(g, I)
  BY <1>1, <1>3, OverMonotonic, OverInt
<1>6. Over(g, I) = Over(g, T)
  BY <1>1, <1>3, <1>4, OverPart
<1>7. Over(g, T) = Over(t, T) /\ Over(t, T) \in Nat
  BY <1>1, <1>4, OverAgree, OverNat
<1>8. Total(f) \in Int /\ Total(t) \in Nat /\ Total(f) <= Total(t)
  BY <1>4, <1>5, <1>6, <1>7, TotalIsOver
<1> QED
  BY <1>8 DEF f, t, I, T

-----------------------------------------------------------------------------
(* The alerts of a report *)

AlertNames ==
  {"CPU Throttling", "Memory Pressure", "I/O Saturation", "memory_near_limit",
   "high_major_faults", "memory_leak", "bursty_cpu"}

Has(s, x) == \E k \in DOMAIN s : s[k] = x

LEMMA OneAlert ==
  <<>> \in Seq(AlertNames) /\ \A x \in AlertNames : <<x>> \in Seq(AlertNames)
OBVIOUS

LEMMA HasConcat ==
  ASSUME NEW s \in Seq(AlertNames), NEW t \in Seq(AlertNames), NEW x, Has(s, x) \/ Has(t, x)
  PROVE  s \o t \in Seq(AlertNames) /\ Has(s \o t, x)
<1>1. s \o t \in Seq(AlertNames) /\ DOMAIN (s \o t) = 1 .. Len(s) + Len(t)
  OBVIOUS
<1>2. CASE Has(s, x)
  <2>1. PICK k \in 1 .. Len(s) : s[k] = x
    BY <1>2 DEF Has
  <2>2. k \in 1 .. Len(s) + Len(t) /\ (s \o t)[k] = x
    BY <2>1
  <2> QED
    BY <1>1, <2>2 DEF Has
<1>3. CASE Has(t, x)
  <2>1. PICK k \in 1 .. Len(t) : t[k] = x
    BY <1>3 DEF Has
  <2>2. Len(s) + k \in 1 .. Len(s) + Len(t) /\ (s \o t)[Len(s) + k] = x
    BY <2>1
  <2> QED
    BY <1>1, <2>2 DEF Has
<1> QED
  BY <1>2, <1>3

\* The faults that the classifier looks for: an average rate above the threshold,
\* over a divisor that counts every interval (classifier.go:57-93).
Faulty(s) ==
  /\ Len(s) > 1
  /\ Total([i \in Intervals(s) |-> FaultRate(s, i)]) > 2 * Scale * (Len(s) - 1)

\* A run that is memory-bound by its faults has the alert on faults, whatever
\* the lengths of its intervals and the bottlenecks found (classifier.go:88-93,
\* summary.go:71-74, alert.go:40-46).
THEOREM FaultAlert ==
  ASSUME NEW s, Readable(s), NEW bottlenecks \in Seq(AlertNames), NEW limit, Faulty(s)
  PROVE  \E k \in DOMAIN GenerateAlerts(s, bottlenecks, limit) :
           GenerateAlerts(s, bottlenecks, limit)[k].type = "high_major_faults"
<1> DEFINE n == Len(s) - 1
           all == Total([i \in Intervals(s) |-> FaultRate(s, i)])
           timed == Total([i \in Timed(s) |-> FaultRate(s, i)])
           c == Cardinality(Timed(s))
<1>1. n \in Nat /\ n >= 1
  BY DEF Faulty, Readable
<1>2. all > 2 * Scale * n
  BY DEF Faulty
<1>3. all \in Int /\ timed \in Nat /\ all <= timed
  BY FaultsOnTimed
<1>4. c \in Nat /\ c <= n
  <2>1. IsFiniteSet(2 .. Len(s)) /\ Cardinality(2 .. Len(s)) = n
    BY <1>1, FS_Interval DEF Readable
  <2>2. Timed(s) \in SUBSET (2 .. Len(s))
    BY DEF Timed
  <2> QED
    BY <2>1, <2>2, FS_Subset, FS_CardinalityType
<1> HIDE DEF n, all, timed, c
<1>5. timed > Scale * c
  <2>1. \A a \in Nat : \A b, d \in Nat : b <= d => a * b <= a * d
    OBVIOUS
  <2>2. Scale * c <= Scale * n /\ Scale * n \in Nat /\ Scale * c \in Nat
    BY <1>1, <1>4, <2>1, ScaleAssumption
  <2>3. 2 * Scale * n = 2 * (Scale * n)
    BY <1>1, ScaleAssumption
  <2> QED
    BY <1>2, <1>3, <2>2, <2>3
<1>6. c # 0
  <2> SUFFICES ASSUME c = 0 PROVE FALSE
    OBVIOUS
  <2>1. Timed(s) = {}
    <3>1. IsFiniteSet(Timed(s))
      <4>1. IsFiniteSet(2 .. Len(s)) /\ Timed(s) \in SUBSET (2 .. Len(s))
        BY FS_Interval DEF Timed, Readable
      <4> QED
        BY <4>1, FS_Subset
    <3> QED
      BY <3>1, FS_EmptySet DEF c
  <2>2. timed = 0
    <3>1. DOMAIN [i \in Timed(s) |-> FaultRate(s, i)] = {}
      BY <2>1
    <3> QED
      BY <3>1, TotalIsOver, OverEmpty DEF timed
  <2> QED
    BY <1>5, <2>2, ScaleAssumption
<1> DEFINE f == BuildSummary(s).flt
<1>7. f.sum = timed /\ f.n = c
  <2>1. f = ComputeStats([i \in Timed(s) |-> FaultRate(s, i)])
    BY DEF BuildSummary, Values
  <2>2. DOMAIN [i \in Timed(s) |-> FaultRate(s, i)] = Timed(s)
    OBVIOUS
  <2> QED
    BY <1>6, <2>1, <2>2 DEF ComputeStats, timed, c
<1>8. f.sum > Scale * f.n
  BY <1>5, <1>7
<1> HIDE DEF f
<1> DEFINE near == IF limit > 0 /\ s # <<>> /\ 10 * Last(s).rss > 9 * limit
                     THEN <<"memory_near_limit">> ELSE <<>>
           faults == IF f.sum > Scale * f.n THEN <<"high_major_faults">> ELSE <<>>
           leak == IF DetectMemoryLeak(s).leak THEN <<"memory_leak">> ELSE <<>>
           bursty == IF AnalyzeCPU(s).bursty THEN <<"bursty_cpu">> ELSE <<>>
           types == bottlenecks \o near \o faults \o leak \o bursty
<1>9. GenerateAlerts(s, bottlenecks, limit)
        = [k \in DOMAIN types |-> [type |-> types[k], severity |-> Severity(types[k])]]
  BY DEF GenerateAlerts, f
<1>10. /\ near \in Seq(AlertNames) /\ faults \in Seq(AlertNames) /\ leak \in Seq(AlertNames)
       /\ bursty \in Seq(AlertNames) /\ Has(faults, "high_major_faults")
  <2>1. near \in {<<>>, <<"memory_near_limit">>} /\ faults = <<"high_major_faults">>
    BY <1>8
  <2>2. near \in Seq(AlertNames) /\ faults \in Seq(AlertNames)
    <3>1. "high_major_faults" \in AlertNames /\ "memory_near_limit" \in AlertNames
      BY DEF AlertNames
    <3> HIDE DEF near, faults
    <3> QED
      BY <2>1, <3>1, OneAlert
  <2>3. leak \in {<<>>, <<"memory_leak">>} /\ bursty \in {<<>>, <<"bursty_cpu">>}
    OBVIOUS
  <2>4. leak \in Seq(AlertNames) /\ bursty \in Seq(AlertNames)
    <3>1. {"memory_leak", "bursty_cpu"} \subseteq AlertNames
      BY DEF AlertNames
    <3> HIDE DEF leak, bursty
    <3> QED
      BY <2>3, <3>1, OneAlert
  <2>5. 1 \in DOMAIN faults /\ faults[1] = "high_major_faults"
    BY <2>1
  <2> QED
    BY <2>2, <2>4, <2>5 DEF Has
<1> HIDE DEF near, faults, leak, bursty
<1>11. Has(types, "high_major_faults")
  <2>1. bottlenecks \o near \in Seq(AlertNames)
    BY <1>10
  <2>2. /\ bottlenecks \o near \o faults \in Seq(AlertNames)
        /\ Has(bottlenecks \o near \o faults, "high_major_faults")
    BY <1>10, <2>1, HasConcat
  <2>3. /\ bottlenecks \o near \o faults \o leak \in Seq(AlertNames)
        /\ Has(bottlenecks \o near \o faults \o leak, "high_major_faults")
    BY <1>10, <2>2, HasConcat
  <2> QED
    BY <1>10, <2>3, HasConcat
<1> HIDE DEF types
<1> QED
  BY <1>9, <1>11 DEF Has

\* A memory-bound verdict comes from the faults or from the memory.
LEMMA MemoryVerdict ==
  ASSUME NEW s, NEW limit, Readable(s), Classify(s, limit).type = "Memory-bound"
  PROVE  /\ Len(s) > 1
         /\ \/ Faulty(s)
            \/ /\ limit > 0
               /\ 10 * Total([i \in Intervals(s) |-> s[i].rss]) > 8 * limit * (Len(s) - 1)
<1>1. Len(s) \in Nat /\ Len(s) >= 2 /\ WorkloadOf(s, limit) = "Memory-bound"
  BY DEF Classify, Readable
<1>2. Len(s) > 1
  BY <1>1
<1> QED
  BY <1>1, <1>2 DEF WorkloadOf, Faulty

\* What any samples have of a natural level adds up to no more over those that
\* end an interval of some length than over all but the first.
LEMMA LevelsOnIntervals ==
  ASSUME NEW s, Len(s) \in Nat, NEW f, \A i \in 2 .. Len(s) : f[i] \in Nat
  PROVE  /\ IsFiniteSet(Intervals(s)) /\ Cardinality(Intervals(s)) \in Nat
         /\ Cardinality(Intervals(s)) <= Len(s) - 1 \/ Len(s) = 0
         /\ Over(f, Intervals(s)) \in Nat /\ Over(f, 2 .. Len(s)) \in Nat
         /\ Over(f, Intervals(s)) <= Over(f, 2 .. Len(s))
<1> DEFINE S == 2 .. Len(s)
           I == Intervals(s)
<1>1. IsFiniteSet(S) /\ (Len(s) > 0 => Cardinality(S) = Len(s) - 1)
  BY FS_Interval
<1>2. I \in SUBSET S /\ \A i \in S : f[i] \in Nat
  BY DEF Intervals
<1> HIDE DEF S, I
<1>3. IsFiniteSet(I) /\ Cardinality(I) \in Nat /\ Cardinality(I) <= Cardinality(S)
  BY <1>1, <1>2, FS_Subset, FS_CardinalityType
<1>4. /\ Over(f, I) \in Nat /\ Over(f, S) \in Nat /\ Over(f, I) <= Over(f, S)
  <2>1. \A i \in I : f[i] \in Nat
    BY <1>2
  <2> QED
    BY <1>1, <1>2, <1>3, <2>1, OverNat, OverLarger
<1> QED
  BY <1>1, <1>3, <1>4 DEF S, I

\* A verdict for memory needs a sample near the limit.
LEMMA MemoryNearLimit ==
  ASSUME NEW s, Readable(s), Len(s) > 1, NEW limit \in Nat, limit > 0,
         \A i \in Intervals(s) : ~MemHigh(s, i, limit),
         \A i \in 1 .. Len(s) : s[i].rss \in Nat
  PROVE  ~ 10 * Total([i \in Intervals(s) |-> s[i].rss]) > 8 * limit * (Len(s) - 1)
<1> DEFINE I == Intervals(s)
           n == Len(s) - 1
           k == Cardinality(I)
           f == [i \in I |-> s[i].rss]
           all == [i \in 2 .. Len(s) |-> s[i].rss]
           c == (8 * limit) \div 10
<1>1. Len(s) \in Nat /\ n \in Nat /\ n > 0
  BY DEF Readable
<1>2. /\ c \in Nat /\ 10 * c <= 8 * limit
      /\ \A r \in Nat : ~ 10 * r > 8 * limit => r <= c
  OBVIOUS
<1>3. I \subseteq 1 .. Len(s)
  BY <1>1 DEF Intervals
<1>4. \A i \in I : f[i] = s[i].rss /\ f[i] \in Int /\ f[i] <= c
  <2> TAKE i \in I
  <2>1. s[i].rss \in Nat /\ ~ 10 * s[i].rss > 8 * limit
    BY <1>3 DEF MemHigh
  <2> QED
    BY <1>2, <2>1
<1>5. IsFiniteSet(I) /\ k \in Nat /\ k <= n
  <2>1. \A i \in 2 .. Len(s) : all[i] \in Nat
    OBVIOUS
  <2> HIDE DEF all
  <2>2. IsFiniteSet(I) /\ k \in Nat /\ (k <= Len(s) - 1 \/ Len(s) = 0)
    BY <1>1, <2>1, LevelsOnIntervals
  <2> HIDE DEF I, k
  <2> QED
    BY <1>1, <2>2
<1>6. Total(f) = Over(f, I)
  <2>1. DOMAIN f = I
    OBVIOUS
  <2> QED
    BY <2>1, TotalIsOver
<1> HIDE DEF I, f, c, n, k
<1>7. Over(f, I) \in Int /\ Over(f, I) <= c * k
  BY <1>2, <1>4, <1>5, OverAtMost, OverInt DEF k
<1>8. c * k <= c * n /\ c * k \in Nat /\ c * n \in Nat
  <2>1. \A a \in Nat : \A b, d \in Nat : b <= d => a * b <= a * d /\ a * b \in Nat /\ a * d \in Nat
    OBVIOUS
  <2> QED
    BY <1>1, <1>2, <1>5, <2>1
<1>9. 10 * (c * n) <= 8 * limit * n /\ 8 * limit * n \in Nat
  <2>1. \A a, b, d \in Nat : a <= b => a * d <= b * d /\ b * d \in Nat
    OBVIOUS
  <2>2. (10 * c) * n <= (8 * limit) * n /\ (8 * limit) * n \in Nat
    <3>1. 10 * c \in Nat /\ 8 * limit \in Nat
      BY <1>2
    <3> QED
      BY <1>1, <1>2, <2>1, <3>1
  <2>3. 10 * (c * n) = (10 * c) * n
    BY <1>1, <1>2
  <2> QED
    BY <2>2, <2>3
<1>10. ~ 10 * Total(f) > 8 * limit * n
  <2> DEFINE bound == 8 * limit * n
             product == c * n
  <2> HIDE DEF bound, product
  <2>1. bound \in Nat /\ 10 * product <= bound /\ product \in Nat /\ Over(f, I) <= product
    BY <1>7, <1>8, <1>9 DEF bound, product
  <2>2. ~ 10 * Total(f) > bound
    BY <1>6, <1>7, <2>1
  <2> QED
    BY <2>2 DEF bound
<1> QED
  BY <1>10 DEF f, I, n
=============================================================================
