---------------------------- MODULE TotalsProofs ----------------------------
(***************************************************************************)
(* What the other proofs need to know of Total, for every function from a  *)
(* finite set to the integers.  A fact about all finite sets is proved by  *)
(* looking at a smallest set it would not hold for: LeastNumber and        *)
(* LeastSet give one, and speak of sets rather than of predicates, so that *)
(* they can be cited.                                                      *)
(***************************************************************************)
EXTENDS Totals, FiniteSetTheorems, TLAPS

\* A set of naturals that is not empty has a least element.
LEMMA LeastNumber ==
  ASSUME NEW S \in SUBSET Nat, S # {}
  PROVE  \E n \in S : \A m \in S : n <= m
<1> DEFINE Less == {p \in Nat \X Nat : p[1] < p[2]}
<1>1. IsWellFoundedOn(Less, Nat)
  BY NatLessThanWellFounded, Zenon DEF OpToRel
<1>2. PICK n \in S : \A m \in S : <<m, n>> \notin Less
  BY <1>1, WFMin, Zenon
<1>3. ASSUME NEW m \in S PROVE n <= m
  <2>1. m < n => <<m, n>> \in Less
    OBVIOUS
  <2>2. ~ (m < n)
    BY <1>2, <2>1
  <2> QED
    BY <2>2
<1> QED
  BY <1>3

\* A set of subsets of S that is not empty has one none of whose own subsets,
\* itself apart, is in the set.
LEMMA LeastSet ==
  ASSUME NEW S, IsFiniteSet(S), NEW F \in SUBSET SUBSET S, F # {}
  PROVE  \E T \in F : IsFiniteSet(T) /\ \A x \in T : T \ {x} \notin F
<1> DEFINE Sizes == {Cardinality(T) : T \in F}
<1>1. \A T \in F : IsFiniteSet(T) /\ Cardinality(T) \in Nat
  BY FS_Subset, FS_CardinalityType
<1>2. PICK n \in Sizes : \A m \in Sizes : n <= m
  <2>1. Sizes \in SUBSET Nat /\ Sizes # {}
    BY <1>1
  <2> HIDE DEF Sizes
  <2> QED
    BY <2>1, LeastNumber
<1>3. PICK T \in F : Cardinality(T) = n
  BY <1>2
<1>4. ASSUME NEW x \in T PROVE T \ {x} \notin F
  <2>1. Cardinality(T \ {x}) = Cardinality(T) - 1
    BY <1>1, FS_RemoveElement
  <2>2. T \ {x} \in F => n <= Cardinality(T \ {x})
    BY <1>2
  <2> QED
    BY <1>1, <1>3, <2>1, <2>2
<1> QED
  BY <1>1, <1>4

-----------------------------------------------------------------------------
(* The fold behind Total. *)

Pick(T) == CHOOSE x \in T : TRUE

\* g has the sum of f over every subset of S.
Adds(g, f, S) ==
  g = [T \in SUBSET S |-> IF T = {} THEN 0 ELSE f[Pick(T)] + g[T \ {Pick(T)}]]

LEMMA PickIsElement == ASSUME NEW T, T # {} PROVE Pick(T) \in T
BY DEF Pick

\* The sums over the sets of at most n elements can be had for every n.
LEMMA FoldExists ==
  ASSUME NEW f, NEW S, IsFiniteSet(S)
  PROVE  \E g : Adds(g, f, S)
<1> DEFINE Upto(n) == {T \in SUBSET S : Cardinality(T) <= n}
           Value(g, T) == IF T = {} THEN 0 ELSE f[Pick(T)] + g[T \ {Pick(T)}]
           Good == {n \in Nat : \E g : g = [T \in Upto(n) |-> Value(g, T)]}
           Bad == Nat \ Good
<1>1. \A T \in SUBSET S : IsFiniteSet(T) /\ Cardinality(T) \in Nat
  BY FS_Subset, FS_CardinalityType
<1>2. 0 \in Good
  <2> DEFINE g == [T \in Upto(0) |-> 0]
  <2>1. \A T \in Upto(0) : T = {}
    BY <1>1, FS_EmptySet
  <2>2. g = [T \in Upto(0) |-> Value(g, T)]
    BY <2>1
  <2> QED
    BY <2>2
<1>3. ASSUME NEW n \in Good PROVE n + 1 \in Good
  <2> DEFINE N == n + 1
  <2>1. PICK g : g = [T \in Upto(n) |-> Value(g, T)]
    BY <1>3
  <2> DEFINE h == [T \in Upto(N) |-> Value(g, T)]
  <2>2. ASSUME NEW T \in Upto(N), T # {} PROVE T \ {Pick(T)} \in Upto(n)
    <3>1. Cardinality(T \ {Pick(T)}) = Cardinality(T) - 1
      BY <1>1, <2>2, PickIsElement, FS_RemoveElement
    <3> QED
      BY <1>1, <2>2, <3>1
  <2>3. Upto(n) \subseteq Upto(N)
    BY <1>1
  <2>4. \A T \in Upto(n) : h[T] = g[T]
    BY <2>1, <2>3
  <2>5. \A T \in Upto(N) : Value(g, T) = Value(h, T)
    BY <2>2, <2>4
  <2>6. h = [T \in Upto(N) |-> Value(h, T)]
    <3> HIDE DEF Value
    <3> QED
      BY <2>5
  <2> HIDE DEF h, Upto, Value
  <2>7. N \in Nat /\ \E k : k = [T \in Upto(N) |-> Value(k, T)]
    BY <2>6
  <2> QED
    BY <2>7
<1>4. Bad = {}
  <2> SUFFICES ASSUME Bad # {} PROVE FALSE
    OBVIOUS
  <2>1. PICK n \in Bad : \A m \in Bad : n <= m
    BY LeastNumber
  <2> HIDE DEF Good
  <2>2. n # 0 /\ n - 1 \in Nat /\ n - 1 \notin Bad
    BY <1>2, <2>1
  <2>3. (n - 1) + 1 \in Good
    BY <1>3, <2>2
  <2> QED
    BY <2>1, <2>2, <2>3
<1>5. Cardinality(S) \in Nat /\ Upto(Cardinality(S)) = SUBSET S
  BY <1>1, FS_Subset
<1>6. \E g : g = [T \in Upto(Cardinality(S)) |-> Value(g, T)]
  BY <1>4, <1>5
<1> QED
  BY <1>5, <1>6 DEF Adds

\* The sum of f over S, a subset of its domain.
Over(f, S) == FoldFunctionOnSet(+, 0, f, S)

LEMMA OverIsFold ==
  ASSUME NEW f, NEW S, IsFiniteSet(S)
  PROVE  \E g : Adds(g, f, S) /\ Over(f, S) = g[S]
<1> DEFINE g == CHOOSE g : Adds(g, f, S)
<1>1. Adds(g, f, S)
  BY FoldExists
<1>2. Over(f, S) = g[S]
  BY DEF Over, FoldFunctionOnSet, MapThenFoldSet, Adds, Pick
<1> QED
  BY <1>1, <1>2

\* Two such sums agree where the functions do.
LEMMA FoldsAgree ==
  ASSUME NEW S, IsFiniteSet(S), NEW U \in SUBSET S, NEW f, NEW g, NEW e, NEW h,
         Adds(g, f, S), Adds(h, e, U), \A x \in U : e[x] = f[x]
  PROVE  g[U] = h[U]
<1> DEFINE Bad == {T \in SUBSET U : g[T] # h[T]}
<1> SUFFICES ASSUME Bad # {} PROVE FALSE
  OBVIOUS
<1>1. PICK T \in Bad : \A x \in T : T \ {x} \notin Bad
  <2>1. Bad \in SUBSET SUBSET U /\ IsFiniteSet(U)
    BY FS_Subset
  <2> QED
    BY <2>1, LeastSet
<1>2. T # {}
  BY <1>1 DEF Adds
<1> DEFINE p == Pick(T)
<1>3. p \in T /\ T \ {p} \in SUBSET U
  BY <1>2, PickIsElement
<1>4. g[T] = f[p] + g[T \ {p}] /\ h[T] = e[p] + h[T \ {p}]
  BY <1>2 DEF Adds
<1>5. g[T \ {p}] = h[T \ {p}] /\ e[p] = f[p]
  BY <1>1, <1>3
<1> QED
  BY <1>4, <1>5

LEMMA FoldInt ==
  ASSUME NEW S, IsFiniteSet(S), NEW f, \A x \in S : f[x] \in Int, NEW g, Adds(g, f, S)
  PROVE  \A T \in SUBSET S : g[T] \in Int
<1> DEFINE Bad == {T \in SUBSET S : g[T] \notin Int}
<1> SUFFICES ASSUME Bad # {} PROVE FALSE
  OBVIOUS
<1>1. PICK T \in Bad : \A x \in T : T \ {x} \notin Bad
  BY LeastSet
<1>2. T # {}
  BY DEF Adds
<1>3. Pick(T) \in T /\ g[T \ {Pick(T)}] \in Int
  BY <1>1, <1>2, PickIsElement
<1>4. g[T] = f[Pick(T)] + g[T \ {Pick(T)}]
  BY <1>2 DEF Adds
<1> QED
  BY <1>3, <1>4

\* The order in which the elements are taken does not matter.
LEMMA FoldAnyOrder ==
  ASSUME NEW S, IsFiniteSet(S), NEW f, \A x \in S : f[x] \in Int, NEW g, Adds(g, f, S)
  PROVE  \A T \in SUBSET S : \A x \in T : g[T] = f[x] + g[T \ {x}]
<1> DEFINE Bad == {T \in SUBSET S : ~ \A x \in T : g[T] = f[x] + g[T \ {x}]}
<1> SUFFICES ASSUME Bad # {} PROVE FALSE
  OBVIOUS
<1>1. PICK T \in Bad : \A x \in T : T \ {x} \notin Bad
  BY LeastSet
<1>2. PICK x \in T : g[T] # f[x] + g[T \ {x}]
  OBVIOUS
<1> DEFINE p == Pick(T)
           rest == (T \ {p}) \ {x}
<1>3. p \in T /\ g[T] = f[p] + g[T \ {p}]
  BY PickIsElement DEF Adds
<1>4. p # x /\ rest = (T \ {x}) \ {p}
  BY <1>2, <1>3
<1>5. g[T \ {p}] = f[x] + g[rest] /\ g[T \ {x}] = f[p] + g[rest]
  <2>1. \A y \in T : \A z \in T \ {y} : g[T \ {y}] = f[z] + g[(T \ {y}) \ {z}]
    BY <1>1
  <2>2. x \in T \ {p} /\ p \in T \ {x}
    BY <1>3, <1>4
  <2>3. g[T \ {p}] = f[x] + g[(T \ {p}) \ {x}] /\ g[T \ {x}] = f[p] + g[(T \ {x}) \ {p}]
    <3> HIDE DEF p, Bad
    <3> QED
      BY <1>3, <2>1, <2>2
  <2> QED
    BY <1>4, <2>3
<1>6. f[x] \in Int /\ f[p] \in Int /\ g[rest] \in Int
  BY <1>3, FoldInt
<1> QED
  BY <1>2, <1>3, <1>5, <1>6

-----------------------------------------------------------------------------
(* The facts about sums over a set. *)

LEMMA OverEmpty == ASSUME NEW f PROVE Over(f, {}) = 0
<1>1. PICK g : Adds(g, f, {}) /\ Over(f, {}) = g[{}]
  BY OverIsFold, FS_EmptySet
<1>2. g[{}] = 0
  BY <1>1 DEF Adds
<1> QED
  BY <1>1, <1>2

LEMMA OverInt ==
  ASSUME NEW S, IsFiniteSet(S), NEW f, \A x \in S : f[x] \in Int
  PROVE  Over(f, S) \in Int
BY OverIsFold, FoldInt

\* Only the values on the set matter.
LEMMA OverAgree ==
  ASSUME NEW S, IsFiniteSet(S), NEW f, NEW g, \A x \in S : f[x] = g[x]
  PROVE  Over(f, S) = Over(g, S)
<1>1. PICK h : Adds(h, f, S) /\ Over(f, S) = h[S]
  BY OverIsFold
<1>2. PICK k : Adds(k, g, S) /\ Over(g, S) = k[S]
  BY OverIsFold
<1>3. h[S] = k[S]
  BY <1>1, <1>2, FoldsAgree
<1> QED
  BY <1>1, <1>2, <1>3

\* Any element can be taken out.
LEMMA OverRemove ==
  ASSUME NEW S, IsFiniteSet(S), NEW f, \A x \in S : f[x] \in Int, NEW x \in S
  PROVE  Over(f, S) = f[x] + Over(f, S \ {x})
<1> DEFINE U == S \ {x}
<1>1. PICK g : Adds(g, f, S) /\ Over(f, S) = g[S]
  BY OverIsFold
<1>2. U \in SUBSET S /\ IsFiniteSet(U)
  BY FS_Subset
<1>3. PICK h : Adds(h, f, U) /\ Over(f, U) = h[U]
  BY <1>2, OverIsFold
<1>4. g[U] = h[U]
  BY <1>1, <1>2, <1>3, FoldsAgree
<1>5. g[S] = f[x] + g[U]
  BY <1>1, FoldAnyOrder
<1> QED
  BY <1>1, <1>3, <1>4, <1>5

LEMMA OverMonotonic ==
  ASSUME NEW S, IsFiniteSet(S), NEW f, NEW g,
         \A x \in S : f[x] \in Int /\ g[x] \in Int /\ f[x] <= g[x]
  PROVE  Over(f, S) <= Over(g, S)
<1> DEFINE Bad == {T \in SUBSET S : ~ Over(f, T) <= Over(g, T)}
<1> SUFFICES ASSUME Bad # {} PROVE FALSE
  OBVIOUS
<1>1. PICK T \in Bad : IsFiniteSet(T) /\ \A x \in T : T \ {x} \notin Bad
  BY LeastSet
<1>2. PICK x \in T : TRUE
  <2>1. T # {}
    BY OverEmpty
  <2> QED
    BY <2>1
<1>3. T \in SUBSET S /\ ~ Over(f, T) <= Over(g, T)
  OBVIOUS
<1>4. Over(f, T \ {x}) <= Over(g, T \ {x})
  BY <1>1, <1>3
<1>5. Over(f, T) = f[x] + Over(f, T \ {x}) /\ Over(g, T) = g[x] + Over(g, T \ {x})
  BY <1>1, <1>3, OverRemove
<1>6. Over(f, T \ {x}) \in Int /\ Over(g, T \ {x}) \in Int
  BY <1>1, <1>3, FS_RemoveElement, OverInt
<1> QED
  BY <1>3, <1>4, <1>5, <1>6

\* Two sums added up at once.
LEMMA OverPlus ==
  ASSUME NEW S, IsFiniteSet(S), NEW f, NEW g, NEW h,
         \A x \in S : f[x] \in Int /\ g[x] \in Int /\ h[x] = f[x] + g[x]
  PROVE  Over(h, S) = Over(f, S) + Over(g, S)
<1> DEFINE Bad == {T \in SUBSET S : Over(h, T) # Over(f, T) + Over(g, T)}
<1> SUFFICES ASSUME Bad # {} PROVE FALSE
  OBVIOUS
<1>1. PICK T \in Bad : IsFiniteSet(T) /\ \A x \in T : T \ {x} \notin Bad
  BY LeastSet
<1>2. PICK x \in T : TRUE
  <2>1. Over(f, {}) = 0 /\ Over(g, {}) = 0 /\ Over(h, {}) = 0
    BY OverEmpty
  <2>2. T # {}
    <3> SUFFICES ASSUME T = {} PROVE FALSE
      OBVIOUS
    <3>1. Over(h, {}) # Over(f, {}) + Over(g, {})
      OBVIOUS
    <3> QED
      BY <2>1, <3>1
  <2> QED
    BY <2>2
<1>3. T \in SUBSET S /\ Over(h, T) # Over(f, T) + Over(g, T)
  OBVIOUS
<1>4. Over(h, T \ {x}) = Over(f, T \ {x}) + Over(g, T \ {x})
  BY <1>1, <1>3
<1>5. /\ Over(f, T) = f[x] + Over(f, T \ {x}) /\ Over(g, T) = g[x] + Over(g, T \ {x})
      /\ Over(h, T) = h[x] + Over(h, T \ {x})
  BY <1>1, <1>3, OverRemove
<1>6. Over(f, T \ {x}) \in Int /\ Over(g, T \ {x}) \in Int
  BY <1>1, <1>3, FS_RemoveElement, OverInt
<1> QED
  BY <1>3, <1>4, <1>5, <1>6

LEMMA OverZero ==
  ASSUME NEW S, IsFiniteSet(S), NEW f, \A x \in S : f[x] = 0
  PROVE  Over(f, S) = 0
<1>1. Over(f, S) = Over(f, S) + Over(f, S)
  BY OverPlus
<1> QED
  BY <1>1, OverInt

LEMMA OverNat ==
  ASSUME NEW S, IsFiniteSet(S), NEW f, \A x \in S : f[x] \in Nat
  PROVE  Over(f, S) \in Nat
<1> DEFINE zero == [x \in S |-> 0]
<1>1. Over(zero, S) = 0
  BY OverZero
<1>2. Over(zero, S) <= Over(f, S)
  BY OverMonotonic
<1> QED
  BY <1>1, <1>2, OverInt

\* What is 0 may be left out.
LEMMA OverPart ==
  ASSUME NEW S, IsFiniteSet(S), NEW f, \A x \in S : f[x] \in Int,
         NEW T \in SUBSET S, \A x \in S \ T : f[x] = 0
  PROVE  Over(f, S) = Over(f, T)
<1> DEFINE Bad == {U \in SUBSET S : T \subseteq U /\ Over(f, U) # Over(f, T)}
<1> SUFFICES ASSUME Bad # {} PROVE FALSE
  OBVIOUS
<1>1. PICK U \in Bad : IsFiniteSet(U) /\ \A x \in U : U \ {x} \notin Bad
  <2>1. Bad \in SUBSET SUBSET S
    OBVIOUS
  <2> HIDE DEF Bad
  <2> QED
    BY <2>1, LeastSet
<1>2. PICK x \in U \ T : TRUE
  OBVIOUS
<1>3. Over(f, U \ {x}) = Over(f, T)
  BY <1>1, <1>2
<1>4. Over(f, U) = f[x] + Over(f, U \ {x})
  BY <1>1, <1>2, OverRemove
<1>5. f[x] = 0 /\ Over(f, T) \in Int
  BY <1>2, FS_Subset, OverInt
<1> QED
  BY <1>3, <1>4, <1>5

\* Natural values add up to no less over a larger set.
LEMMA OverLarger ==
  ASSUME NEW S, IsFiniteSet(S), NEW f, \A x \in S : f[x] \in Nat, NEW T \in SUBSET S
  PROVE  Over(f, T) <= Over(f, S)
<1> DEFINE e == [x \in S |-> IF x \in T THEN f[x] ELSE 0]
<1>1. /\ \A x \in S : e[x] \in Int /\ f[x] \in Int /\ e[x] <= f[x]
      /\ \A x \in S \ T : e[x] = 0
      /\ \A x \in T : e[x] = f[x]
  OBVIOUS
<1> HIDE DEF e
<1>2. IsFiniteSet(T)
  BY FS_Subset
<1>3. Over(e, S) = Over(e, T)
  BY <1>1, OverPart
<1>4. Over(e, T) = Over(f, T)
  BY <1>1, <1>2, OverAgree
<1>5. Over(e, S) <= Over(f, S)
  BY <1>1, OverMonotonic
<1> QED
  BY <1>3, <1>4, <1>5

\* A sum of values that are at least c, and of values that are at most c.
LEMMA OverAtLeast ==
  ASSUME NEW S, IsFiniteSet(S), NEW f, NEW c, c \in Nat,
         \A x \in S : f[x] \in Int /\ f[x] >= c
  PROVE  Over(f, S) >= c * Cardinality(S)
<1> DEFINE Bad == {T \in SUBSET S : ~ Over(f, T) >= c * Cardinality(T)}
<1> SUFFICES ASSUME Bad # {} PROVE FALSE
  <2>1. S \notin Bad
    OBVIOUS
  <2> HIDE DEF Bad
  <2>2. S \notin Bad => Over(f, S) >= c * Cardinality(S)
    BY DEF Bad
  <2> QED
    BY <2>1, <2>2
<1>1. PICK T \in Bad : IsFiniteSet(T) /\ \A x \in T : T \ {x} \notin Bad
  BY LeastSet
<1>2. T \in SUBSET S /\ ~ Over(f, T) >= c * Cardinality(T)
  OBVIOUS
<1> DEFINE k == Cardinality(T)
<1>3. T # {}
  <2> SUFFICES ASSUME T = {} PROVE FALSE
    OBVIOUS
  <2>1. Over(f, T) = 0 /\ Cardinality(T) = 0
    BY OverEmpty, FS_EmptySet
  <2> QED
    BY <1>2, <2>1
<1>4. PICK x \in T : TRUE
  BY <1>3
<1>5. k \in Nat /\ Cardinality(T \ {x}) = k - 1
  BY <1>1, FS_CardinalityType, FS_RemoveElement
<1>6. Over(f, T \ {x}) >= c * (k - 1)
  BY <1>1, <1>2, <1>5
<1>7. Over(f, T) = f[x] + Over(f, T \ {x}) /\ f[x] \in Int /\ f[x] >= c
  BY <1>1, <1>2, OverRemove
<1>8. Over(f, T \ {x}) \in Int
  BY <1>1, <1>2, FS_RemoveElement, OverInt
<1> HIDE DEF k
<1>9. c * (k - 1) = c * k - c /\ c * k \in Int
  BY <1>5
<1>10. Over(f, T) >= c * k
  BY <1>6, <1>7, <1>8, <1>9
<1> QED
  BY <1>2, <1>10 DEF k

LEMMA OverAtMost ==
  ASSUME NEW S, IsFiniteSet(S), NEW f, NEW c, c \in Nat,
         \A x \in S : f[x] \in Int /\ f[x] <= c
  PROVE  Over(f, S) <= c * Cardinality(S)
<1> DEFINE Bad == {T \in SUBSET S : ~ Over(f, T) <= c * Cardinality(T)}
<1> SUFFICES ASSUME Bad # {} PROVE FALSE
  <2>1. S \notin Bad
    OBVIOUS
  <2> HIDE DEF Bad
  <2>2. S \notin Bad => Over(f, S) <= c * Cardinality(S)
    BY DEF Bad
  <2> QED
    BY <2>1, <2>2
<1>1. PICK T \in Bad : IsFiniteSet(T) /\ \A x \in T : T \ {x} \notin Bad
  BY LeastSet
<1>2. T \in SUBSET S /\ ~ Over(f, T) <= c * Cardinality(T)
  OBVIOUS
<1> DEFINE k == Cardinality(T)
<1>3. T # {}
  <2> SUFFICES ASSUME T = {} PROVE FALSE
    OBVIOUS
  <2>1. Over(f, T) = 0 /\ Cardinality(T) = 0
    BY OverEmpty, FS_EmptySet
  <2> QED
    BY <1>2, <2>1
<1>4. PICK x \in T : TRUE
  BY <1>3
<1>5. k \in Nat /\ Cardinality(T \ {x}) = k - 1
  BY <1>1, FS_CardinalityType, FS_RemoveElement
<1>6. Over(f, T \ {x}) <= c * (k - 1)
  BY <1>1, <1>2, <1>5
<1>7. Over(f, T) = f[x] + Over(f, T \ {x}) /\ f[x] \in Int /\ f[x] <= c
  BY <1>1, <1>2, OverRemove
<1>8. Over(f, T \ {x}) \in Int
  BY <1>1, <1>2, FS_RemoveElement, OverInt
<1> HIDE DEF k
<1>9. c * (k - 1) = c * k - c /\ c * k \in Int
  BY <1>5
<1>10. Over(f, T) <= c * k
  BY <1>6, <1>7, <1>8, <1>9
<1> QED
  BY <1>2, <1>10 DEF k

\* Two functions that differ at one point.
LEMMA OverChange ==
  ASSUME NEW S, IsFiniteSet(S), NEW f, NEW g, NEW x \in S, f[x] \in Int, g[x] \in Int,
         \A y \in S \ {x} : f[y] \in Int /\ g[y] = f[y]
  PROVE  Over(g, S) = (Over(f, S) - f[x]) + g[x]
<1>1. Over(f, S) = f[x] + Over(f, S \ {x}) /\ Over(g, S) = g[x] + Over(g, S \ {x})
  BY OverRemove
<1>2. IsFiniteSet(S \ {x})
  BY FS_RemoveElement
<1>3. Over(g, S \ {x}) = Over(f, S \ {x}) /\ Over(f, S \ {x}) \in Int
  BY <1>2, OverAgree, OverInt
<1> QED
  BY <1>1, <1>3

\* One more at the end of a sequence.
LEMMA OverNext ==
  ASSUME NEW n \in Nat, NEW f, NEW g, g[n + 1] \in Int,
         \A i \in 1 .. n : f[i] \in Int /\ g[i] = f[i]
  PROVE  Over(g, 1 .. n + 1) = Over(f, 1 .. n) + g[n + 1]
<1>1. IsFiniteSet(1 .. n) /\ IsFiniteSet(1 .. n + 1)
  BY FS_Interval
<1>2. (1 .. n + 1) \ {n + 1} = 1 .. n /\ n + 1 \in 1 .. n + 1
  OBVIOUS
<1>3. Over(g, 1 .. n + 1) = g[n + 1] + Over(g, 1 .. n)
  <2>1. \A i \in 1 .. n + 1 : g[i] \in Int
    BY <1>2
  <2> QED
    BY <1>1, <1>2, <2>1, OverRemove
<1>4. Over(g, 1 .. n) = Over(f, 1 .. n) /\ Over(f, 1 .. n) \in Int
  BY <1>1, OverAgree, OverInt
<1> QED
  BY <1>3, <1>4

-----------------------------------------------------------------------------

LEMMA TotalIsOver == ASSUME NEW f PROVE Total(f) = Over(f, DOMAIN f)
BY DEF Total, FoldFunction, Over
=============================================================================
