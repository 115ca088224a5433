------------------------------ MODULE FiniteSums ------------------------------
(***************************************************************************)
(* What MapThenSumSet computes.  It is a fold, and so a recursive function *)
(* on the subsets of a set; what is needed of it here follows by looking   *)
(* at a smallest subset for which it would be wrong.  The ranks of the     *)
(* elements of a finite order are counted the same way.                    *)
(***************************************************************************)
EXTENDS FiniteSetsExt, FiniteSetTheorems, Integers, TLAPS

SumOf(f, S) == MapThenSumSet(LAMBDA x : f[x], S)

\* g is what the fold computes for each subset of S.
FoldsOver(g, f, S) ==
    g = [s \in SUBSET S |->
            IF s = {} THEN 0
            ELSE f[CHOOSE x \in s : TRUE] + g[s \ {CHOOSE x \in s : TRUE}]]

-----------------------------------------------------------------------------
(* Least elements *)

LEMMA LeastNumber ==
    ASSUME NEW T \in SUBSET Nat, T # {}
    PROVE  \E n \in T : \A m \in T : n <= m
<1>1. PICK n \in T : \A m \in T : <<m, n>> \notin OpToRel(<, Nat)
  BY NatLessThanWellFounded, WFMin
<1>2. \A m \in T : ~(m < n)
  BY <1>1 DEF OpToRel
<1> QED BY <1>2

LEMMA Counting ==
    ASSUME NEW G, 0 \in G, \A n \in Nat : n \in G => n + 1 \in G
    PROVE  \A n \in Nat : n \in G
<1> SUFFICES ASSUME Nat \ G # {} PROVE FALSE
  OBVIOUS
<1>1. PICK n \in Nat \ G : \A m \in Nat \ G : n <= m
  BY LeastNumber
<1>2. n - 1 \in Nat /\ n - 1 \notin Nat \ G
  BY <1>1
<1>3. (n - 1) + 1 \in G
  BY <1>2
<1> QED BY <1>1, <1>3

\* What holds of a set whenever it does of its proper subsets holds of all.
LEMMA BySubsets ==
    ASSUME NEW S, IsFiniteSet(S), NEW G,
           \A T \in SUBSET S : (\A U \in SUBSET T : U # T => U \in G) => T \in G
    PROVE  \A T \in SUBSET S : T \in G
<1> DEFINE B == (SUBSET S) \ G
<1> SUFFICES ASSUME B # {} PROVE FALSE
  OBVIOUS
<1>1. IsWellFoundedOn(StrictSubsetOrdering(S), SUBSET S)
  <2>1. IsWellFoundedOn(StrictSubsetOrdering(S), FiniteSubsetsOf(S))
    BY FS_StrictSubsetOrderingWellFounded
  <2>2. FiniteSubsetsOf(S) = SUBSET S
    BY FS_FiniteSubsetsOfFinite
  <2> QED BY <2>1, <2>2
<1>2. B \subseteq SUBSET S
  OBVIOUS
<1>3. PICK T \in B : \A U \in B : <<U, T>> \notin StrictSubsetOrdering(S)
  <2> HIDE DEF B
  <2> QED BY <1>1, <1>2, WFMin
<1>4. \A U \in SUBSET T : U # T => U \in G
  <2> SUFFICES ASSUME NEW U \in SUBSET T, U # T, U \notin G PROVE FALSE
    OBVIOUS
  <2>1. U \in B
    BY <1>3
  <2>2. <<U, T>> \in (SUBSET S) \X (SUBSET S)
    BY <1>3, <2>1
  <2>3. <<U, T>> \in StrictSubsetOrdering(S)
    BY <2>2 DEF StrictSubsetOrdering
  <2> QED BY <1>3, <2>1, <2>3
<1> QED BY <1>3, <1>4

-----------------------------------------------------------------------------
(* The fold *)

LEMMA FoldExists ==
    ASSUME NEW S, IsFiniteSet(S), NEW f
    PROVE  \E g : FoldsOver(g, f, S)
<1> DEFINE Pick(s) == CHOOSE x \in s : TRUE
           Sub(n) == {t \in SUBSET S : Cardinality(t) <= n}
           To(g, n) == \A t \in Sub(n) :
                          g[t] = IF t = {} THEN 0 ELSE f[Pick(t)] + g[t \ {Pick(t)}]
           G == {n \in Nat : \E g : To(g, n)}
<1>1. \A t \in SUBSET S : IsFiniteSet(t) /\ Cardinality(t) \in Nat
  BY FS_Subset, FS_CardinalityType
<1>2. \A t \in SUBSET S : t # {} =>
        /\ t \ {Pick(t)} \in SUBSET S
        /\ Cardinality(t \ {Pick(t)}) = Cardinality(t) - 1
  <2> SUFFICES ASSUME NEW t \in SUBSET S, t # {}
               PROVE  Cardinality(t \ {Pick(t)}) = Cardinality(t) - 1
    OBVIOUS
  <2>1. Pick(t) \in t
    OBVIOUS
  <2> HIDE DEF Pick
  <2> QED BY <1>1, <2>1, FS_RemoveElement
<1> HIDE DEF Pick
<1>3. 0 \in G
  <2> DEFINE g == [t \in SUBSET S |-> 0]
  <2>1. \A t \in Sub(0) : t = {}
    BY <1>1, FS_EmptySet
  <2>2. To(g, 0)
    BY <2>1
  <2> QED BY <2>2
<1>4. ASSUME NEW n \in Nat, n \in G PROVE n + 1 \in G
  <2>1. PICK g : To(g, n)
    BY <1>4
  <2> DEFINE h == [t \in SUBSET S |->
                    IF Cardinality(t) <= n THEN g[t] ELSE f[Pick(t)] + g[t \ {Pick(t)}]]
  <2>2. \A t \in Sub(n) : h[t] = g[t]
    OBVIOUS
  <2>3. \A t \in Sub(n + 1) : t # {} => t \ {Pick(t)} \in Sub(n)
    BY <1>1, <1>2
  <2>4. ASSUME NEW t \in Sub(n + 1)
        PROVE  h[t] = IF t = {} THEN 0 ELSE f[Pick(t)] + h[t \ {Pick(t)}]
    <3>1. CASE t \in Sub(n)
      <4>1. h[t] = IF t = {} THEN 0 ELSE f[Pick(t)] + g[t \ {Pick(t)}]
        <5> HIDE DEF h, Sub
        <5> QED BY <2>1, <2>2, <3>1
      <4> HIDE DEF h, Sub
      <4> QED BY <2>2, <2>3, <4>1
    <3>2. CASE t \notin Sub(n)
      <4>1. t # {}
        BY <3>2, FS_EmptySet
      <4>2. h[t] = f[Pick(t)] + g[t \ {Pick(t)}]
        BY <3>2
      <4> HIDE DEF h, Sub
      <4> QED BY <2>2, <2>3, <4>1, <4>2
    <3> QED BY <3>1, <3>2
  <2> HIDE DEF h, Sub
  <2>5. To(h, n + 1)
    BY <2>4
  <2> HIDE DEF To
  <2>6. \E i : To(i, n + 1)
    BY <2>5
  <2> QED BY <2>6
<1> HIDE DEF G
<1>5. Cardinality(S) \in G
  BY <1>1, <1>3, <1>4, Counting
<1>6. PICK g : To(g, Cardinality(S))
  BY <1>5 DEF G
<1>7. Sub(Cardinality(S)) = SUBSET S
  BY FS_Subset
<1> DEFINE h == [t \in SUBSET S |-> g[t]]
<1>8. \A t \in SUBSET S : h[t] = IF t = {} THEN 0 ELSE f[Pick(t)] + h[t \ {Pick(t)}]
  <2> HIDE DEF Sub
  <2> QED BY <1>2, <1>6, <1>7
<1>9. h = [t \in SUBSET S |-> IF t = {} THEN 0 ELSE f[Pick(t)] + h[t \ {Pick(t)}]]
  BY <1>8
<1> HIDE DEF h
<1>10. FoldsOver(h, f, S)
  BY <1>9 DEF FoldsOver, Pick
<1> QED BY <1>10

LEMMA FoldStep ==
    ASSUME NEW S, NEW f, NEW g, FoldsOver(g, f, S)
    PROVE  /\ g[{}] = 0
           /\ \A t \in SUBSET S : t # {} =>
                \E x \in t : x = (CHOOSE y \in t : TRUE) /\ g[t] = f[x] + g[t \ {x}]
<1>1. \A t \in SUBSET S :
        g[t] = IF t = {} THEN 0
               ELSE f[CHOOSE x \in t : TRUE] + g[t \ {CHOOSE x \in t : TRUE}]
  BY DEF FoldsOver
<1>2. g[{}] = 0
  BY <1>1
<1>3. ASSUME NEW t \in SUBSET S, t # {}
      PROVE  \E x \in t : x = (CHOOSE y \in t : TRUE) /\ g[t] = f[x] + g[t \ {x}]
  <2>1. (CHOOSE y \in t : TRUE) \in t
    BY <1>3
  <2>2. g[t] = f[CHOOSE x \in t : TRUE] + g[t \ {CHOOSE x \in t : TRUE}]
    BY <1>1, <1>3
  <2> QED BY <2>1, <2>2
<1> QED BY <1>2, <1>3

\* Which set it folds over makes no difference to the sum of a subset.
LEMMA FoldUnique ==
    ASSUME NEW S, IsFiniteSet(S), NEW R, NEW f, NEW e, NEW g, NEW h, R \subseteq S,
           FoldsOver(g, f, S), FoldsOver(h, e, R), \A x \in R : e[x] = f[x]
    PROVE  \A t \in SUBSET R : g[t] = h[t]
<1> DEFINE G == {t \in SUBSET R : g[t] = h[t]}
<1>1. ASSUME NEW t \in SUBSET R, \A u \in SUBSET t : u # t => u \in G
      PROVE  t \in G
  <2>1. CASE t = {}
    BY <2>1, FoldStep
  <2>2. CASE t # {}
    <3>1. PICK x \in t : x = (CHOOSE y \in t : TRUE) /\ g[t] = f[x] + g[t \ {x}]
      BY <2>2, FoldStep
    <3>2. PICK z \in t : z = (CHOOSE y \in t : TRUE) /\ h[t] = e[z] + h[t \ {z}]
      BY <2>2, FoldStep
    <3>3. x = z /\ e[x] = f[x]
      BY <3>1, <3>2
    <3>4. t \ {x} \in SUBSET t /\ t \ {x} # t
      OBVIOUS
    <3>5. t \ {x} \in G
      BY <1>1, <3>4
    <3> QED BY <3>1, <3>2, <3>3, <3>5
  <2> QED BY <2>1, <2>2
<1>2. IsFiniteSet(R)
  BY FS_Subset
<1> HIDE DEF G
<1>3. \A t \in SUBSET R : t \in G
  BY <1>1, <1>2, BySubsets
<1> QED BY <1>3 DEF G

\* The sum of a set is what any such function says of it.
LEMMA SumIsFold ==
    ASSUME NEW S, IsFiniteSet(S), NEW f, NEW g, FoldsOver(g, f, S)
    PROVE  \A t \in SUBSET S : SumOf(f, t) = g[t]
<1> SUFFICES ASSUME NEW t \in SUBSET S PROVE SumOf(f, t) = g[t]
  OBVIOUS
<1> DEFINE h == CHOOSE i : FoldsOver(i, f, t)
<1>1. SumOf(f, t) = h[t]
  BY DEF SumOf, MapThenSumSet, MapThenFoldSet, FoldsOver
<1>2. IsFiniteSet(t)
  BY FS_Subset
<1>3. \E i : FoldsOver(i, f, t)
  BY <1>2, FoldExists
<1>4. FoldsOver(h, f, t)
  BY <1>3
<1> HIDE DEF h
<1> QED BY <1>1, <1>4, FoldUnique

-----------------------------------------------------------------------------
(* Sums *)

LEMMA SumOfNone ==
    ASSUME NEW f
    PROVE  SumOf(f, {}) = 0
<1>1. PICK g : FoldsOver(g, f, {})
  BY FS_EmptySet, FoldExists
<1>2. SumOf(f, {}) = g[{}]
  BY <1>1, FS_EmptySet, SumIsFold
<1> QED BY <1>1, <1>2, FoldStep

LEMMA SumOfSome ==
    ASSUME NEW S, IsFiniteSet(S), S # {}, NEW f
    PROVE  \E x \in S : SumOf(f, S) = f[x] + SumOf(f, S \ {x})
<1>1. PICK g : FoldsOver(g, f, S)
  BY FoldExists
<1>2. PICK x \in S : g[S] = f[x] + g[S \ {x}]
  BY <1>1, FoldStep
<1>3. SumOf(f, S) = g[S] /\ SumOf(f, S \ {x}) = g[S \ {x}]
  BY <1>1, SumIsFold
<1> QED BY <1>2, <1>3

LEMMA SumIsNatural ==
    ASSUME NEW S, IsFiniteSet(S), NEW f, \A x \in S : f[x] \in Nat
    PROVE  SumOf(f, S) \in Nat
<1> DEFINE G == {T \in SUBSET S : SumOf(f, T) \in Nat}
<1>1. ASSUME NEW T \in SUBSET S, \A U \in SUBSET T : U # T => U \in G
      PROVE  T \in G
  <2>1. CASE T = {}
    BY <2>1, SumOfNone
  <2>2. CASE T # {}
    <3>1. PICK x \in T : SumOf(f, T) = f[x] + SumOf(f, T \ {x})
      BY <2>2, FS_Subset, SumOfSome
    <3>2. T \ {x} \in G
      BY <1>1
    <3>3. f[x] \in Nat /\ SumOf(f, T \ {x}) \in Nat
      BY <3>2
    <3> QED BY <3>1, <3>3
  <2> QED BY <2>1, <2>2
<1> HIDE DEF G
<1>2. S \in G
  BY <1>1, BySubsets
<1> QED BY <1>2 DEF G

\* Any element may be the first.
LEMMA SumWithout ==
    ASSUME NEW S, IsFiniteSet(S), NEW f, \A x \in S : f[x] \in Nat, NEW a \in S
    PROVE  SumOf(f, S) = f[a] + SumOf(f, S \ {a})
<1> DEFINE G == {T \in SUBSET S : \A b \in T : SumOf(f, T) = f[b] + SumOf(f, T \ {b})}
<1>0. \A T \in SUBSET S : IsFiniteSet(T) /\ SumOf(f, T) \in Nat
  <2> SUFFICES ASSUME NEW T \in SUBSET S PROVE IsFiniteSet(T) /\ SumOf(f, T) \in Nat
    OBVIOUS
  <2>1. IsFiniteSet(T)
    BY FS_Subset
  <2> QED BY <2>1, SumIsNatural
<1>1. ASSUME NEW T \in SUBSET S, \A U \in SUBSET T : U # T => U \in G
      PROVE  T \in G
  <2> SUFFICES ASSUME NEW b \in T PROVE SumOf(f, T) = f[b] + SumOf(f, T \ {b})
    OBVIOUS
  <2>1. PICK x \in T : SumOf(f, T) = f[x] + SumOf(f, T \ {x})
    BY <1>0, SumOfSome
  <2>2. CASE x = b
    BY <2>1, <2>2
  <2>3. CASE x # b
    <3>1. T \ {x} \in G /\ T \ {b} \in G /\ b \in T \ {x} /\ x \in T \ {b}
      BY <1>1, <2>3
    <3>2. SumOf(f, T \ {x}) = f[b] + SumOf(f, (T \ {x}) \ {b})
      BY <3>1
    <3>3. SumOf(f, T \ {b}) = f[x] + SumOf(f, (T \ {b}) \ {x})
      BY <3>1
    <3>4. (T \ {x}) \ {b} = (T \ {b}) \ {x}
      OBVIOUS
    <3> DEFINE rest == SumOf(f, (T \ {b}) \ {x})
    <3>5. f[b] \in Nat /\ f[x] \in Nat /\ rest \in Nat
      BY <1>0
    <3> HIDE DEF rest
    <3>6. SumOf(f, T \ {x}) = f[b] + rest /\ SumOf(f, T \ {b}) = f[x] + rest
      BY <3>2, <3>3, <3>4 DEF rest
    <3> QED BY <2>1, <3>5, <3>6
  <2> QED BY <2>2, <2>3
<1> HIDE DEF G
<1>2. S \in G
  BY <1>1, BySubsets
<1> QED BY <1>2 DEF G

LEMMA SumWith ==
    ASSUME NEW S, IsFiniteSet(S), NEW f, \A x \in S : f[x] \in Nat, NEW a, a \notin S,
           f[a] \in Nat
    PROVE  SumOf(f, S \union {a}) = SumOf(f, S) + f[a]
<1> DEFINE T == S \union {a}
<1>1. IsFiniteSet(T) /\ a \in T /\ T \ {a} = S /\ \A x \in T : f[x] \in Nat
  BY FS_AddElement
<1> HIDE DEF T
<1>2. SumOf(f, T) = f[a] + SumOf(f, T \ {a})
  BY <1>1, SumWithout
<1>3. SumOf(f, S) \in Nat
  BY SumIsNatural
<1> QED BY <1>1, <1>2, <1>3 DEF T

\* Only what is summed counts.
LEMMA SumSame ==
    ASSUME NEW S, IsFiniteSet(S), NEW f, NEW e, \A x \in S : f[x] = e[x]
    PROVE  SumOf(f, S) = SumOf(e, S)
<1>1. PICK g : FoldsOver(g, f, S)
  BY FoldExists
<1>2. PICK h : FoldsOver(h, e, S)
  BY FoldExists
<1>3. g[S] = h[S]
  BY <1>1, <1>2, FoldUnique
<1> QED BY <1>1, <1>2, <1>3, SumIsFold

\* Sums of intervals that grow.
LEMMA SumOfLonger ==
    ASSUME NEW f, NEW i \in Nat, NEW j \in Nat, i <= j + 1, \A n \in i..j + 1 : f[n] \in Nat
    PROVE  SumOf(f, i..j + 1) = SumOf(f, i..j) + f[j + 1] /\ SumOf(f, i..j) \in Nat
<1> DEFINE S == i..j
<1>1. i..j + 1 = S \union {j + 1} /\ j + 1 \notin S
  OBVIOUS
<1>2. (\A n \in S : f[n] \in Nat) /\ f[j + 1] \in Nat
  OBVIOUS
<1>3. IsFiniteSet(S)
  BY FS_Interval
<1> HIDE DEF S
<1>4. SumOf(f, S \union {j + 1}) = SumOf(f, S) + f[j + 1]
  BY <1>1, <1>2, <1>3, SumWith
<1>5. SumOf(f, S) \in Nat
  BY <1>2, <1>3, SumIsNatural
<1> QED BY <1>1, <1>4, <1>5 DEF S

\* Sums of two intervals that meet.
LEMMA SumOfIntervals ==
    ASSUME NEW f, NEW i \in Nat, NEW j \in Nat, i <= j + 1, NEW k \in Nat, j <= k,
           \A n \in i..k : f[n] \in Nat
    PROVE  SumOf(f, i..k) = SumOf(f, i..j) + SumOf(f, j + 1..k)
<1> DEFINE G == {m \in Nat : j + m <= k =>
                    SumOf(f, i..j + m) = SumOf(f, i..j) + SumOf(f, j + 1..j + m)}
<1>1. 0 \in G
  <2>1. j + 0 = j /\ j + 1..j + 0 = {}
    OBVIOUS
  <2>2. IsFiniteSet(i..j) /\ \A n \in i..j : f[n] \in Nat
    BY FS_Interval
  <2>3. SumOf(f, i..j) \in Nat
    BY <2>2, SumIsNatural
  <2> QED BY <2>1, <2>3, SumOfNone
<1>2. ASSUME NEW m \in Nat, m \in G PROVE m + 1 \in G
  <2> DEFINE n == j + m
  <2> SUFFICES ASSUME j + (m + 1) <= k
               PROVE  SumOf(f, i..j + (m + 1)) = SumOf(f, i..j) + SumOf(f, j + 1..j + (m + 1))
    OBVIOUS
  <2>1. n \in Nat /\ n + 1 = j + (m + 1) /\ n <= k /\ n + 1 \in i..k
    OBVIOUS
  <2>2. SumOf(f, i..n) = SumOf(f, i..j) + SumOf(f, j + 1..n)
    BY <1>2, <2>1
  <2>3. /\ i <= n + 1 /\ \A x \in i..n + 1 : f[x] \in Nat
        /\ j + 1 <= n + 1 /\ j + 1 \in Nat /\ \A x \in j + 1..n + 1 : f[x] \in Nat
    OBVIOUS
  <2> HIDE DEF n
  <2>4. SumOf(f, i..n + 1) = SumOf(f, i..n) + f[n + 1]
    BY <2>1, <2>3, SumOfLonger
  <2>5. SumOf(f, j + 1..n + 1) = SumOf(f, j + 1..n) + f[n + 1] /\ SumOf(f, j + 1..n) \in Nat
    BY <2>1, <2>3, SumOfLonger
  <2>6. SumOf(f, i..j) \in Nat /\ f[n + 1] \in Nat
    <3>1. \A x \in i..j : f[x] \in Nat
      OBVIOUS
    <3>2. IsFiniteSet(i..j)
      BY FS_Interval
    <3> QED BY <2>1, <3>1, <3>2, SumIsNatural
  <2>9. SumOf(f, i..n + 1) = SumOf(f, i..j) + SumOf(f, j + 1..n + 1)
    BY <2>2, <2>4, <2>5, <2>6
  <2> QED BY <2>1, <2>9
<1> HIDE DEF G
<1>3. k - j \in G
  BY <1>1, <1>2, Counting
<1>4. k - j \in Nat /\ j + (k - j) = k
  OBVIOUS
<1> QED BY <1>3, <1>4 DEF G

\* What division leaves.
LEMMA DivMod ==
    ASSUME NEW a \in Nat, NEW b \in Nat, b > 0
    PROVE  /\ a \div b \in Nat /\ a % b \in Nat /\ a % b < b
           /\ a = (a \div b) * b + (a % b)
OBVIOUS

\* The sum of sums.
LEMMA SumPlus ==
    ASSUME NEW S, IsFiniteSet(S), NEW f, NEW e, NEW d,
           \A x \in S : f[x] \in Nat /\ e[x] \in Nat /\ d[x] = f[x] + e[x]
    PROVE  SumOf(d, S) = SumOf(f, S) + SumOf(e, S)
<1> DEFINE G == {T \in SUBSET S : SumOf(d, T) = SumOf(f, T) + SumOf(e, T)}
<1>1. ASSUME NEW T \in SUBSET S, \A U \in SUBSET T : U # T => U \in G
      PROVE  T \in G
  <2>1. CASE T = {}
    BY <2>1, SumOfNone
  <2>2. CASE T # {}
    <3>1. PICK x \in T : TRUE
      BY <2>2
    <3>2. IsFiniteSet(T) /\ \A y \in T : f[y] \in Nat /\ e[y] \in Nat /\ d[y] \in Nat
      BY FS_Subset
    <3>3. SumOf(f, T) = f[x] + SumOf(f, T \ {x})
      BY <3>2, SumWithout
    <3>4. SumOf(e, T) = e[x] + SumOf(e, T \ {x})
      BY <3>2, SumWithout
    <3>5. SumOf(d, T) = d[x] + SumOf(d, T \ {x})
      BY <3>2, SumWithout
    <3> DEFINE U == T \ {x}
    <3>6. U \in G /\ IsFiniteSet(U) /\ \A y \in U : f[y] \in Nat /\ e[y] \in Nat
      BY <1>1, <3>2, FS_Subset
    <3> HIDE DEF U
    <3>7. SumOf(f, U) \in Nat /\ SumOf(e, U) \in Nat
      BY <3>6, SumIsNatural
    <3>8. SumOf(d, U) = SumOf(f, U) + SumOf(e, U)
      BY <3>6
    <3>9. f[x] \in Nat /\ e[x] \in Nat /\ d[x] = f[x] + e[x]
      OBVIOUS
    <3> QED BY <3>3, <3>4, <3>5, <3>7, <3>8, <3>9 DEF U
  <2> QED BY <2>1, <2>2
<1> HIDE DEF G
<1>2. S \in G
  BY <1>1, BySubsets
<1> QED BY <1>2 DEF G

\* A sum of smaller values is no larger.
LEMMA SumAtMost ==
    ASSUME NEW S, IsFiniteSet(S), NEW f, NEW e,
           \A x \in S : f[x] \in Nat /\ e[x] \in Nat /\ f[x] <= e[x]
    PROVE  SumOf(f, S) <= SumOf(e, S)
<1> DEFINE d == [x \in S |-> e[x] - f[x]]
<1>1. \A x \in S : f[x] \in Nat /\ d[x] \in Nat /\ e[x] = f[x] + d[x]
  OBVIOUS
<1> HIDE DEF d
<1>2. SumOf(e, S) = SumOf(f, S) + SumOf(d, S)
  BY <1>1, SumPlus
<1>3. SumOf(f, S) \in Nat /\ SumOf(d, S) \in Nat
  BY <1>1, SumIsNatural
<1> QED BY <1>2, <1>3

\* A sum of multiples.
LEMMA SumTimes ==
    ASSUME NEW S, IsFiniteSet(S), NEW f, NEW e, NEW c \in Nat,
           \A x \in S : f[x] \in Nat /\ e[x] = c * f[x]
    PROVE  SumOf(e, S) = c * SumOf(f, S)
<1> DEFINE G == {T \in SUBSET S : SumOf(e, T) = c * SumOf(f, T)}
<1>1. ASSUME NEW T \in SUBSET S, \A U \in SUBSET T : U # T => U \in G
      PROVE  T \in G
  <2>1. CASE T = {}
    BY <2>1, SumOfNone
  <2>2. CASE T # {}
    <3>1. PICK x \in T : TRUE
      BY <2>2
    <3>2. IsFiniteSet(T) /\ \A y \in T : f[y] \in Nat /\ e[y] \in Nat
      BY FS_Subset
    <3>3. SumOf(f, T) = f[x] + SumOf(f, T \ {x})
      BY <3>2, SumWithout
    <3>4. SumOf(e, T) = e[x] + SumOf(e, T \ {x})
      BY <3>2, SumWithout
    <3> DEFINE U == T \ {x}
               a == SumOf(f, U)
               b == SumOf(e, U)
    <3>5. U \in G /\ IsFiniteSet(U) /\ \A y \in U : f[y] \in Nat
      BY <1>1, <3>2, FS_Subset
    <3> HIDE DEF U
    <3>6. a \in Nat /\ b = c * a
      BY <3>5, SumIsNatural
    <3>7. f[x] \in Nat /\ e[x] = c * f[x]
      OBVIOUS
    <3>8. SumOf(f, T) = f[x] + a /\ SumOf(e, T) = e[x] + b
      BY <3>3, <3>4 DEF U
    <3> HIDE DEF a, b
    <3> DEFINE y == f[x]
    <3>9. c * (y + a) = c * y + c * a
      BY <3>6, <3>7
    <3> QED BY <3>6, <3>7, <3>8, <3>9
  <2> QED BY <2>1, <2>2
<1> HIDE DEF G
<1>2. S \in G
  BY <1>1, BySubsets
<1> QED BY <1>2 DEF G

\* A sum of ones counts.
LEMMA SumOfOnes ==
    ASSUME NEW S, IsFiniteSet(S), NEW A \in SUBSET S, NEW f,
           \A x \in S : f[x] = IF x \in A THEN 1 ELSE 0
    PROVE  SumOf(f, S) = Cardinality(A)
<1> DEFINE G == {T \in SUBSET S : SumOf(f, T) = Cardinality(A \intersect T)}
<1>1. ASSUME NEW T \in SUBSET S, \A U \in SUBSET T : U # T => U \in G
      PROVE  T \in G
  <2>1. CASE T = {}
    BY <2>1, SumOfNone, FS_EmptySet
  <2>2. CASE T # {}
    <3>1. PICK x \in T : TRUE
      BY <2>2
    <3> DEFINE U == T \ {x}
    <3>2. IsFiniteSet(T) /\ IsFiniteSet(A \intersect U) /\ \A y \in T : f[y] \in Nat
      BY FS_Subset
    <3>3. SumOf(f, T) = f[x] + SumOf(f, U)
      BY <3>2, SumWithout
    <3>4. SumOf(f, U) = Cardinality(A \intersect U)
      BY <1>1
    <3>5. Cardinality(A \intersect U) \in Nat
      BY <3>2, FS_CardinalityType
    <3>6. CASE x \in A
      <4>1. A \intersect T = (A \intersect U) \union {x} /\ x \notin A \intersect U
        BY <3>6
      <4>2. Cardinality(A \intersect T) = Cardinality(A \intersect U) + 1
        BY <3>2, <4>1, FS_AddElement
      <4>3. f[x] = 1
        BY <3>6
      <4>4. SumOf(f, T) = Cardinality(A \intersect T)
        BY <3>3, <3>4, <3>5, <4>2, <4>3
      <4> QED BY <4>4
    <3>7. CASE x \notin A
      <4>1. A \intersect T = A \intersect U
        BY <3>7
      <4>2. f[x] = 0
        BY <3>7
      <4>3. SumOf(f, T) = Cardinality(A \intersect T)
        BY <3>3, <3>4, <3>5, <4>1, <4>2
      <4> QED BY <4>3
    <3> QED BY <3>6, <3>7
  <2> QED BY <2>1, <2>2
<1> HIDE DEF G
<1>2. \A T \in SUBSET S : T \in G
  BY <1>1, BySubsets
<1>3. A \intersect S = A
  OBVIOUS
<1> QED BY <1>2, <1>3 DEF G

\* A part sums to no more than the whole.
LEMMA SumOfPart ==
    ASSUME NEW S, IsFiniteSet(S), NEW f, \A x \in S : f[x] \in Nat, NEW R \in SUBSET S
    PROVE  SumOf(f, R) <= SumOf(f, S)
<1> DEFINE G == {T \in SUBSET S : R \subseteq T => SumOf(f, R) <= SumOf(f, T)}
<1>0. IsFiniteSet(R) /\ \A x \in R : f[x] \in Nat
  BY FS_Subset
<1>1. ASSUME NEW T \in SUBSET S, \A U \in SUBSET T : U # T => U \in G
      PROVE  T \in G
  <2> SUFFICES ASSUME R \subseteq T PROVE SumOf(f, R) <= SumOf(f, T)
    OBVIOUS
  <2>0. IsFiniteSet(T) /\ \A x \in T : f[x] \in Nat
    BY FS_Subset
  <2>1. CASE T = R
    BY <1>0, <2>1, SumIsNatural
  <2>2. CASE T # R
    <3>1. PICK x \in T : x \notin R
      BY <2>2
    <3> DEFINE U == T \ {x}
    <3>2. SumOf(f, T) = f[x] + SumOf(f, U)
      BY <2>0, SumWithout
    <3>3. U \in G /\ R \subseteq U /\ IsFiniteSet(U) /\ \A y \in U : f[y] \in Nat
      BY <1>1, <2>0, <3>1, FS_Subset
    <3> HIDE DEF U
    <3>4. SumOf(f, R) <= SumOf(f, U) /\ SumOf(f, U) \in Nat /\ SumOf(f, R) \in Nat /\ f[x] \in Nat
      BY <1>0, <3>3, SumIsNatural
    <3> QED BY <3>2, <3>4
  <2> QED BY <2>1, <2>2
<1> HIDE DEF G
<1>2. S \in G
  BY <1>1, BySubsets
<1> QED BY <1>2 DEF G

\* A sum over names is the sum over what they name.
LEMMA SumByName ==
    ASSUME NEW S, IsFiniteSet(S), NEW name, \A x, y \in S : name[x] = name[y] => x = y,
           NEW e, NEW f, \A x \in S : e[x] \in Nat /\ f[name[x]] = e[x]
    PROVE  LET N == {name[x] : x \in S} IN IsFiniteSet(N) /\ SumOf(f, N) = SumOf(e, S)
<1> DEFINE N(T) == {name[x] : x \in T}
           G == {T \in SUBSET S : IsFiniteSet(N(T)) /\ SumOf(f, N(T)) = SumOf(e, T)}
<1>1. ASSUME NEW T \in SUBSET S, \A U \in SUBSET T : U # T => U \in G
      PROVE  T \in G
  <2>1. CASE T = {}
    <3>1. N(T) = {}
      BY <2>1
    <3> QED BY <2>1, <3>1, SumOfNone, FS_EmptySet
  <2>2. CASE T # {}
    <3>1. PICK x \in T : TRUE
      BY <2>2
    <3> DEFINE U == T \ {x}
    <3>2. U \in G
      BY <1>1
    <3>3. N(T) = N(U) \union {name[x]} /\ name[x] \notin N(U)
      OBVIOUS
    <3>4. \A n \in N(U) : f[n] \in Nat
      OBVIOUS
    <3>5. f[name[x]] = e[x] /\ e[x] \in Nat
      OBVIOUS
    <3>6. IsFiniteSet(T) /\ \A y \in T : e[y] \in Nat
      BY FS_Subset
    <3>7. SumOf(e, T) = e[x] + SumOf(e, U) /\ IsFiniteSet(U)
      BY <3>6, SumWithout, FS_Subset
    <3>8. IsFiniteSet(N(U)) /\ SumOf(f, N(U)) = SumOf(e, U)
      BY <3>2
    <3>9. SumOf(e, U) \in Nat
      BY <3>6, <3>7, SumIsNatural
    <3> HIDE DEF G, N, U
    <3>10. SumOf(f, N(U) \union {name[x]}) = SumOf(f, N(U)) + f[name[x]]
      BY <3>3, <3>4, <3>5, <3>8, SumWith
    <3>11. IsFiniteSet(N(T))
      BY <3>3, <3>8, FS_AddElement
    <3>12. SumOf(f, N(T)) = SumOf(e, T)
      BY <3>3, <3>5, <3>7, <3>8, <3>9, <3>10
    <3> QED BY <3>11, <3>12 DEF G
  <2> QED BY <2>1, <2>2
<1> HIDE DEF G
<1>2. S \in G
  BY <1>1, BySubsets
<1> QED BY <1>2 DEF G

-----------------------------------------------------------------------------
(* Ranks in a finite order *)

\* Of two elements of S one comes first.
StrictOrder(R, S) ==
    /\ \A x \in S : <<x, x>> \notin R
    /\ \A x, y, z \in S : <<x, y>> \in R /\ <<y, z>> \in R => <<x, z>> \in R
    /\ \A x, y \in S : x # y => <<x, y>> \in R \/ <<y, x>> \in R

\* What comes before x.
Below(R, x, S) == {y \in S : <<y, x>> \in R}

Rank(R, x, S) == Cardinality(Below(R, x, S))

\* An order of a set orders its parts.
LEMMA OrderOfPart ==
    ASSUME NEW S, NEW R, StrictOrder(R, S), NEW T \in SUBSET S
    PROVE  StrictOrder(R, T)
BY DEF StrictOrder

\* A finite order has a last element.
LEMMA LastExists ==
    ASSUME NEW S, IsFiniteSet(S), S # {}, NEW R, StrictOrder(R, S)
    PROVE  \E m \in S : \A x \in S : x # m => <<x, m>> \in R
<1> DEFINE G == {T \in SUBSET S : T # {} => \E m \in T : \A x \in T : x # m => <<x, m>> \in R}
<1>1. ASSUME NEW T \in SUBSET S, \A U \in SUBSET T : U # T => U \in G
      PROVE  T \in G
  <2> SUFFICES ASSUME T # {} PROVE \E m \in T : \A x \in T : x # m => <<x, m>> \in R
    OBVIOUS
  <2>1. PICK a \in T : TRUE
    OBVIOUS
  <2>2. CASE T = {a}
    BY <2>1, <2>2
  <2>3. CASE T # {a}
    <3>1. T \ {a} # {} /\ T \ {a} \in G
      BY <1>1, <2>1, <2>3
    <3>2. PICK m \in T \ {a} : \A x \in T \ {a} : x # m => <<x, m>> \in R
      BY <3>1
    <3>3. CASE <<a, m>> \in R
      BY <3>2, <3>3
    <3>4. CASE <<m, a>> \in R
      <4>1. \A x \in T : x # a => <<x, a>> \in R
        BY <2>1, <3>2, <3>4 DEF StrictOrder
      <4> QED BY <2>1, <4>1
    <3> QED BY <2>1, <3>2, <3>3, <3>4 DEF StrictOrder
  <2> QED BY <2>2, <2>3
<1> HIDE DEF G
<1>2. S \in G
  BY <1>1, BySubsets
<1> QED BY <1>2 DEF G

\* A rank is smaller than the size of the set.
LEMMA RankType ==
    ASSUME NEW S, IsFiniteSet(S), NEW R, StrictOrder(R, S), NEW x \in S
    PROVE  /\ Rank(R, x, S) \in Nat /\ Rank(R, x, S) < Cardinality(S)
           /\ IsFiniteSet(Below(R, x, S))
<1>1. Below(R, x, S) \subseteq S /\ x \notin Below(R, x, S)
  BY DEF Below, StrictOrder
<1>2. /\ IsFiniteSet(Below(R, x, S)) /\ Rank(R, x, S) <= Cardinality(S)
      /\ (Rank(R, x, S) = Cardinality(S) => Below(R, x, S) = S)
  BY <1>1, FS_Subset DEF Rank
<1>3. Rank(R, x, S) \in Nat /\ Cardinality(S) \in Nat
  BY <1>2, FS_CardinalityType DEF Rank
<1>4. Rank(R, x, S) # Cardinality(S)
  BY <1>1, <1>2
<1> QED BY <1>2, <1>3, <1>4

\* Who comes first has the smaller rank.
LEMMA RankLess ==
    ASSUME NEW S, IsFiniteSet(S), NEW R, StrictOrder(R, S), NEW x \in S, NEW y \in S,
           <<x, y>> \in R
    PROVE  Rank(R, x, S) < Rank(R, y, S)
<1> DEFINE b == Below(R, x, S)
           c == Below(R, y, S)
<1>1. b \subseteq c /\ x \in c /\ x \notin b
  BY DEF Below, StrictOrder
<1>2. IsFiniteSet(c)
  BY RankType
<1> HIDE DEF b, c
<1>3. /\ IsFiniteSet(b) /\ Cardinality(b) <= Cardinality(c)
      /\ (Cardinality(b) = Cardinality(c) => b = c)
  BY <1>1, <1>2, FS_Subset
<1>4. Cardinality(b) \in Nat /\ Cardinality(c) \in Nat
  BY <1>2, <1>3, FS_CardinalityType
<1>5. Cardinality(b) # Cardinality(c)
  BY <1>1, <1>3
<1>6. Cardinality(b) < Cardinality(c)
  BY <1>3, <1>4, <1>5
<1> QED BY <1>6 DEF Rank, b, c

\* So many elements have a rank below a number.
LEMMA RanksBelow ==
    ASSUME NEW S, IsFiniteSet(S), NEW R, StrictOrder(R, S),
           NEW k \in Nat, k <= Cardinality(S)
    PROVE  Cardinality({x \in S : Rank(R, x, S) < k}) = k
<1> DEFINE Low(T, n) == {x \in T : Rank(R, x, T) < n}
           G == {T \in SUBSET S : \A n \in Nat : n <= Cardinality(T) => Cardinality(Low(T, n)) = n}
<1>1. ASSUME NEW T \in SUBSET S, \A U \in SUBSET T : U # T => U \in G
      PROVE  T \in G
  <2>0. IsFiniteSet(T) /\ StrictOrder(R, T)
    BY FS_Subset, OrderOfPart
  <2>1. Cardinality(T) \in Nat
    BY <2>0, FS_CardinalityType
  <2>2. \A x \in T : Rank(R, x, T) \in Nat /\ Rank(R, x, T) < Cardinality(T)
    BY <2>0, RankType
  <2> SUFFICES ASSUME NEW n \in Nat, n <= Cardinality(T) PROVE Cardinality(Low(T, n)) = n
    OBVIOUS
  <2>3. CASE n = Cardinality(T)
    <3>1. Low(T, n) = T
      BY <2>2, <2>3
    <3> QED BY <2>3, <3>1
  <2>4. CASE n < Cardinality(T)
    <3>1. T # {}
      BY <2>4, FS_EmptySet
    <3>2. PICK m \in T : \A x \in T : x # m => <<x, m>> \in R
      BY <2>0, <3>1, LastExists
    <3> DEFINE U == T \ {m}
    <3>3. Cardinality(U) = Cardinality(T) - 1
      BY <2>0, FS_RemoveElement
    <3>4. \A x \in U : Below(R, x, T) = Below(R, x, U)
      BY <2>0, <3>2 DEF Below, StrictOrder
    <3>5. Below(R, m, T) = U
      BY <2>0, <3>2 DEF Below, StrictOrder
    <3>6. U \in G
      BY <1>1
    <3>7. Low(T, n) = Low(U, n)
      <4>1. ~(Rank(R, m, T) < n)
        BY <2>1, <2>4, <3>3, <3>5 DEF Rank
      <4>2. \A x \in U : Rank(R, x, T) = Rank(R, x, U)
        BY <3>4 DEF Rank
      <4> QED BY <4>1, <4>2
    <3>8. n <= Cardinality(U)
      BY <2>1, <2>4, <3>3
    <3> QED BY <3>6, <3>7, <3>8
  <2> QED BY <2>1, <2>3, <2>4
<1> HIDE DEF G
<1>2. S \in G
  BY <1>1, BySubsets
<1> QED BY <1>2 DEF G

\* Each rank has its element, and no other.
LEMMA RankTaken ==
    ASSUME NEW S, IsFiniteSet(S), NEW R, StrictOrder(R, S),
           NEW k \in Nat, k < Cardinality(S)
    PROVE  \E x \in S : Rank(R, x, S) = k
<1> DEFINE Low(n) == {x \in S : Rank(R, x, S) < n}
<1>0. Cardinality(S) \in Nat
  BY FS_CardinalityType
<1>1. Cardinality(Low(k)) = k
  BY <1>0, RanksBelow
<1>2. Cardinality(Low(k + 1)) = k + 1
  <2>1. k + 1 \in Nat /\ k + 1 <= Cardinality(S)
    BY <1>0
  <2> QED BY <2>1, RanksBelow
<1>3. Low(k) # Low(k + 1)
  BY <1>1, <1>2
<1>4. \A x \in S : Rank(R, x, S) \in Nat
  BY RankType
<1>5. Low(k) \subseteq Low(k + 1)
  BY <1>4
<1>6. PICK x \in S : Rank(R, x, S) < k + 1 /\ ~(Rank(R, x, S) < k)
  BY <1>3, <1>5
<1> QED BY <1>4, <1>6

\* No two elements have one rank.
LEMMA RankUnique ==
    ASSUME NEW S, IsFiniteSet(S), NEW R, StrictOrder(R, S), NEW x \in S, NEW y \in S,
           Rank(R, x, S) = Rank(R, y, S)
    PROVE  x = y
<1> SUFFICES ASSUME x # y PROVE FALSE
  OBVIOUS
<1>1. Rank(R, x, S) \in Nat /\ Rank(R, y, S) \in Nat
  BY RankType
<1>2. <<x, y>> \in R \/ <<y, x>> \in R
  BY DEF StrictOrder
<1>3. Rank(R, x, S) < Rank(R, y, S) \/ Rank(R, y, S) < Rank(R, x, S)
  BY <1>2, RankLess
<1> QED BY <1>1, <1>3

===============================================================================
