----------------------------- MODULE SumLemmas -----------------------------
(***************************************************************************)
(* What MapThenSumSet and its relatives compute, for every finite set.     *)
(* They are recursive functions over the subsets of a set; here is what    *)
(* they are without recursion: a sum of natural numbers is the number of   *)
(* units there are.  The induction is on a smallest counterexample, which  *)
(* a well-founded order provides.                                          *)
(***************************************************************************)
EXTENDS Integers, FiniteSetsExt, FiniteSetTheorems, TLAPS

Sum(w, S) == MapThenSumSet(LAMBDA x : w[x], S)

\* w[x] units for each x.
UnitsOf(w, x) == {<<x, i>> : i \in 1..w[x]}
Units(w, S)   == UNION {UnitsOf(w, x) : x \in S}

Pick(s) == CHOOSE x \in s : TRUE

\* The recursion that a sum is defined by.
SumsUp(g, w, S) ==
  g = [s \in SUBSET S |-> IF s = {} THEN 0 ELSE w[Pick(s)] + g[s \ {Pick(s)}]]

----------------------------------------------------------------------------

\* Among any sets of elements of a finite set there is a smallest.
LEMMA SmallestSubset ==
  ASSUME NEW S, IsFiniteSet(S), NEW T, T \subseteq SUBSET S, T # {}
  PROVE  \E x \in T : \A y \in T : y \subseteq x => y = x
<1>1. IsWellFoundedOn(StrictSubsetOrdering(S), SUBSET S)
  BY FS_StrictSubsetOrderingWellFounded, FS_FiniteSubsetsOfFinite
<1>2. PICK x \in T : \A y \in T : ~(<<y, x>> \in StrictSubsetOrdering(S))
  BY <1>1, WFMin
<1>3. ASSUME NEW y \in T, y \subseteq x, y # x PROVE FALSE
  <2>1. <<y, x>> \in StrictSubsetOrdering(S)
    BY <1>3 DEF StrictSubsetOrdering
  <2> QED  BY <1>2, <2>1
<1> QED  BY <1>3

\* Any set of natural numbers has a smallest.
LEMMA SmallestNumber ==
  ASSUME NEW T, T \subseteq Nat, T # {}
  PROVE  \E m \in T : \A n \in T : m <= n
<1>1. PICK t \in T : TRUE
  OBVIOUS
<1> DEFINE upTo == 0..t
           Below == {0..n : n \in {k \in T : k <= t}}
<1>2. IsFiniteSet(upTo)
  BY <1>1, FS_Interval
<1>3. Below \subseteq SUBSET upTo
  BY <1>1
<1>4. Below # {}
  BY <1>1
<1> HIDE DEF Below, upTo
<1>5. PICK x \in Below : \A y \in Below : y \subseteq x => y = x
  BY <1>2, <1>3, <1>4, SmallestSubset
<1>6. PICK m \in T : m <= t /\ x = 0..m
  BY <1>5 DEF Below
<1>7. ASSUME NEW n \in T, n < m PROVE FALSE
  <2>1. 0..n \in Below
    BY <1>6, <1>7, <1>1 DEF Below
  <2>2. 0..n \subseteq x
    BY <1>6, <1>7
  <2>3. 0..n = 0..m
    BY <1>5, <1>6, <2>1, <2>2
  <2>4. m \in 0..m
    BY <1>6
  <2> QED  BY <1>6, <1>7, <2>3, <2>4
<1> QED  BY <1>6, <1>7

LEMMA SmallestValue ==
  ASSUME NEW S, IsFiniteSet(S), S # {}, NEW f \in [S -> SUBSET S]
  PROVE  \E m \in S : \A n \in S : f[n] \subseteq f[m] => f[n] = f[m]
<1> DEFINE values == {f[s] : s \in S}
<1>1. values \subseteq SUBSET S /\ values # {} /\ \A s \in S : f[s] \in values
  OBVIOUS
<1>2. \A v \in values : \E s \in S : v = f[s]
  OBVIOUS
<1> HIDE DEF values
<1>3. PICK x \in values : \A y \in values : y \subseteq x => y = x
  BY <1>1, SmallestSubset
<1> QED  BY <1>1, <1>2, <1>3

\* A finite one has a largest, too.
LEMMA LargestNumber ==
  ASSUME NEW T, T # {}, IsFiniteSet(T)
  PROVE  T \subseteq Nat => \E m \in T : \A n \in T : n <= m
<1> DEFINE from == [t \in T |-> {n \in T : t <= n}]
<1>1. from \in [T -> SUBSET T]
  OBVIOUS
<1> HIDE DEF from
<1>2. PICK m \in T : \A n \in T : from[n] \subseteq from[m] => from[n] = from[m]
  BY <1>1, SmallestValue
<1>3. ASSUME T \subseteq Nat, NEW n \in T, m < n PROVE FALSE
  <2>1. m \in Nat /\ n \in Nat
    BY <1>2, <1>3
  <2>2. m \in from[m] /\ m \notin from[n]
    BY <1>2, <1>3, <2>1 DEF from
  <2>3. ASSUME NEW k \in from[n] PROVE k \in from[m]
    <3>1. k \in T /\ k \in Nat /\ n <= k
      BY <1>3, <2>3 DEF from
    <3> QED  BY <1>2, <1>3, <2>1, <3>1 DEF from
  <2> QED  BY <1>2, <1>3, <2>2, <2>3
<1>4. ASSUME T \subseteq Nat PROVE \A n \in T : n <= m
  <2> SUFFICES ASSUME NEW n \in T PROVE n <= m
    OBVIOUS
  <2>1. m \in Nat /\ n \in Nat
    BY <1>2, <1>4
  <2>2. ~(m < n)
    BY <1>3, <1>4
  <2> QED  BY <2>1, <2>2
<1> QED  BY <1>2, <1>4

LEMMA MinIsThere ==
  ASSUME NEW T, T \subseteq Nat, T # {}
  PROVE  Min(T) \in T /\ \A n \in T : Min(T) <= n
BY SmallestNumber, Zenon DEF Min

LEMMA MaxIsThere ==
  ASSUME NEW T, T \subseteq Nat, T # {}, IsFiniteSet(T)
  PROVE  Max(T) \in T /\ \A n \in T : n <= Max(T)
<1>1. \E m \in T : \A n \in T : m >= n
  BY LargestNumber
<1>2. Max(T) \in T /\ \A n \in T : Max(T) >= n
  BY <1>1, Zenon DEF Max
<1> QED  BY <1>2

----------------------------------------------------------------------------

LEMMA UnitsOfOne ==
  ASSUME NEW w, NEW x, w[x] \in Nat
  PROVE  IsFiniteSet(UnitsOf(w, x)) /\ Cardinality(UnitsOf(w, x)) = w[x]
<1>1. IsFiniteSet(1..w[x]) /\ Cardinality(1..w[x]) = w[x]
  BY FS_Interval
<1> DEFINE f == [i \in 1..w[x] |-> <<x, i>>]
<1>2. f \in Bijection(1..w[x], UnitsOf(w, x))
  <2>1. f \in [1..w[x] -> UnitsOf(w, x)]
    BY DEF UnitsOf
  <2>2. \A i, j \in 1..w[x] : f[i] = f[j] => i = j
    OBVIOUS
  <2>3. \A u \in UnitsOf(w, x) : \E i \in 1..w[x] : f[i] = u
    BY DEF UnitsOf
  <2>4. IsInjective(f)
    BY <2>2 DEF IsInjective
  <2> HIDE DEF f
  <2> QED  BY <2>1, <2>3, <2>4 DEF Bijection, Injection, Surjection
<1>3. ExistsBijection(1..w[x], UnitsOf(w, x))
  BY <1>2 DEF ExistsBijection
<1> QED  BY <1>1, <1>3, FS_Bijection

LEMMA UnitsAreFinite ==
  ASSUME NEW w, NEW S, IsFiniteSet(S), \A x \in S : w[x] \in Nat
  PROVE  IsFiniteSet(Units(w, S)) /\ Cardinality(Units(w, S)) \in Nat
<1>1. IsFiniteSet({UnitsOf(w, x) : x \in S})
  <2> DEFINE f == [x \in S |-> UnitsOf(w, x)]
  <2>1. f \in Surjection(S, {UnitsOf(w, x) : x \in S})
    BY DEF Surjection
  <2> QED  BY <2>1, FS_Surjection
<1>2. \A T \in {UnitsOf(w, x) : x \in S} : IsFiniteSet(T)
  BY UnitsOfOne
<1>3. IsFiniteSet(Units(w, S))
  BY <1>1, <1>2, FS_UNION DEF Units
<1> QED  BY <1>3, FS_CardinalityType

\* The units of a set without one element, and that element's.
LEMMA UnitsSplit ==
  ASSUME NEW w, NEW S, IsFiniteSet(S), \A x \in S : w[x] \in Nat, NEW x \in S
  PROVE  Cardinality(Units(w, S)) = w[x] + Cardinality(Units(w, S \ {x}))
<1>1. Units(w, S) = UnitsOf(w, x) \cup Units(w, S \ {x})
  BY DEF Units
<1>2. UnitsOf(w, x) \cap Units(w, S \ {x}) = {}
  BY DEF Units, UnitsOf
<1>3. IsFiniteSet(S \ {x})
  BY FS_RemoveElement
<1>4. IsFiniteSet(Units(w, S \ {x})) /\ Cardinality(Units(w, S \ {x})) \in Nat
  BY <1>3, UnitsAreFinite
<1>5. IsFiniteSet(UnitsOf(w, x)) /\ Cardinality(UnitsOf(w, x)) = w[x]
  BY UnitsOfOne
<1>6. Cardinality(Units(w, S)) = Cardinality(UnitsOf(w, x)) + Cardinality(Units(w, S \ {x}))
                                   - Cardinality({})
  BY <1>1, <1>2, <1>4, <1>5, FS_Union
<1>7. Cardinality({}) = 0
  BY FS_EmptySet
<1> QED  BY <1>4, <1>5, <1>6, <1>7

LEMMA SumUnfolds ==
  ASSUME NEW w, NEW S
  PROVE  Sum(w, S) = (CHOOSE g : SumsUp(g, w, S))[S]
BY DEF Sum, MapThenSumSet, MapThenFoldSet, SumsUp, Pick

\* A sum is the number of its units.
LEMMA SumIsUnits ==
  ASSUME NEW w, NEW S, IsFiniteSet(S), \A x \in S : w[x] \in Nat
  PROVE  Sum(w, S) = Cardinality(Units(w, S))
<1> DEFINE h == [s \in SUBSET S |-> Cardinality(Units(w, s))]
<1>1. \A s \in SUBSET S : IsFiniteSet(s)
  BY FS_Subset
<1>2. ASSUME NEW s \in SUBSET S, s # {}
      PROVE  Cardinality(Units(w, s)) = w[Pick(s)] + Cardinality(Units(w, s \ {Pick(s)}))
  <2>1. Pick(s) \in s
    BY <1>2 DEF Pick
  <2>2. IsFiniteSet(s) /\ \A x \in s : w[x] \in Nat
    BY <1>1
  <2> QED  BY <2>1, <2>2, UnitsSplit
<1>3. Cardinality(Units(w, {})) = 0
  BY FS_EmptySet DEF Units
<1>4. SumsUp(h, w, S)
  <2>1. \A s \in SUBSET S :
          h[s] = IF s = {} THEN 0 ELSE w[Pick(s)] + h[s \ {Pick(s)}]
    BY <1>2, <1>3
  <2> HIDE DEF h
  <2>2. h = [s \in SUBSET S |-> h[s]]
    BY DEF h
  <2> QED  BY <2>1, <2>2 DEF SumsUp
<1> DEFINE g == CHOOSE k : SumsUp(k, w, S)
<1>5. SumsUp(g, w, S)
  BY <1>4
<1> HIDE DEF g
<1>6. \A s \in SUBSET S : g[s] = IF s = {} THEN 0 ELSE w[Pick(s)] + g[s \ {Pick(s)}]
  BY <1>5 DEF SumsUp
<1> DEFINE Bad == {s \in SUBSET S : g[s] # Cardinality(Units(w, s))}
<1>7. SUFFICES ASSUME Bad # {} PROVE FALSE
  BY SumUnfolds DEF g
<1>8. \E s \in Bad : \A t \in Bad : t \subseteq s => t = s
  <2>1. Bad \subseteq SUBSET S
    OBVIOUS
  <2> HIDE DEF Bad
  <2> QED  BY <1>7, <2>1, SmallestSubset
<1>9. PICK s \in Bad : \A t \in Bad : t \subseteq s => t = s
  BY <1>8
<1>10. s # {}
  BY <1>3, <1>6
<1>11. Pick(s) \in s
  BY <1>10 DEF Pick
<1>12. s \ {Pick(s)} \notin Bad
  BY <1>9, <1>11
<1>13. g[s \ {Pick(s)}] = Cardinality(Units(w, s \ {Pick(s)}))
  BY <1>12
<1> QED  BY <1>2, <1>6, <1>9, <1>10, <1>13

\* What is left out makes a sum no larger.
LEMMA SumMonotone ==
  ASSUME NEW w, NEW S, IsFiniteSet(S), \A x \in S : w[x] \in Nat, NEW T, T \subseteq S
  PROVE  Sum(w, T) \in Nat /\ Sum(w, S) \in Nat /\ Sum(w, T) <= Sum(w, S)
<1>1. IsFiniteSet(T)
  BY FS_Subset
<1>2. Units(w, T) \in SUBSET Units(w, S)
  BY DEF Units
<1>3. IsFiniteSet(Units(w, S)) /\ Cardinality(Units(w, S)) \in Nat
      /\ Cardinality(Units(w, T)) \in Nat
  BY <1>1, UnitsAreFinite
<1>4. Cardinality(Units(w, T)) <= Cardinality(Units(w, S))
  BY <1>2, <1>3, FS_Subset
<1> QED  BY <1>1, <1>3, <1>4, SumIsUnits

LEMMA SumSplits ==
  ASSUME NEW w, NEW S, IsFiniteSet(S), \A x \in S : w[x] \in Nat
  PROVE  /\ S = {} => Sum(w, S) = 0
         /\ \A x \in S : Sum(w, S) = w[x] + Sum(w, S \ {x})
<1>1. S = {} => Cardinality(Units(w, S)) = 0
  BY FS_EmptySet DEF Units
<1>2. ASSUME NEW x \in S PROVE Sum(w, S) = w[x] + Sum(w, S \ {x})
  <2>1. IsFiniteSet(S \ {x}) /\ \A y \in S \ {x} : w[y] \in Nat
    BY FS_RemoveElement
  <2>2. Sum(w, S \ {x}) = Cardinality(Units(w, S \ {x}))
    BY <2>1, SumIsUnits
  <2>3. Sum(w, S) = Cardinality(Units(w, S))
    BY SumIsUnits
  <2> QED  BY <2>2, <2>3, UnitsSplit
<1> QED  BY <1>1, <1>2, SumIsUnits

\* The sizes of sets that share nothing add up to the size of all of them.
Whole(P, S) == UNION {P[x] : x \in S}

LEMMA SumOfParts ==
  ASSUME NEW D, IsFiniteSet(D), NEW U, IsFiniteSet(U), NEW P,
         \A x \in D : P[x] \subseteq U,
         \A x, y \in D : x # y => P[x] \cap P[y] = {},
         NEW w, \A x \in D : w[x] = Cardinality(P[x])
  PROVE  Sum(w, D) = Cardinality(Whole(P, D)) /\ Sum(w, D) <= Cardinality(U)
<1>1. \A x \in D : IsFiniteSet(P[x]) /\ w[x] \in Nat
  BY FS_Subset, FS_CardinalityType
<1> DEFINE Bad == {s \in SUBSET D : Sum(w, s) # Cardinality(Whole(P, s))}
<1>2. ASSUME Bad # {} PROVE FALSE
  <2>1. \E s \in Bad : \A t \in Bad : t \subseteq s => t = s
    <3>1. Bad \subseteq SUBSET D
      OBVIOUS
    <3> HIDE DEF Bad
    <3> QED  BY <1>2, <3>1, SmallestSubset
  <2>2. PICK s \in Bad : \A t \in Bad : t \subseteq s => t = s
    BY <2>1
  <2>3. s \in SUBSET D /\ IsFiniteSet(s) /\ \A x \in s : w[x] \in Nat
    BY <1>1, FS_Subset
  <2>4. s # {}
    <3>1. Cardinality(Whole(P, {})) = 0
      BY FS_EmptySet DEF Whole
    <3>2. s = {} => Sum(w, s) = 0
      BY <2>3, SumSplits
    <3> QED  BY <3>1, <3>2
  <2>5. PICK x \in s : TRUE
    BY <2>4
  <2> DEFINE t == s \ {x}
  <2>6. t \in SUBSET D /\ t \subseteq s /\ t # s
    BY <2>3
  <2> HIDE DEF t
  <2>7. Sum(w, t) = Cardinality(Whole(P, t))
    BY <2>2, <2>6
  <2>8. Sum(w, s) = w[x] + Sum(w, t)
    BY <2>3, SumSplits DEF t
  <2>9. Whole(P, s) = P[x] \union Whole(P, t) /\ P[x] \cap Whole(P, t) = {}
    BY <2>3 DEF Whole, t
  <2>10. Whole(P, t) \subseteq U
    BY <2>6 DEF Whole
  <2>11. IsFiniteSet(P[x]) /\ IsFiniteSet(Whole(P, t))
    BY <1>1, <2>3, <2>10, FS_Subset
  <2>12. Cardinality(Whole(P, s)) = Cardinality(P[x]) + Cardinality(Whole(P, t)) - Cardinality({})
    BY <2>9, <2>11, FS_Union
  <2>13. Cardinality({}) = 0 /\ Cardinality(P[x]) \in Nat /\ Cardinality(Whole(P, t)) \in Nat
    BY <2>11, FS_EmptySet, FS_CardinalityType
  <2>14. Cardinality(Whole(P, s)) = Sum(w, s)
    BY <2>3, <2>7, <2>8, <2>12, <2>13
  <2> QED  BY <2>14
<1>3. Sum(w, D) = Cardinality(Whole(P, D))
  BY <1>2
<1>4. Whole(P, D) \in SUBSET U
  BY DEF Whole
<1> QED  BY <1>3, <1>4, FS_Subset
=============================================================================
