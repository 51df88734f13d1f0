---------------------------- MODULE NumberLemmas ----------------------------
(***************************************************************************)
(* Facts about division, and about the lowest elements of sets of numbers, *)
(* that the proofs about the heap, the clock and the page frames share.    *)
(***************************************************************************)
EXTENDS Integers, FiniteSets, FiniteSetTheorems, WellFoundedInduction, TLAPS

\* Quotient and remainder.
LEMMA DivBound ==
  ASSUME NEW a \in Int, NEW w \in Nat \ {0}
  PROVE  a = w * (a \div w) + (a % w) /\ a % w \in 0 .. w - 1 /\ a \div w \in Int
OBVIOUS

\* A lower multiple is lower by a whole step.
LEMMA MulStep ==
  ASSUME NEW w \in Nat \ {0}, NEW p \in Int, NEW q \in Int, p < q
  PROVE  w * p + w <= w * q
OBVIOUS

\* Quotient and remainder are unique.
LEMMA DivUnique ==
  ASSUME NEW a \in Int, NEW w \in Nat \ {0}, NEW q \in Int, NEW r \in 0 .. w - 1, a = w * q + r
  PROVE  a \div w = q /\ a % w = r
<1> DEFINE d == a \div w
           m == a % w
<1>1. d \in Int /\ m \in 0 .. w - 1 /\ a = w * d + m
  BY DivBound
<1> HIDE DEF d, m
<1>2. w * d \in Int /\ w * q \in Int
  BY <1>1
<1>3. ~(d < q)
  BY <1>1, <1>2, MulStep
<1>4. ~(q < d)
  BY <1>1, <1>2, MulStep
<1>5. d = q
  BY <1>1, <1>3, <1>4
<1>6. m = r
  <2>1. w * d = w * q
    BY <1>5
  <2> QED
    BY <2>1, <1>1, <1>2
<1> QED
  BY <1>5, <1>6 DEF d, m

\* A multiple leaves no remainder.
LEMMA ModMul ==
  ASSUME NEW k \in Int, NEW n \in Nat \ {0}
  PROVE  (n * k) % n = 0
OBVIOUS

\* Sums of multiples are multiples.
LEMMA ModAdd ==
  ASSUME NEW a \in Int, NEW b \in Int, NEW n \in Nat \ {0}, a % n = 0, b % n = 0
  PROVE  (a + b) % n = 0
<1>1. a + b = n * ((a \div n) + (b \div n))
  BY DivBound
<1> QED
  BY <1>1, ModMul

\* So are differences.
LEMMA ModSub ==
  ASSUME NEW a \in Int, NEW b \in Int, NEW n \in Nat \ {0}, a % n = 0, b % n = 0
  PROVE  (a - b) % n = 0
<1>1. a - b = n * ((a \div n) - (b \div n))
  BY DivBound
<1> QED
  BY <1>1, ModMul

\* A set of numbers has a lowest.
LEMMA Least ==
  ASSUME NEW T, T \subseteq Nat, T # {}
  PROVE  \E x \in T : \A y \in T : x <= y
<1> DEFINE R == OpToRel(<, Nat)
<1>1. \E x \in T : \A y \in T : <<y, x>> \notin R
  BY NatLessThanWellFounded, WFMin, Zenon
<1>2. \A x, y \in T : <<y, x>> \notin R => ~(y < x)
  BY Zenon DEF OpToRel
<1> HIDE DEF R
<1>3. PICK x \in T : \A y \in T : ~(y < x)
  BY <1>1, <1>2, Zenon
<1>4. \A y \in T : y \in Nat /\ x \in Nat
  OBVIOUS
<1> QED
  BY <1>3, <1>4

\* A finite set of numbers has an i-th lowest, counted from 0.
LEMMA NthLowest ==
  ASSUME NEW S \in SUBSET Nat, IsFiniteSet(S), NEW i \in Nat, i < Cardinality(S)
  PROVE  \E f \in S : Cardinality({g \in S : g < f}) = i
<1> DEFINE Below(f) == {g \in S : g < f}
           Bad == {n \in Nat : n < Cardinality(S) /\ ~\E f \in S : Cardinality(Below(f)) = n}
<1>1. Cardinality(S) \in Nat /\ \A f \in S : IsFiniteSet(Below(f))
  BY FS_CardinalityType, FS_Subset
<1> SUFFICES ASSUME Bad # {} PROVE FALSE
  OBVIOUS
<1>2. PICK n \in Bad : \A m \in Bad : n <= m
  BY Least
<1>3. n \in Nat /\ n < Cardinality(S) /\ ~\E f \in S : Cardinality(Below(f)) = n
  OBVIOUS
<1> HIDE DEF Below
<1>0. \A g \in S : g \in Int
  OBVIOUS
<1>4. CASE n = 0
  <2>1. S # {} /\ S \subseteq Nat
    BY <1>1, <1>3, <1>4, FS_EmptySet
  <2>2. PICK f \in S : \A g \in S : f <= g
    BY <2>1, Least
  <2>3. Below(f) = {}
    <3>1. \A g \in S : ~(g < f)
      BY <2>2, <1>0
    <3> QED
      BY <3>1 DEF Below
  <2> QED
    BY <2>3, <1>3, <1>4, FS_EmptySet
<1>5. CASE n # 0
  <2>1. n - 1 \in Nat /\ n - 1 < Cardinality(S) /\ n - 1 \notin Bad
    BY <1>1, <1>2, <1>3, <1>5
  <2>2. PICK f \in S : Cardinality(Below(f)) = n - 1
    BY <2>1
  <2> DEFINE Above == {g \in S : f < g}
  <2>3. Cardinality(Below(f) \cup {f}) = n /\ IsFiniteSet(Below(f) \cup {f})
    <3>1. f \notin Below(f)
      BY DEF Below
    <3>2. Cardinality(Below(f) \cup {f}) = (n - 1) + 1
      BY <3>1, <2>2, <1>1, FS_AddElement
    <3> QED
      BY <3>2, <1>1, <1>3, FS_AddElement
  <2>4. Above # {}
    <3> SUFFICES ASSUME Above = {} PROVE FALSE
      OBVIOUS
    <3>1. S = Below(f) \cup {f}
      <4>1. \A g \in S : g < f \/ g = f
        BY <1>0
      <4> QED
        BY <4>1 DEF Below
    <3> QED
      BY <3>1, <2>3, <1>1, <1>3
  <2>5. PICK h \in Above : \A g \in Above : h <= g
    BY <2>4, Least
  <2>6. Below(h) = Below(f) \cup {f}
    <3>1. h \in S /\ f < h /\ \A g \in S : f < g => h <= g
      BY <2>5
    <3>2. \A g \in S : g < h <=> (g < f \/ g = f)
      BY <3>1, <1>0
    <3> QED
      BY <3>1, <3>2 DEF Below
  <2> QED
    BY <2>3, <2>5, <2>6, <1>3
<1> QED
  BY <1>4, <1>5
=============================================================================
