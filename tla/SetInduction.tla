---------------------------- MODULE SetInduction ----------------------------
(***************************************************************************)
(* Induction over the numbers up to a bound, for sets of numbers: it comes *)
(* from the well-foundedness of the subsets of a finite set, and so needs  *)
(* no theorem that takes an operator.  Proofs about sums and maxima of the *)
(* other modules rest on it.                                               *)
(***************************************************************************)
EXTENDS Integers, FiniteSetTheorems, WellFoundedInduction, TLAPS

\* A set of numbers that has 0 and, with each number below m, the next one,
\* has every number up to m.
LEMMA InductionUpTo ==
    ASSUME NEW m \in Nat, NEW S,
           0 \in S,
           \A n \in 0..(m - 1) : n \in S => n + 1 \in S
    PROVE  0..m \subseteq S
  <1> DEFINE T == {0..k : k \in (0..m) \ S}
  <1> SUFFICES ASSUME T # {} PROVE FALSE
    OBVIOUS
  <1>1. IsFiniteSet(0..m)
    BY FS_Interval
  <1>2. IsWellFoundedOn(StrictSubsetOrdering(0..m), SUBSET (0..m))
    BY <1>1, FS_StrictSubsetOrderingWellFounded, FS_FiniteSubsetsOfFinite
  <1>3. T \subseteq SUBSET (0..m)
    OBVIOUS
  <1> HIDE DEF T
  <1>4. PICK x \in T : \A y \in T : <<y, x>> \notin StrictSubsetOrdering(0..m)
    BY <1>2, <1>3, WFMin
  <1> USE DEF T
  <1>5. PICK k \in (0..m) \ S : x = 0..k
    BY <1>4
  <1>6. k # 0 /\ k - 1 \in (0..m) \ S
    BY <1>5
  <1>7. 0..(k - 1) \in T
    BY <1>6
  <1>8. 0..(k - 1) \subseteq 0..k /\ k \in 0..k /\ k \notin 0..(k - 1)
    BY <1>5
  <1>9. <<0..(k - 1), x>> \in StrictSubsetOrdering(0..m)
    BY <1>3, <1>4, <1>5, <1>7, <1>8 DEF StrictSubsetOrdering
  <1> QED
    BY <1>4, <1>7, <1>9

\* A non-empty set of numbers up to a bound has a greatest one.
LEMMA GreatestExists ==
    ASSUME NEW m \in Nat, NEW S \in SUBSET (0..m), S # {}
    PROVE  \E x \in S : \A y \in S : y <= x
  <1> DEFINE A == {n \in 0..m : \/ S \cap (0..n) = {}
                                \/ \E x \in S \cap (0..n) : \A y \in S \cap (0..n) : y <= x}
  <1>1. 0 \in A
    OBVIOUS
  <1>2. ASSUME NEW n \in 0..(m - 1), n \in A PROVE n + 1 \in A
    <2>1. CASE n + 1 \in S
      <3>1. \A y \in S \cap (0..(n + 1)) : y <= n + 1
        OBVIOUS
      <3> QED BY <2>1, <3>1
    <2>2. CASE n + 1 \notin S
      <3>1. S \cap (0..(n + 1)) = S \cap (0..n)
        BY <2>2
      <3> QED BY <1>2, <3>1
    <2> QED BY <2>1, <2>2
  <1>3. m \in A
    <2> HIDE DEF A
    <2> QED BY <1>1, <1>2, InductionUpTo
  <1>4. S \cap (0..m) = S
    OBVIOUS
  <1> QED BY <1>3, <1>4

=============================================================================
