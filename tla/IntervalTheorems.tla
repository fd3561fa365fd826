-------------------------- MODULE IntervalTheorems --------------------------
(***************************************************************************)
(* The facts of module Counting, proved: those about intervals of natural  *)
(* numbers rest on cardinalities and stand in for induction.               *)
(***************************************************************************)
EXTENDS Counting, FiniteSetTheorems, TLAPS

\* A set that holds 0 and, with every i below n, i + 1, holds all of 0..n.
LEMMA IntervalInduction ==
  ASSUME NEW n \in Nat, NEW D, 0 \in D,
         \A i \in 0..n : i \in D /\ i < n => i + 1 \in D
  PROVE  0..n \subseteq D
<1> DEFINE C == {i \in 0..n : 0..i \subseteq D}
<1>1. C \in SUBSET (0..n) /\ 0 \in C /\ (n \in C => 0..n \subseteq D)
  OBVIOUS
<1>2. \A i \in C : 0..i \subseteq C
  OBVIOUS
<1>3. \A i \in 0..n : i \in C /\ i < n => i + 1 \in C
  OBVIOUS
<1> HIDE DEF C
<1>4. IsFiniteSet(0..n)
  BY FS_Interval
<1>5. IsFiniteSet(C)
  BY <1>1, <1>4, FS_Subset, Zenon
<1>6. PICK c \in Nat : c = Cardinality(C)
  BY <1>5, FS_CardinalityType
<1>7. \A i \in C : i + 1 <= c
  <2> TAKE i \in C
  <2>1. i \in Nat /\ (0..i) \in SUBSET C
    BY <1>1, <1>2
  <2>2. Cardinality(0..i) = i + 1
    BY <2>1, FS_Interval
  <2> QED BY <1>5, <1>6, <2>1, <2>2, FS_Subset
<1>8. C = 0..(c - 1)
  <2>1. c - 1 \in Int /\ (0 > c - 1 => c = 0)
    OBVIOUS
  <2>2. IsFiniteSet(0..(c - 1)) /\ Cardinality(0..(c - 1)) = c
    BY <2>1, FS_Interval
  <2>3. C \in SUBSET (0..(c - 1))
    BY <1>1, <1>7
  <2> QED BY <1>5, <1>6, <2>2, <2>3, FS_Subset, Zenon
<1>9. n \in C
  BY <1>1, <1>3, <1>8
<1> QED BY <1>1, <1>9

\* A finite set of numbers from m up that holds, with every n, all of m..n is the
\* interval that starts at m and has as many members.
LEMMA RunIsInterval ==
  ASSUME NEW m \in Nat, NEW R \in SUBSET Nat, IsFiniteSet(R),
         \A n \in R : m <= n /\ m..n \subseteq R
  PROVE  Cardinality(R) \in Nat /\ R = m..(m + Cardinality(R) - 1)
<1>1. PICK c \in Nat : c = Cardinality(R)
  BY FS_CardinalityType
<1>2. \A n \in R : n <= m + c - 1
  <2> TAKE n \in R
  <2>1. n \in Nat /\ (m..n) \in SUBSET R /\ m <= n
    OBVIOUS
  <2>2. Cardinality(m..n) = n - m + 1
    BY <2>1, FS_Interval
  <2>3. Cardinality(m..n) <= c
    BY <1>1, <2>1, FS_Subset
  <2> QED BY <2>1, <2>2, <2>3
<1>3. R \in SUBSET (m..(m + c - 1))
  BY <1>2
<1>4. m + c - 1 \in Int /\ (m > m + c - 1 => c = 0)
  OBVIOUS
<1>5. IsFiniteSet(m..(m + c - 1)) /\ Cardinality(m..(m + c - 1)) = c
  BY <1>4, FS_Interval
<1> QED BY <1>1, <1>3, <1>5, FS_Subset, Zenon

\* A set of numbers up to n that is not empty has a greatest.
LEMMA GreatestBelow ==
  ASSUME NEW n \in Nat, NEW S \in SUBSET (0..n), S # {}
  PROVE  \E x \in S : \A y \in S : x >= y
<1> SUFFICES ASSUME \A x \in S : \E y \in S : y > x
             PROVE  FALSE
  OBVIOUS
<1> DEFINE D == {i \in 0..n : \E y \in S : y >= i}
<1>1. 0 \in D
  <2>1. PICK y \in S : TRUE
    OBVIOUS
  <2>2. y \in Nat /\ y >= 0
    BY <2>1
  <2> QED BY <2>1, <2>2
<1>2. \A i \in 0..n : i \in D /\ i < n => i + 1 \in D
  OBVIOUS
<1> HIDE DEF D
<1>3. 0..n \subseteq D
  BY <1>1, <1>2, IntervalInduction
<1> USE DEF D
<1>4. \E y \in S : y >= n
  BY <1>3
<1> QED BY <1>4

\* A non-empty set of naturals has a least member.
LEMMA LeastOfNats ==
  ASSUME NEW S \in SUBSET Nat, S # {}
  PROVE  \E m \in S : \A n \in S : m <= n
<1> SUFFICES ASSUME \A m \in S : \E n \in S : n < m
             PROVE  FALSE
  OBVIOUS
<1>1. PICK x \in S : TRUE
  BY Zenon
<1> DEFINE D == {k \in 0..x : \A j \in 0..k : j \notin S}
<1>2. 0 \in D
  OBVIOUS
<1>3. \A i \in 0..x : i \in D /\ i < x => i + 1 \in D
  <2> SUFFICES ASSUME NEW i \in 0..x, i \in D, i < x
               PROVE  i + 1 \in D
    OBVIOUS
  <2>1. i + 1 \notin S
    OBVIOUS
  <2> QED BY <2>1
<1>4. x \in Nat /\ 0..x \subseteq D
  <2> HIDE DEF D
  <2> QED BY <1>2, <1>3, IntervalInduction
<1> QED BY <1>4

\* What the proofs of every component assume about intervals and cardinalities holds.
THEOREM CountingHolds == Counting
<1>1. Induction
  BY IntervalInduction DEF Induction
<1>2. LeastMember
  BY LeastOfNats DEF LeastMember
<1>3. GreatestMember
  BY GreatestBelow DEF GreatestMember
<1>4. CountIsNat /\ CountNone /\ CountOne
  BY FS_CardinalityType, FS_EmptySet, FS_Singleton DEF CountIsNat, CountNone, CountOne
<1>5. CountAdd
  BY FS_AddElement DEF CountAdd
<1>6. CountRemove
  BY FS_RemoveElement DEF CountRemove
<1>7. CountSubset
  BY FS_Subset DEF CountSubset
<1>8. CountUnion
  BY FS_Union DEF CountUnion
<1>9. CountInterval
  BY FS_Interval DEF CountInterval
<1>10. CountRun
  BY RunIsInterval DEF CountRun
<1> QED BY <1>1, <1>2, <1>3, <1>4, <1>5, <1>6, <1>7, <1>8, <1>9, <1>10 DEF Counting
=============================================================================
