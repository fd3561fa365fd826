------------------------------ MODULE Counting ------------------------------
(***************************************************************************)
(* The facts about intervals and cardinalities that the proofs share.      *)
(* They are theorems (IntervalTheorems proves Counting); the lemmas of the *)
(* components take Counting as an assumption, and their theorems discharge *)
(* it, so that the lemmas do not depend on the library of finite sets.     *)
(***************************************************************************)
EXTENDS Integers, FiniteSets

\* A set that holds 0 and, with every i below n, i + 1, holds all of 0..n.
Induction ==
  \A n \in Nat : \A D :
    0 \in D /\ (\A i \in 0..n : i \in D /\ i < n => i + 1 \in D) => 0..n \subseteq D

LeastMember == \A S \in SUBSET Nat : S # {} => \E m \in S : \A n \in S : m <= n

GreatestMember ==
  \A n \in Nat : \A S \in SUBSET (0..n) : S # {} => \E x \in S : \A y \in S : x >= y

CountIsNat == \A S : IsFiniteSet(S) => Cardinality(S) \in Nat

CountNone == IsFiniteSet({}) /\ Cardinality({}) = 0

CountOne == \A x : IsFiniteSet({x}) /\ Cardinality({x}) = 1

CountAdd ==
  \A S, x : IsFiniteSet(S) =>
    /\ IsFiniteSet(S \cup {x})
    /\ Cardinality(S \cup {x}) = IF x \in S THEN Cardinality(S) ELSE Cardinality(S) + 1

CountRemove ==
  \A S, x : IsFiniteSet(S) =>
    /\ IsFiniteSet(S \ {x})
    /\ Cardinality(S \ {x}) = IF x \in S THEN Cardinality(S) - 1 ELSE Cardinality(S)

CountSubset ==
  \A S : \A T \in SUBSET S : IsFiniteSet(S) =>
    /\ IsFiniteSet(T)
    /\ Cardinality(T) <= Cardinality(S)
    /\ Cardinality(S) = Cardinality(T) => S = T

CountUnion ==
  \A S, T : IsFiniteSet(S) /\ IsFiniteSet(T) =>
    /\ IsFiniteSet(S \cup T)
    /\ Cardinality(S \cup T) = Cardinality(S) + Cardinality(T) - Cardinality(S \cap T)

CountInterval ==
  \A a, b \in Int :
    IsFiniteSet(a..b) /\ Cardinality(a..b) = IF a > b THEN 0 ELSE b - a + 1

\* A finite set of numbers from m up that holds, with every n, all of m..n is the
\* interval that starts at m and has as many members.
CountRun ==
  \A m \in Nat : \A R \in SUBSET Nat :
    IsFiniteSet(R) /\ (\A n \in R : m <= n /\ m..n \subseteq R) =>
      Cardinality(R) \in Nat /\ R = m..(m + Cardinality(R) - 1)

Counting ==
  /\ Induction /\ LeastMember /\ GreatestMember
  /\ CountIsNat /\ CountNone /\ CountOne /\ CountAdd /\ CountRemove
  /\ CountSubset /\ CountUnion /\ CountInterval /\ CountRun
=============================================================================
