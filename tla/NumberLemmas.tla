------------------------------ MODULE NumberLemmas ------------------------------
(* Sets of numbers have smallest and largest elements: what the other proofs use in   *)
(* the place of induction.                                                            *)
EXTENDS Integers, WellFoundedInduction, TLAPS

\* A non-empty set of numbers has a smallest one.
LEMMA Smallest ==
    ASSUME NEW T, T \subseteq Nat, T # {}
    PROVE  \E x \in T : \A y \in T : x <= y
<1> DEFINE R == OpToRel(<, Nat)
<1>1. IsWellFoundedOn(R, Nat)
  BY NatLessThanWellFounded
<1>2. \A x, y \in Nat : x < y => <<x, y>> \in R
  BY DEF OpToRel
<1> HIDE DEF R
<1>3. PICK x \in T : \A y \in T : ~(<<y, x>> \in R)
  BY <1>1, WFMin
<1>4. \A y \in T : ~(y < x)
  BY <1>2, <1>3
<1> QED
  BY <1>4

\* One that is bounded has a largest one.
LEMMA Largest ==
    ASSUME NEW n \in Nat, NEW T, T \subseteq 0 .. n, T # {}
    PROVE  \E x \in T : \A y \in T : y <= x
<1> DEFINE U == {m \in Nat : n - m \in T}
<1>1. PICK t \in T : t \in 0 .. n
  OBVIOUS
<1>2. n - t \in U
  BY <1>1
<1>3. PICK u \in U : \A m \in U : u <= m
  <2>1. U \subseteq Nat /\ U # {}
    BY <1>2
  <2> HIDE DEF U
  <2> QED
    BY <2>1, Smallest
<1>4. \A y \in T : y \in Nat /\ n - y \in U
  OBVIOUS
<1>5. u \in Nat /\ n - u \in T
  OBVIOUS
<1>6. \A y \in T : y <= n - u
  <2> HIDE DEF U
  <2> QED
    BY <1>3, <1>4, <1>5
<1> QED
  BY <1>5, <1>6

\* The same of the subsets of a range.
LEMMA LargestOfAny ==
    \A n \in Nat : \A T \in SUBSET (0 .. n) : T # {} => \E x \in T : \A y \in T : y <= x
BY Largest
=============================================================================
