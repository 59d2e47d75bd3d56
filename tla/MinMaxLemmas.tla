---------------------------- MODULE MinMaxLemmas ----------------------------
(***************************************************************************)
(* The minimum and the maximum of a set of naturals, as FiniteSetsExt      *)
(* defines them: what they are when the set is not empty.                  *)
(***************************************************************************)
EXTENDS Integers, FiniteSetsExt, WellFoundedInduction, TLAPS

\* A nonempty set of naturals has a minimum.
LEMMA MinOfNats ==
  ASSUME NEW S \in SUBSET Nat, S # {}
  PROVE  Min(S) \in S /\ \A y \in S : Min(S) =< y
  <1> DEFINE R == {p \in Nat \X Nat : p[1] < p[2]}
  <1>1. IsWellFoundedOn(R, Nat)
    BY NatLessThanWellFounded DEF OpToRel
  <1>2. PICK x \in S : \A y \in S : ~(<<y, x>> \in R)
    <2> HIDE DEF R
    <2> QED
      BY <1>1, WFMin
  <1>3. \A y \in S : x =< y
    <2> TAKE y \in S
    <2>1. x \in Nat /\ y \in Nat
      OBVIOUS
    <2>2. ~(<<y, x>> \in R)
      BY <1>2
    <2>3. <<y, x>> \in R <=> y < x
      BY <2>1
    <2> QED
      BY <2>1, <2>2, <2>3
  <1>4. \E z \in S : \A y \in S : z =< y
    BY <1>3
  <1> QED
    BY <1>4 DEF Min

\* A nonempty set of naturals with a bound has a maximum.
LEMMA MaxOfNats ==
  ASSUME NEW k \in Nat, NEW S \in SUBSET (0..k), S # {}
  PROVE  Max(S) \in S /\ \A y \in S : Max(S) >= y
  <1> DEFINE T == {k - x : x \in S}
  <1>0. PICK s \in S : TRUE
    OBVIOUS
  <1>1. T \in SUBSET Nat /\ T # {}
    <2>1. ASSUME NEW x \in S PROVE k - x \in Nat
      <3>1. x \in 0..k
        OBVIOUS
      <3> QED
        BY <3>1
    <2>2. k - s \in T
      OBVIOUS
    <2> QED
      BY <2>1, <2>2
  <1>2. PICK t \in T : \A y \in T : t =< y
    BY <1>1, MinOfNats
  <1>3. PICK x \in S : t = k - x
    OBVIOUS
  <1>4. ASSUME NEW y \in S PROVE x >= y
    <2>1. k - y \in T
      OBVIOUS
    <2>2. k - x =< k - y
      BY <1>2, <1>3, <2>1
    <2>3. x \in Nat /\ y \in Nat
      OBVIOUS
    <2> QED
      BY <2>2, <2>3
  <1>5. \E z \in S : \A y \in S : z >= y
    BY <1>4
  <1> QED
    BY <1>5 DEF Max

\* The minimum is the only member below all the others.
LEMMA MinIs ==
  ASSUME NEW S \in SUBSET Nat, NEW a \in S, \A y \in S : a =< y
  PROVE  Min(S) = a
  <1>1. Min(S) \in S /\ Min(S) =< a
    BY MinOfNats
  <1>2. a =< Min(S)
    BY <1>1
  <1>3. a \in Nat /\ Min(S) \in Nat
    BY <1>1
  <1> QED
    BY <1>1, <1>2, <1>3

\* A nonempty set of integers with a lower bound has a minimum.
LEMMA MinOfInts ==
  ASSUME NEW k \in Int, NEW S \in SUBSET Int, S # {}, \A x \in S : k =< x
  PROVE  Min(S) \in S /\ \A y \in S : Min(S) =< y
  <1> DEFINE T == {x - k : x \in S}
  <1>0. PICK s \in S : TRUE
    OBVIOUS
  <1>1. T \in SUBSET Nat /\ T # {}
    <2>1. ASSUME NEW x \in S PROVE x - k \in Nat
      <3>1. x \in Int /\ k =< x
        OBVIOUS
      <3> QED
        BY <3>1
    <2>2. s - k \in T
      OBVIOUS
    <2> QED
      BY <2>1, <2>2
  <1>2. PICK t \in T : \A y \in T : t =< y
    BY <1>1, MinOfNats
  <1>3. PICK x \in S : t = x - k
    OBVIOUS
  <1>4. ASSUME NEW y \in S PROVE x =< y
    <2>1. y - k \in T
      OBVIOUS
    <2>2. x - k =< y - k
      BY <1>2, <1>3, <2>1
    <2>3. x \in Int /\ y \in Int
      OBVIOUS
    <2> QED
      BY <2>2, <2>3
  <1>5. \E z \in S : \A y \in S : z =< y
    BY <1>4
  <1> QED
    BY <1>5 DEF Min

\* The greater of two integers.
LEMMA MaxOfTwo ==
  ASSUME NEW a \in Int, NEW b \in Int
  PROVE  Max({a, b}) \in {a, b} /\ Max({a, b}) >= a /\ Max({a, b}) >= b
  <1>1. \E z \in {a, b} : \A y \in {a, b} : z >= y
    <2>1. CASE a >= b
      <3>1. \A y \in {a, b} : a >= y
        BY <2>1
      <3> QED
        BY <3>1
    <2>2. CASE ~(a >= b)
      <3>1. \A y \in {a, b} : b >= y
        BY <2>2
      <3> QED
        BY <3>1
    <2> QED
      BY <2>1, <2>2
  <1> QED
    BY <1>1 DEF Max
=============================================================================
