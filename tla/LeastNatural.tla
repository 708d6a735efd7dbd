---------------------------- MODULE LeastNatural ----------------------------
(* The induction principles of the proofs: least and greatest elements.     *)
EXTENDS Integers, WellFoundedInduction, TLAPS

\* A non-empty set of naturals has a least element.
LEMMA LeastNat ==
  ASSUME NEW T \in SUBSET Nat, T # {}
  PROVE  \E x \in T : \A y \in T : x <= y
<1> DEFINE R == {ss \in Nat \X Nat : ss[1] < ss[2]}
<1>1. IsWellFoundedOn(R, Nat)
  BY NatLessThanWellFounded DEF OpToRel
<1> HIDE DEF R
<1> T \subseteq Nat
  OBVIOUS
<1>2. \E x \in T : \A y \in T : ~(<<y, x>> \in R)
  BY <1>1, WFMin, Zenon
<1>3. \A x, y \in T : y < x => <<y, x>> \in R
  BY DEF R
<1>4. QED
  <2>1. PICK x \in T : \A y \in T : ~(<<y, x>> \in R)
    BY <1>2
  <2>2. ASSUME NEW y \in T PROVE x <= y
    <3>1. ~(y < x)
      BY <1>3, <2>1
    <3>2. x \in Nat /\ y \in Nat
      OBVIOUS
    <3>3. QED BY <3>1, <3>2
  <2>3. QED BY <2>2

\* A set of integers with a lower bound has a least element.
LEMMA LeastAbove ==
  ASSUME NEW S \in SUBSET Int, S # {}, NEW b \in Int, \A x \in S : b <= x
  PROVE  \E x \in S : \A y \in S : x <= y
<1> DEFINE T == {m \in Nat : b + m \in S}
<1>1. PICK x0 \in S : TRUE
  OBVIOUS
<1>2. x0 - b \in T
  BY <1>1
<1>3. T \in SUBSET Nat /\ T # {}
  BY <1>2
<1>4. PICK m \in T : \A y \in T : m <= y
  BY <1>3, LeastNat
<1>5. b + m \in S
  OBVIOUS
<1>6. ASSUME NEW x \in S PROVE b + m <= x
  <2>1. x - b \in T
    OBVIOUS
  <2>2. m <= x - b
    <3> HIDE DEF T
    <3>1. QED BY <2>1, <1>4
  <2>3. m \in Int /\ x \in Int
    OBVIOUS
  <2>4. QED BY <2>2, <2>3
<1>7. QED BY <1>5, <1>6

\* A set of integers with an upper bound has a greatest element.
LEMMA GreatestBelow ==
  ASSUME NEW S \in SUBSET Int, S # {}, NEW b \in Int, \A x \in S : x <= b
  PROVE  \E x \in S : \A y \in S : y <= x
<1> DEFINE T == {m \in Int : -m \in S}
<1>1. \A y \in S : -y \in T /\ y \in Int
  OBVIOUS
<1>2. T \in SUBSET Int /\ T # {} /\ -b \in Int
  <2>1. PICK x \in S : TRUE
    OBVIOUS
  <2>2. -x \in T
    BY <1>1
  <2>3. QED BY <2>2
<1>3. ASSUME NEW m \in T PROVE -b <= m
  <2>1. m \in Int /\ -m <= b
    OBVIOUS
  <2>2. QED BY <2>1
<1>4. PICK m \in T : \A y \in T : m <= y
  <2> HIDE DEF T
  <2>1. QED BY <1>2, <1>3, LeastAbove
<1>5. -m \in S /\ m \in Int
  OBVIOUS
<1> HIDE DEF T
<1>6. ASSUME NEW y \in S PROVE y <= -m
  <2>1. m <= -y /\ y \in Int
    BY <1>1, <1>4
  <2>2. QED BY <2>1, <1>5
<1>7. QED BY <1>5, <1>6

\* What holds at a, and at k + 1 when it does at k, holds from a to b.
LEMMA InductionUpTo ==
  ASSUME NEW a \in Int, NEW b \in Int, NEW T, a \in T,
         \A k \in a .. b - 1 : k \in T => k + 1 \in T
  PROVE  \A k \in a .. b : k \in T
<1> DEFINE S == {k \in a .. b : k \notin T}
<1>1. SUFFICES ASSUME S # {} PROVE FALSE
  OBVIOUS
<1>2. PICK m \in S : \A y \in S : m <= y
  <2>1. S \in SUBSET Int /\ \A y \in S : a <= y
    OBVIOUS
  <2> HIDE DEF S
  <2>2. QED BY <1>1, <2>1, LeastAbove
<1>3. m \in a .. b /\ m \notin T /\ m # a
  OBVIOUS
<1>4. m - 1 \in a .. b - 1 /\ m - 1 \in a .. b /\ ~(m <= m - 1) /\ (m - 1) + 1 = m
  BY <1>3
<1>5. m - 1 \notin S
  BY <1>2, <1>4
<1>6. m - 1 \in T
  BY <1>4, <1>5
<1>7. (m - 1) + 1 \in T
  BY <1>4, <1>6
<1>8. QED BY <1>3, <1>4, <1>7
=============================================================================
