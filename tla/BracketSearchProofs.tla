------------------------ MODULE BracketSearchProofs ------------------------
(* For every list and every date the bisection stays in the list and finds  *)
(* the bracket. That it ends is checked by TLC only.                        *)
EXTENDS BracketSearch, TLAPS

\* What every step keeps: the types, the bounds around the date, the result.
IInv == TypeOK /\ LoopInvariant /\ ReturnsTheBracket

USE DEF TypeOK, LoopInvariant, ReturnsTheBracket

\* The lists searched are sequences of dated points, sorted by date.
LEMMA ListFacts ==
  ASSUME NEW l \in Lists
  PROVE  /\ l \in Seq([t : Int])
         /\ Len(l) \in Nat
         /\ \A i \in 1 .. Len(l) : l[i].t \in Int
         /\ \A i, j \in 1 .. Len(l) : i < j => l[i].t < l[j].t
<1> DEFINE P == [t : Int]
<1>1. l \in Seq(P) /\ Increasing(l)
  BY ListsAssumption
<1>2. \A p \in P : p.t \in Int
  OBVIOUS
<1> HIDE DEF P
<1>3. Len(l) \in Nat /\ \A i \in 1 .. Len(l) : l[i] \in P
  BY <1>1
<1>4. QED BY <1>1, <1>2, <1>3 DEF Increasing, P

\* Neighbours are in order.
LEMMA Neighbours ==
  ASSUME NEW l \in Lists, NEW k \in 1 .. Len(l) - 1
  PROVE  l[k].t < l[k + 1].t
<1>1. k \in 1 .. Len(l) /\ k + 1 \in 1 .. Len(l) /\ k < k + 1
  BY ListFacts
<1>2. QED BY <1>1, ListFacts

\* An index is the bracket when the point there is at the date or after it and
\* the point before it is before the date: the list is sorted.
LEMMA BracketFromNeighbours ==
  ASSUME NEW l \in Lists, NEW u \in Int, NEW k \in 0 .. Len(l),
         k > 0 => l[k].t < u,
         k < Len(l) => u <= l[k + 1].t
  PROVE  IsBracket(l, u, k)
<1>1. ASSUME NEW i \in 1 .. k PROVE l[i].t < u
  <2>1. i \in 1 .. Len(l) /\ k \in 1 .. Len(l) /\ l[i].t \in Int /\ l[k].t \in Int
    BY ListFacts
  <2>2. i = k \/ l[i].t < l[k].t
    BY <2>1, ListFacts
  <2>3. QED BY <2>1, <2>2
<1>2. ASSUME NEW i \in k + 1 .. Len(l) PROVE l[i].t >= u
  <2>1. i \in 1 .. Len(l) /\ k + 1 \in 1 .. Len(l) /\ l[i].t \in Int
        /\ l[k + 1].t \in Int
    BY ListFacts
  <2>2. i = k + 1 \/ l[k + 1].t < l[i].t
    BY <2>1, ListFacts
  <2>3. QED BY <2>1, <2>2
<1>3. QED BY <1>1, <1>2 DEF IsBracket

LEMMA EarlyReturnInv == IInv /\ EarlyReturn => IInv'
<1> SUFFICES ASSUME IInv, EarlyReturn PROVE IInv'
  OBVIOUS
<1>0. /\ t \in Int /\ L' = L /\ t' = t /\ pc' = "returned" /\ L \in Lists
      /\ Len(L) \in Nat
  BY InstantsAssumption, ListFacts DEF IInv, EarlyReturn, Return
<1>1. CASE L = <<>>
  <2>1. idx' = 0 /\ Len(L) = 0
    BY <1>1 DEF EarlyReturn, Return
  <2>2. QED BY <2>1, <1>0, BracketFromNeighbours DEF IInv, EarlyReturn, Return
<1>2. CASE L # <<>> /\ L[Len(L)].t < t
  <2>1. idx' = Len(L)
    BY <1>2 DEF EarlyReturn, Return
  <2>2. IsBracket(L, t, Len(L))
    BY <1>0, <1>2, BracketFromNeighbours
  <2>3. QED BY <2>1, <2>2, <1>0 DEF IInv, EarlyReturn, Return
<1>3. CASE L # <<>> /\ ~(L[Len(L)].t < t)
  <2>1. idx' = 0 /\ L[1].t >= t
    BY <1>3 DEF EarlyReturn, Return
  <2>2. IsBracket(L, t, 0)
    BY <2>1, <1>0, BracketFromNeighbours, ListFacts
  <2>3. QED BY <2>1, <2>2, <1>0, <1>3 DEF IInv, EarlyReturn, Return
<1>4. QED BY <1>1, <1>2, <1>3

LEMMA EnterInv == IInv /\ Enter => IInv'
<1> SUFFICES ASSUME IInv, Enter PROVE IInv'
  OBVIOUS
<1>1. /\ L \in Lists /\ t \in Int /\ Len(L) \in Nat /\ Len(L) > 0
      /\ L[1].t < t /\ t <= L[Len(L)].t
  BY InstantsAssumption, ListFacts DEF IInv, Enter
<1>2. L[1].t \in Int /\ L[Len(L)].t \in Int
  BY <1>1, ListFacts
<1>3. Len(L) # 1
  BY <1>1, <1>2
<1>4. (Len(L) - 1) + 1 = Len(L) /\ 0 + 1 = 1
  BY <1>1
<1>5. QED BY <1>1, <1>3, <1>4 DEF IInv, Enter

LEMMA IterateInv == IInv /\ Iterate => IInv'
<1> SUFFICES ASSUME IInv, Iterate PROVE IInv'
  OBVIOUS
<1> DEFINE middle == (idx_lower + idx_greater) \div 2
<1>0. /\ L \in Lists /\ t \in Int /\ Len(L) \in Nat /\ pc = "loop"
      /\ idx_lower \in Nat /\ idx_greater \in Nat
      /\ idx_lower < idx_greater /\ idx_greater < Len(L)
      /\ L[idx_lower + 1].t < t /\ t <= L[idx_greater + 1].t
  BY InstantsAssumption, ListFacts DEF IInv, Iterate
<1>1. CASE t = L[idx_greater + 1].t
  <2>1. IsBracket(L, t, idx_greater)
    <3>1. L[idx_greater].t < L[idx_greater + 1].t
      BY <1>0, Neighbours
    <3>2. QED BY <3>1, <1>0, <1>1, BracketFromNeighbours
  <2>2. QED BY <2>1, <1>0, <1>1 DEF IInv, Iterate, Return
<1>2. CASE t # L[idx_greater + 1].t /\ idx_greater <= idx_lower + 1
  <2>1. IsBracket(L, t, idx_greater)
    BY <1>0, <1>2, BracketFromNeighbours
  <2>2. QED BY <2>1, <1>0, <1>2 DEF IInv, Iterate, Return
<1>3. CASE t # L[idx_greater + 1].t /\ ~(idx_greater <= idx_lower + 1)
  <2>0. middle \in Nat /\ idx_lower < middle /\ middle < idx_greater
    BY <1>0, <1>3
  <2> HIDE DEF middle
  <2>1. CASE t = L[middle + 1].t
    <3>1. L[middle].t < L[middle + 1].t
      BY <1>0, <2>0, Neighbours
    <3>2. IsBracket(L, t, middle)
      BY <3>1, <2>1, <1>0, <2>0, BracketFromNeighbours
    <3>3. Return(middle)
      BY <1>0, <1>3, <2>1 DEF Iterate, middle
    <3>4. QED BY <3>2, <3>3, <1>0, <2>0 DEF IInv, Return
  <2>2. CASE t # L[middle + 1].t
    <3>1. Halve(middle)
      BY <1>0, <1>3, <2>2 DEF Iterate, middle
    <3>2. L[middle + 1].t \in Int
      BY <1>0, <2>0, ListFacts
    <3>3. QED BY <3>1, <3>2, <1>0, <2>0, <2>2 DEF IInv, Halve
  <2>3. QED BY <2>1, <2>2
<1>4. QED BY <1>1, <1>2, <1>3

LEMMA Invariance == Spec => []IInv
<1>1. Init => IInv
  BY DEF Init, IInv
<1>2. IInv /\ [Next]_vars => IInv'
  <2> SUFFICES ASSUME IInv, [Next]_vars PROVE IInv'
    OBVIOUS
  <2>1. CASE UNCHANGED vars
    BY <2>1 DEF IInv, vars
  <2>2. QED
    BY <2>1, EarlyReturnInv, EnterInv, IterateInv DEF Next
<1>3. QED BY <1>1, <1>2, PTL DEF Spec

\* The indices stay natural numbers, and the list and the date stay the ones
\* the search began with.
THEOREM IndicesAreNatural == Spec => []TypeOK
<1>1. IInv => TypeOK
  BY DEF IInv
<1>2. QED BY <1>1, Invariance, PTL

\* find_braketing_position never reads out of the list: the two bounds stay in
\* it, in order and around the date, for lists of every length.
THEOREM BoundsEncloseTheDate == Spec => []LoopInvariant
<1>1. IInv => LoopInvariant
  BY DEF IInv
<1>2. QED BY <1>1, Invariance, PTL

\* find_braketing_position returns the index of the first point at the date or
\* after it, for lists of every length.
THEOREM SearchIsCorrect == Spec => []ReturnsTheBracket
<1>1. IInv => ReturnsTheBracket
  BY DEF IInv
<1>2. QED BY <1>1, Invariance, PTL
=============================================================================
