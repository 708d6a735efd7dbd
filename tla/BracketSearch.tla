--------------------------- MODULE BracketSearch ---------------------------
(***************************************************************************)
(* The bisection of History::find_braketing_position, one action per pass   *)
(* through its loop, for a list of points and a date that do not change.    *)
(***************************************************************************)
EXTENDS Bracketing

CONSTANTS
  Lists,     \* the lists of points to search
  Instants   \* the dates to look for

ASSUME ListsAssumption ==
  /\ Lists \subseteq Seq([t : Int])
  /\ \A l \in Lists : Increasing(l)
ASSUME InstantsAssumption == Instants \subseteq Int

VARIABLES
  L,            \* the stored points
  t,            \* the date looked for
  idx_lower,
  idx_greater,
  pc,           \* "entry", "loop" or "returned"
  idx           \* what was returned

vars == <<L, t, idx_lower, idx_greater, pc, idx>>

Return(k) ==
  /\ idx' = k
  /\ pc' = "returned"
  /\ UNCHANGED <<L, t, idx_lower, idx_greater>>

Init ==
  /\ L \in Lists
  /\ t \in Instants
  /\ idx_lower = 0
  /\ idx_greater = 0
  /\ pc = "entry"
  /\ idx = 0

\* A seeded fault: one past the end for a date after the last point, without
\* the test for an empty list.
EarlyReturn_LastIndex ==
  /\ pc = "entry"
  /\ IF L = <<>> \/ L[Len(L)].t < t THEN Return(Len(L) - 1)
     ELSE L[1].t >= t /\ Return(0)

\* Nothing stored, a date after the last point, one not after the first.
EarlyReturn ==
  /\ pc = "entry"
  /\ IF L = <<>> THEN Return(0)
     ELSE IF L[Len(L)].t < t THEN Return(Len(L))
     ELSE L[1].t >= t /\ Return(0)

\* A seeded fault: the upper bound begins past the last point.
Enter_PastTheEnd ==
  /\ pc = "entry"
  /\ Len(L) > 0 /\ L[1].t < t /\ t <= L[Len(L)].t
  /\ idx_lower' = 0
  /\ idx_greater' = Len(L)
  /\ pc' = "loop"
  /\ UNCHANGED <<L, t, idx>>

Enter ==
  /\ pc = "entry"
  /\ Len(L) > 0 /\ L[1].t < t /\ t <= L[Len(L)].t
  /\ idx_lower' = 0
  /\ idx_greater' = Len(L) - 1
  /\ pc' = "loop"
  /\ UNCHANGED <<L, t, idx>>

\* The middle of the interval replaces the bound on the same side of t.
Halve(middle) ==
  /\ IF t < L[middle + 1].t
     THEN idx_greater' = middle /\ UNCHANGED idx_lower
     ELSE idx_lower' = middle /\ UNCHANGED idx_greater
  /\ UNCHANGED <<L, t, pc, idx>>

\* Seeded faults: the lower of two neighbours is returned; the loop goes on
\* until both bounds meet.
Iterate_LowerNeighbour ==
  /\ pc = "loop"
  /\ LET middle == (idx_lower + idx_greater) \div 2
     IN IF t = L[idx_greater + 1].t THEN Return(idx_greater)
        ELSE IF idx_greater <= idx_lower + 1 THEN Return(idx_lower)
        ELSE IF t = L[middle + 1].t THEN Return(middle)
        ELSE Halve(middle)
Iterate_UntilBoundsMeet ==
  /\ pc = "loop"
  /\ LET middle == (idx_lower + idx_greater) \div 2
     IN IF t = L[idx_greater + 1].t THEN Return(idx_greater)
        ELSE IF idx_greater <= idx_lower THEN Return(idx_greater)
        ELSE IF t = L[middle + 1].t THEN Return(middle)
        ELSE Halve(middle)

Iterate ==
  /\ pc = "loop"
  /\ LET middle == (idx_lower + idx_greater) \div 2
     IN IF t = L[idx_lower + 1].t THEN Return(idx_lower)
        ELSE IF t = L[idx_greater + 1].t THEN Return(idx_greater)
        ELSE IF idx_greater <= idx_lower + 1 THEN Return(idx_greater)
        ELSE IF t = L[middle + 1].t THEN Return(middle)
        ELSE Halve(middle)

Next == EarlyReturn \/ Enter \/ Iterate

Spec == Init /\ [][Next]_vars

\* The search is a loop of one thread: it never pauses.
FairSpec == Spec /\ WF_vars(Next)

-----------------------------------------------------------------------------
(* Properties *)

\* The indices stay within the list and the strings name the loop's places.
TypeOK ==
  /\ L \in Lists
  /\ t \in Instants
  /\ pc \in {"entry", "loop", "returned"}
  /\ idx_lower \in Nat /\ idx_greater \in Nat /\ idx \in Nat

\* In the loop the date looked for is strictly between the two bounds, or
\* equal to the upper one, and no index read is out of the list.
LoopInvariant ==
  pc = "loop" =>
    /\ idx_lower < idx_greater
    /\ idx_greater < Len(L)
    /\ L[idx_lower + 1].t < t
    /\ t <= L[idx_greater + 1].t

\* The index returned is that of the first point at the date or after it, for
\* every list, also one with one or two points or a date it holds.
ReturnsTheBracket == pc = "returned" => IsBracket(L, t, idx)

\* The loop ends: the interval shrinks at every pass that does not return.
Terminates == <>(pc = "returned")
=============================================================================
