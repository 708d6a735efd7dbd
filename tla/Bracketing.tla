----------------------------- MODULE Bracketing -----------------------------
(***************************************************************************)
(* What a bisection over a list of dated points has to return. Points are   *)
(* records with a date t; an index is the code's, counted from 0: the point *)
(* of index k is l[k + 1], and k = Len(l) is "past the last point".         *)
(***************************************************************************)
EXTENDS Integers, Sequences

\* The dates of l strictly increase.
Increasing(l) == \A i, j \in 1 .. Len(l) : i < j => l[i].t < l[j].t

\* k is the index of the first point of l that is at t or later.
IsBracket(l, t, k) ==
  /\ k \in 0 .. Len(l)
  /\ \A i \in 1 .. k : l[i].t < t
  /\ \A i \in k + 1 .. Len(l) : l[i].t >= t

find_braketing_position(l, t) == CHOOSE k \in 0 .. Len(l) : IsBracket(l, t, k)
=============================================================================
