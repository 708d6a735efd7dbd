-------------------------- MODULE MCBracketSearch --------------------------
(* All lists of at most six points on the even dates 0 .. 10, all dates. *)
EXTENDS BracketSearch, FiniteSets, SequencesExt

MCInstants == -1 .. 11
Dates == {0, 2, 4, 6, 8, 10}
MCLists ==
  {LET s == SetToSortSeq(D, <) IN [i \in 1 .. Len(s) |-> [t |-> s[i]]]
     : D \in SUBSET Dates}
=============================================================================
