----------------------------- MODULE MCHistory -----------------------------
(* Small instances of History: dates -1 .. 9, two recorded values. *)
EXTENDS History

\* A first date other than zero shows what a reset leaves behind.
MCInstants == -1 .. 9
\* Irregular steps, and a repeated date.
MCAnySteps == 0 .. 5
\* The steps of a fixed-step solver that calls twice at the same date.
MCFixedSteps == {0, 2}
=============================================================================
