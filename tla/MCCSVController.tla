-------------------------- MODULE MCCSVController --------------------------
(* Files of at most three lines, in any order, simulations beginning before *)
(* their first date, within and after.                                      *)
EXTENDS CSVController, SequencesExt

MCFiles == BoundedSeq(0 .. 3, 3)
MCDates == {}
MCStarts == {-1, 0, 2}

\* Arithmetic in which every date is a double.
exact(x) == x

\* Doubles of three significant bits: multiples of 2 in 8 .. 16, of 4 up to 32,
\* ties to the even one. A double has 53 bits, and 0.2 - 0 + 1 - 1 + 0 < 0.2.
ThreeBits == (0 .. 8) \cup {10, 12, 14, 16, 20, 24, 28, 32}
Distance(x, y) == IF x < y THEN y - x ELSE x - y
Even == {0, 2, 4, 6, 8, 12, 16, 24, 32}
rounded(x) ==
  LET nearest == {y \in ThreeBits : \A z \in ThreeBits : Distance(x, y) <= Distance(x, z)}
  IN IF Cardinality(nearest) = 1 THEN CHOOSE y \in nearest : TRUE
     ELSE CHOOSE y \in nearest : y \in Even
MCRoundedStarts == {8}
MCRoundedFiles == {<<0, d>> : d \in {3, 5}}
=============================================================================
