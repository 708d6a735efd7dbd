---------------------------- MODULE MCCSVReader ----------------------------
(* All files of at most four lines with dates 0 .. 4, in any order, and     *)
(* requests from before the first to after the last.                        *)
EXTENDS CSVLineByLineReader, SequencesExt

MCFiles == BoundedSeq(0 .. 4, 4)
MCDates == -1 .. 5
=============================================================================
