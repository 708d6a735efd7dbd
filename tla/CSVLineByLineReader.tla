------------------------ MODULE CSVLineByLineReader ------------------------
(***************************************************************************)
(* The reader behind the CSV controller                                     *)
(* (xdyn/listeners_and_controllers/CSVLineByLineReader.cpp). Lines are      *)
(* indexed as they are first read; a request seeks back to the line that    *)
(* was current at its date and re-reads that line and the next.             *)
(*                                                                         *)
(* The file is the sequence of the dates of its lines. The values of a line *)
(* are its number; Zero stands for the commands set to zero before the      *)
(* first line and Empty for the absence of values after the last.           *)
(***************************************************************************)
EXTENDS Integers, Sequences, FiniteSetsExt

CONSTANTS
  Files,     \* the time columns a file may have
  Dates,     \* the dates get_values is called with
  Infinity   \* numeric_limits<double>::max()

ASSUME FilesAssumption ==
  \A f \in Files :
    f \in Seq(Int) /\ \A i \in 1 .. Len(f) : -Infinity < f[i] /\ f[i] < Infinity
ASSUME DatesAssumption == Dates \subseteq Int /\ \A t \in Dates : t < Infinity
ASSUME InfinityAssumption == Infinity \in Int

VARIABLES
  file,             \* the time column; the file itself does not change
  position,         \* the line the stream would read next
  current, next,    \* the lines around the last requested date
  has_more_values,
  date2position,    \* line number of each date read so far
  requested,        \* history variable: the last date get_values answered
  thrown            \* an InvalidInputException ended the simulation

vars == <<file, position, current, next, has_more_values, date2position,
          requested, thrown>>

Zero == 0
Empty == -1
DateValues == [date : Int, line : Int]
zero == [date |-> Infinity, line |-> Zero]

\* What read_next_line returns at line p of f.
read_next_line(f, p) ==
  IF p <= Len(f) THEN [date |-> f[p], line |-> p]
                 ELSE [date |-> Infinity, line |-> Empty]

\* The index after reading lines up to n: the first line of a date is kept.
Index(f, n) ==
  [d \in {f[i] : i \in 1 .. n} |-> Min({i \in 1 .. n : f[i] = d})]

\* Line i is refused when its date is new and not after all dates before it.
\* A date that was seen before passes for a line being read again.
Refused(f, i) ==
  /\ \A j \in 1 .. i - 1 : f[j] # f[i]
  /\ \E j \in 1 .. i - 1 : f[j] > f[i]

\* A seeded fault: the date past the end is left as it was read.
fix_next_date_Forgotten(cur, nxt) == nxt

\* After the last line the next date is the current one.
fix_next_date_on_end_of_file(cur, nxt) ==
  IF nxt.line = Empty THEN [nxt EXCEPT !.date = cur.date] ELSE nxt

\* A seeded fault: the stream is counted forward at the end of the file too.
ReadAround_PastTheEnd(cur, p) ==
  LET nxt == read_next_line(file, p)
  IN /\ current' = cur
     /\ next' = fix_next_date_on_end_of_file(cur, nxt)
     /\ position' = p + 1
     /\ has_more_values' = (nxt.line # Empty)

\* Put the stream after lines p and p + 1, with cur for the former.
ReadAround(cur, p) ==
  LET nxt == read_next_line(file, p)
  IN /\ current' = cur
     /\ next' = fix_next_date_on_end_of_file(cur, nxt)
     /\ position' = Min({p, Len(file)}) + 1
     /\ has_more_values' = (nxt.line # Empty)

\* The lines the loop of set_read_position goes through: all that the stream
\* has left, as soon as the date is not before that of the next line.
Pending(t) == IF t >= next.date THEN position .. Len(file) ELSE {}

\* A seeded fault: a line does not apply at its own date.
Covering_After(index, t) == {d \in DOMAIN index : d < t}

\* Found in the index: the last date not after t, or none.
Covering(index, t) == {d \in DOMAIN index : d <= t}

\* get_values(t): set_read_position, then the values of the current line.
get_values(t) ==
  /\ ~thrown
  /\ \A i \in Pending(t) : ~Refused(file, i)
  /\ LET index == IF Pending(t) = {} THEN date2position ELSE Index(file, Len(file))
     IN /\ date2position' = index
        /\ IF DOMAIN index = {}
           THEN ReadAround(read_next_line(file, position), position + 1)
           ELSE IF Covering(index, t) = {}
           THEN ReadAround(zero, 1)
           ELSE LET p == index[Max(Covering(index, t))]
                IN ReadAround(read_next_line(file, p), p + 1)
  /\ requested' = t
  /\ UNCHANGED <<file, thrown>>

\* The exception leaves the stream after the refused line, and the simulation.
refuse(t) ==
  /\ ~thrown
  /\ \E i \in Pending(t) :
       /\ Refused(file, i)
       /\ \A j \in Pending(t) : j < i => ~Refused(file, j)
       /\ date2position' = Index(file, i - 1)
       /\ position' = i + 1
  /\ thrown' = TRUE
  /\ has_more_values' = TRUE
  /\ UNCHANGED <<file, current, next, requested>>

\* The constructor reads the first line, and goes back before it.
Init ==
  /\ file \in Files
  /\ position = 1
  /\ current = zero
  /\ next = read_next_line(file, 1)
  /\ has_more_values = (Len(file) > 0)
  /\ date2position = Index(file, Min({1, Len(file)}))
  /\ requested = -Infinity
  /\ thrown = FALSE

Next == \E t \in Dates : get_values(t) \/ refuse(t)

Spec == Init /\ [][Next]_vars

eof == ~has_more_values

-----------------------------------------------------------------------------
(* Properties *)

\* Lines are within the file and the index points at lines with its dates.
TypeOK ==
  /\ file \in Files
  /\ position \in 1 .. Len(file) + 1
  /\ current \in DateValues /\ next \in DateValues
  /\ has_more_values \in BOOLEAN /\ thrown \in BOOLEAN
  /\ \A d \in DOMAIN date2position : file[date2position[d]] = d

Answered == requested > -Infinity /\ ~thrown

\* "If the CSV contains t0 and t1, querying t for t0 <= t < t1 will return
\* values in the t0 line" (CSVLineByLineReader.hpp), zero before the first
\* line: for any order of requests, also back in time, after part of the file
\* was read. Of lines with the same date, the first answers. A file with a line
\* dated before its first one is only refused once it is read further.
CurrentLineCoversTheDate ==
  Answered /\ file # <<>> /\ (\A i \in 1 .. Len(file) : file[1] <= file[i]) =>
    LET past == {i \in 1 .. Len(file) : file[i] <= requested}
    IN IF past = {} THEN current.line = Zero
       ELSE /\ current.line \in past
            /\ \A i \in past : \/ file[i] < file[current.line]
                               \/ file[i] = file[current.line] /\ current.line <= i

\* The date announced for the next call is that of the first line after the
\* requested date and, once there is none, eof says so and the date is that of
\* the current line ("we must enforce the condition next.date == current.date").
NextDateIsTheNextLine ==
  Answered /\ file # <<>> /\ (\A i \in 2 .. Len(file) : file[i - 1] < file[i]) =>
    LET future == {file[i] : i \in {j \in 1 .. Len(file) : file[j] > requested}}
    IN /\ eof <=> future = {}
       /\ next.date = IF future = {} THEN current.date ELSE Min(future)

\* "Values in time column should be increasing" is the reader's own message: a
\* file read to its end without an exception has increasing dates.
AcceptedDatesIncrease ==
  Answered /\ (\E i \in 1 .. Len(file) : file[i] <= requested) =>
    \A i \in 2 .. Len(file) : file[i - 1] < file[i]
=============================================================================
