------------------------------ MODULE History ------------------------------
(***************************************************************************)
(* The sliding window of past values kept for each of the thirteen states  *)
(* of a body (xdyn/hdb_interpolators/History.cpp): the radiation damping    *)
(* convolution, the states filter and the external force models read it.    *)
(*                                                                         *)
(* Instants are integers: two dates that "almost_equal" calls equal are one *)
(* instant here. What is recorded at an instant is an opaque value. A       *)
(* stored value is the set of samples it was computed from: one sample for  *)
(* a recorded value, two for a point on the segment that joins two samples. *)
(* Interpolating therefore joins the sets of both ends, and a value         *)
(* computed from anything else than the samples around its instant shows.   *)
(***************************************************************************)
EXTENDS Integers, SequencesExt, Bracketing

CONSTANTS
  Tmax,      \* length of the window, as given to the constructor
  Instants,  \* the dates the solver may hand over
  Steps,     \* by how much the date may grow from one record to the next
  Values     \* what is recorded

ASSUME TmaxAssumption == Tmax \in Nat
ASSUME InstantsAssumption == Instants \subseteq Int
ASSUME StepsAssumption == Steps \subseteq Nat

VARIABLES
  L,                        \* the stored points, oldest first
  oldest_recorded_instant,
  log                       \* history variable: all samples since the reset

vars == <<L, oldest_recorded_instant, log>>

Sample == [t : Int, v : Values]
Point == [t : Int, from : SUBSET Sample]

IsEmpty == L = <<>>
get_current_time == IF IsEmpty THEN oldest_recorded_instant ELSE Last(L).t
get_duration == IF IsEmpty THEN 0 ELSE Last(L).t - L[1].t

-----------------------------------------------------------------------------
(* Reading the window *)

\* find_braketing_position(l, t) is in Bracketing; module BracketSearch checks
\* the bisection that computes it.

\* The value at t on the line through the points of 0-based index idx - 1
\* and idx: whether t lies between them is the caller's business.
interpolate_value_in_interval(l, idx, t) ==
  IF idx = 0 \/ idx >= Len(l) THEN l[1].from
  ELSE LET A == l[idx]
           B == l[idx + 1]
       IN CASE t = A.t -> A.from
            [] t # A.t /\ t = B.t -> B.from
            [] OTHER -> A.from \cup B.from

get_value(tau) ==
  LET t == get_current_time - tau
  IN interpolate_value_in_interval(L, find_braketing_position(L, t), t)

\* operator() for tau >= 0 (a negative tau throws). Beyond Tmax the value is
\* read at Tmax without looking at whether there is one.
ValueAt(tau) ==
  IF tau > Tmax THEN get_value(Tmax)
  ELSE IF IsEmpty THEN {} ELSE get_value(tau)

\* A seeded fault: the length to average is not bounded by what is stored.
AverageIntervals_Unbounded(T) ==
  LET t   == get_current_time - T
      idx == find_braketing_position(L, t)
  IN <<[from |-> t, to |-> L[idx + 1].t]>>
       \o [i \in 1 .. Len(L) - idx - 1 |->
             [from |-> L[idx + i].t, to |-> L[idx + i + 1].t]]

\* The trapezes that average(T) adds up, T > 0, for two points or more.
AverageIntervals(T) ==
  LET length == IF T < get_duration THEN T ELSE get_duration
      t      == get_current_time - length
      idx    == find_braketing_position(L, t)
  IN <<[from |-> t, to |-> L[idx + 1].t]>>
       \o [i \in 1 .. Len(L) - idx - 1 |->
             [from |-> L[idx + i].t, to |-> L[idx + i + 1].t]]

-----------------------------------------------------------------------------
(* Recording *)

\* Seeded faults: the date is stored as the value; a second record at a date is
\* inserted beside the first, or dropped.
add_value_to_history_Date(l, t, v) ==
  InsertAt(l, find_braketing_position(l, t) + 1,
           [t |-> t, from |-> {[t |-> t, v |-> t]}])
add_value_to_history_Twice(l, t, v) ==
  InsertAt(l, find_braketing_position(l, t) + 1,
           [t |-> t, from |-> {[t |-> t, v |-> v]}])
add_value_to_history_Once(l, t, v) ==
  IF \E i \in 1 .. Len(l) : l[i].t = t THEN l
  ELSE Append(l, [t |-> t, from |-> {[t |-> t, v |-> v]}])

add_value_to_history(l, t, v) ==
  LET idx   == find_braketing_position(l, t)
      added == [t |-> t, from |-> {[t |-> t, v |-> v]}]
  IN IF idx # Len(l) /\ l[idx + 1].t = t
     THEN ReplaceAt(l, idx + 1, added)
     ELSE InsertAt(l, idx + 1, added)

\* A seeded fault: the new front overwrites the first point kept.
shift_oldest_Overwrite(l, start) ==
  LET idx  == find_braketing_position(l, start)
      vmin == interpolate_value_in_interval(l, 1, start)
  IN ReplaceAt(SubSeq(l, idx + 1, Len(l)), 1, [t |-> start, from |-> vmin])

\* What remains of l when the window starts at start: the value put at its
\* front is always taken from the first two points of l.
shift_oldest(l, start) ==
  LET idx  == find_braketing_position(l, start)
      vmin == interpolate_value_in_interval(l, 1, start)
      kept == SubSeq(l, idx + 1, Len(l))
  IN IF kept[1].t = start THEN kept
     ELSE Cons([t |-> start, from |-> vmin], kept)

\* A seeded fault: the first record after a reset is not looked at.
update_oldest_recorded_instant_Earliest(t) ==
  IF t < oldest_recorded_instant THEN t ELSE oldest_recorded_instant

update_oldest_recorded_instant(t) ==
  IF IsEmpty \/ t < oldest_recorded_instant THEN t ELSE oldest_recorded_instant

\* Dates go forward (record throws, and changes nothing, when they do not); a
\* date equal to the last one replaces the last value.
record(t, v) ==
  /\ ~IsEmpty => t >= Last(L).t
  /\ LET oldest == update_oldest_recorded_instant(t)
         added  == add_value_to_history(L, t, v)
         full   == Last(added).t - oldest >= Tmax
     IN /\ L' = IF full THEN shift_oldest(added, Last(added).t - Tmax) ELSE added
        /\ oldest_recorded_instant' = IF full THEN Last(added).t - Tmax ELSE oldest
  /\ log' = {s \in log : s.t # t} \cup {[t |-> t, v |-> v]}

reset ==
  /\ L' = <<>>
  /\ oldest_recorded_instant' = 0
  /\ log' = {}

Init ==
  /\ L = <<>>
  /\ oldest_recorded_instant = 0
  /\ log = {}

\* The solver's pace: any first date, then one of the steps.
Paced(t) == ~IsEmpty => t - Last(L).t \in Steps

Next ==
  \/ \E t \in Instants, v \in Values : Paced(t) /\ record(t, v)
  \/ reset

Spec == Init /\ [][Next]_vars

-----------------------------------------------------------------------------
(* Properties *)

\* The stored points have types, and the recorded dates too.
TypeOK ==
  /\ L \in Seq(Point)
  /\ oldest_recorded_instant \in Int
  /\ log \in SUBSET Sample

\* The dates of the stored points strictly increase, whatever was replaced,
\* dropped at the front and re-inserted there: every bisection and every
\* division by an interval's length rests on it.
StrictlyIncreasing == Increasing(L)

\* The window starts at the first record or, once the records span Tmax,
\* exactly Tmax before the last one; oldest_recorded_instant says so too.
WindowStart ==
  ~IsEmpty =>
    LET first == Min({s.t : s \in log})
        now   == Max({s.t : s \in log})
    IN /\ Last(L).t = now
       /\ L[1].t = oldest_recorded_instant
       /\ L[1].t = IF now - first >= Tmax THEN now - Tmax ELSE first

\* Every sample more recent than the start of the window is stored, with the
\* last value recorded at its date, and apart from its front the window stores
\* nothing else.
NoSampleLost ==
  ~IsEmpty =>
    {L[i] : i \in 2 .. Len(L)}
      = {[t |-> s.t, from |-> {s}] : s \in {x \in log : x.t > L[1].t}}

\* What the signal was at t: the sample there, or the segment that joins the
\* samples just before and just after.
Reference(t) ==
  LET before == {s \in log : s.t <= t}
      after  == {s \in log : s.t >= t}
  IN {s \in before : \A r \in before : r.t <= s.t}
       \cup {s \in after : \A r \in after : s.t <= r.t}

\* operator()(tau) is the value of the signal tau before the last record, for
\* every tau the window reaches ("Returns the value at t-tau, t being the
\* current instant", History.hpp): it is computed from the samples around that
\* instant, and from no older or replaced one.
QueryIsFaithful ==
  ~IsEmpty => \A tau \in 0 .. get_duration :
                ValueAt(tau) = Reference(get_current_time - tau)

\* The dates recorded so far are those of a fixed-step solver whose step divides
\* Tmax.
OnAGrid ==
  LET dates == {s.t : s \in log}
  IN \E d \in 1 .. Tmax :
       /\ Tmax % d = 0
       /\ dates = {t \in Min(dates) .. Max(dates) : (t - Min(dates)) % d = 0}

\* On such a grid the front of the window is always a sample: whatever is dropped
\* and whatever is recorded twice at a date, no query sees an older value.
QueryIsFaithfulOnAGrid == ~IsEmpty /\ OnAGrid => QueryIsFaithful

\* The trapezes of average(T) follow each other without hole or overlap, from
\* T before the last record (or from the start of the window) to that record.
AverageTilesTheWindow ==
  Len(L) > 1 =>
    \A T \in 1 .. Tmax + 1 :
      LET parts == AverageIntervals(T)
      IN /\ parts[1].from = get_current_time - Min({T, get_duration})
         /\ parts[Len(parts)].to = get_current_time
         /\ \A i \in 1 .. Len(parts) :
              /\ parts[i].from <= parts[i].to
              /\ i > 1 => parts[i].from = parts[i - 1].to
=============================================================================
