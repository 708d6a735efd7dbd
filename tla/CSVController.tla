--------------------------- MODULE CSVController ---------------------------
(***************************************************************************)
(* The CSV controller (xdyn/listeners_and_controllers/CSVController.cpp) on *)
(* the scheduler of the simulation: a discrete system whose callback sets   *)
(* the commands to the values of the line covering the current date and     *)
(* asks to be called again at the date of the next line.                    *)
(*                                                                         *)
(* The scheduler and DiscreteSystem::callback belong to the ssc library and *)
(* are modelled from their use: a call due now is made before time goes on, *)
(* time stops at every call due, and a date that is not after the present   *)
(* one means "don't call the controller again".                             *)
(***************************************************************************)
EXTENDS CSVLineByLineReader

CONSTANTS
  Starts,    \* dates at which a simulation may begin
  Tend,      \* the date at which it ends
  fl(_)      \* the double nearest to a sum or a difference of doubles

ASSUME StartsAssumption ==
  /\ Starts \subseteq Int /\ \A s \in Starts : -Infinity < s /\ s < Infinity
  /\ Tend \in Int /\ Tend < Infinity

\* No shifted date overflows.
ASSUME ShiftAssumption ==
  \A f \in Files, s \in Starts : \A i \in 1 .. Len(f) : f[i] - f[1] + s < Infinity

VARIABLES
  shift_time_column,   \* "shift time column to match tstart", from the YAML
  now,                 \* the time of the scheduler
  tstart, got_tstart,  \* the date of the first call
  scheduled,           \* the date of the next call, Infinity when there is none
  command              \* the line whose values the commands have

controller == <<shift_time_column, now, tstart, got_tstart, scheduled, command>>

get_initial_date == Min(DOMAIN date2position)

\* A seeded fault: the first date of the file is taken to be zero.
shift_time_ToZero(t, start) == IF shift_time_column THEN fl(t - start) ELSE t

\* The date to look up in the file at simulation time t.
shift_time_if_necessary(t, start) ==
  IF shift_time_column THEN fl(fl(t - start) + get_initial_date) ELSE t

\* Seeded faults: the date of the file is not shifted back, or is shifted from
\* the date of this call instead of the first.
get_date_of_next_update_Unshifted(t) == IF eof THEN t ELSE next.date
get_date_of_next_update_FromNow(t) ==
  IF eof THEN t
  ELSE IF shift_time_column THEN fl(fl(next.date - get_initial_date) + t)
  ELSE next.date

get_date_of_next_update(t) ==
  IF eof THEN t
  ELSE IF shift_time_column THEN fl(fl(next.date - get_initial_date) + tstart)
  ELSE next.date

\* The date of the first line is needed to shift, and an empty file has none.
NoInitialDate == shift_time_column /\ date2position = <<>>

initialize_tstart_on_first_call ==
  /\ tstart' = IF got_tstart THEN tstart ELSE now
  /\ got_tstart' = TRUE

\* DiscreteSystem::callback: update_discrete_states, then schedule the next call.
callback ==
  /\ scheduled = now
  /\ ~NoInitialDate
  /\ UNCHANGED <<shift_time_column, now>>
  /\ initialize_tstart_on_first_call
  /\ get_values(shift_time_if_necessary(now, tstart'))
  /\ command' = IF current'.line = Empty THEN command ELSE current'.line
  /\ scheduled' = LET date == get_date_of_next_update(now)'
                  IN IF date > now THEN date ELSE Infinity

\* The callback throws: on a line out of order or for want of a first date.
callback_throws ==
  /\ scheduled = now
  /\ UNCHANGED <<shift_time_column, now, scheduled, command>>
  /\ initialize_tstart_on_first_call
  /\ IF NoInitialDate
     THEN /\ thrown' = TRUE /\ ~thrown
          /\ UNCHANGED <<file, position, current, next, has_more_values,
                         date2position, requested>>
     ELSE refuse(shift_time_if_necessary(now, tstart'))

\* The solver steps to any date before the next call, or to that call.
advance ==
  /\ ~thrown
  /\ \E t \in now + 1 .. Tend : t <= scheduled /\ now' = t
  /\ UNCHANGED <<vars, shift_time_column, tstart, got_tstart, scheduled, command>>

\* Commands are not set before the first call (Empty), which is at the start.
ControllerInit ==
  /\ Init
  /\ shift_time_column \in BOOLEAN
  /\ now \in Starts
  /\ tstart = -Infinity
  /\ got_tstart = FALSE
  /\ scheduled = now
  /\ command = Empty

ControllerNext == callback \/ callback_throws \/ advance

ControllerSpec == ControllerInit /\ [][ControllerNext]_<<vars, controller>>

\* Scheduler and solver go on until the end of the simulation.
ControllerFairSpec ==
  ControllerSpec /\ WF_<<vars, controller>>(callback \/ callback_throws)
                 /\ WF_<<vars, controller>>(advance)

-----------------------------------------------------------------------------
(* Properties *)

Increasing == \A i \in 2 .. Len(file) : file[i - 1] < file[i]

\* The simulation date from which line i of the file applies.
EffectiveDate(i) ==
  IF shift_time_column THEN file[i] - file[1] + tstart ELSE file[i]

\* "Shift each time instant so simulation's tstart matches the date of the
\* first line of the CSV file": between calls, whatever steps the solver takes,
\* the commands are those of the last line whose date has come, and zero before
\* the first.
CommandsFollowTheFile ==
  got_tstart /\ ~thrown /\ Increasing /\ scheduled # now /\ file # <<>> =>
    command = Max({0} \cup {i \in 1 .. Len(file) : EffectiveDate(i) <= now})

\* The only reason the code gives for not being called again is that "there are
\* no more values in the CSV file".
CalledAgainWhileValuesRemain ==
  got_tstart /\ ~thrown /\ Increasing /\ scheduled = Infinity => eof

\* Every line to come before the end of the simulation is applied: waking up
\* the controller for the next line never stops early.
EveryLineIsApplied ==
  \A i \in 1 .. Max({Len(f) : f \in Files}) :
    (/\ got_tstart /\ ~thrown /\ i <= Len(file) /\ Increasing
     /\ now <= EffectiveDate(i) /\ EffectiveDate(i) <= Tend)
    ~> command = i
=============================================================================
