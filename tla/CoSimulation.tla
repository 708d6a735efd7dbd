---------------------------- MODULE CoSimulation ----------------------------
(***************************************************************************)
(* The co-simulation server: a client sends the states up to now, commands  *)
(* and a duration, xdyn integrates over the duration and answers with the   *)
(* states on the way (XdynForCS::handle). Messages are handled one at a     *)
(* time, as the websocket library hands them over; the simulator stays as   *)
(* a call leaves it.                                                        *)
(*                                                                         *)
(* The time loop and the solvers are those of the ssc library, as the code  *)
(* uses them: a step evaluates the derivatives at dates that the solver     *)
(* chooses within it, and then moves the state on. An evaluation stands for *)
(* what it is computed from; what a solver makes of evaluations is an       *)
(* operator.                                                                *)
(***************************************************************************)
EXTENDS BodyHistory

CONSTANTS
  States,
  NaN,                \* the states with a NaN among them
  Integrated(_, _),   \* from a state and the evaluations so far to a state
  dt,                 \* length of a step
  Requests,  \* [states, commands, steps, requested_output, well_formed] records:
             \* Dt is steps * dt
  Commands,           \* the commands the force models need
  YamlCommands        \* the values of those the YAML file gives

\* A request has at least one state: a JSON client complies.
ASSUME RequestsAssumption ==
  \A r \in Requests :
    /\ r.states \in Seq([t : Int, x : States]) /\ r.states # <<>>
    /\ r.steps \in Int /\ r.well_formed \in BOOLEAN

\* The stages of a step are at integers.
ASSUME StepAssumption == dt \in Nat \ {0} /\ dt % 40 = 0

\* At which dates of a step a solver evaluates the derivatives. Those of Cash and
\* Karp's formula go back from the end of the step.
Stages ==
  [euler |-> <<0>>, rk4 |-> <<0, dt \div 2, dt \div 2, dt>>,
   rkck |-> <<0, dt \div 5, (3 * dt) \div 10, (3 * dt) \div 5, dt,
             (7 * dt) \div 8>>]
Solvers == DOMAIN Stages \cup {"unknown"}

VARIABLES
  solver,            \* given when the server is started
  status,            \* of the error reporter
  history,           \* of the body
  state,             \* of the simulator
  forces,            \* the last evaluation, in the simulator as well
  command_listener,
  pc, request,
  tend, t, x,        \* of the time loop; x is the state a step starts from
  evaluations,       \* of the step
  observed,          \* by the observer of the call
  response

simulator == <<history, state, forces, command_listener>>
loop == <<tend, t, x, evaluations>>
vars == <<solver, status, simulator, pc, request, loop, observed, response>>

None == <<>>

at(label) == pc = label
goto(label) == pc' = label

\* A seeded fault: an exception that nobody catches.
throw_Uncaught(error) == status' = error /\ UNCHANGED pc

\* An exception ends the handler and is reported.
throw(error) == status' = error /\ goto("return")

\* Whether the sums of forces can be made, and what they are made from.
CommandsAreSet == Commands \subseteq DOMAIN command_listener
Evaluation(h, s, y, commands) ==
  [t |-> s, x |-> y, history |-> h, commands |-> [n \in Commands |-> commands[n]]]

\* A history is not recorded backwards.
ComesBefore(s, h) == \E d \in DOMAIN h : s < d

\* Sim::dx_dt. The state is recorded before the forces are computed, and stays in
\* the simulator after them.
dx_dt(s, y) ==
  IF y = NaN
  THEN throw("SIMULATION_ERROR") /\ UNCHANGED <<history, state, forces>>
  ELSE IF ComesBefore(s, history)
  THEN throw("INTERNAL_ERROR") /\ UNCHANGED <<history, state, forces>>
  ELSE /\ history' = Record(history, s, y)
       /\ IF CommandsAreSet
          THEN /\ forces' = Evaluation(history', s, y, command_listener)
               /\ state' = y
               /\ UNCHANGED status
          ELSE throw("INVALID_INPUT") /\ UNCHANGED <<state, forces>>

\* A call comes in.
call ==
  /\ at("idle")
  /\ request' \in Requests
  /\ status' = "OK"
  /\ observed' = None /\ evaluations' = None
  /\ goto("decode")
  /\ UNCHANGED <<solver, simulator, tend, t, x, response>>

\* The message is read, the histories of the request are built, Dt is checked.
decode ==
  /\ at("decode")
  /\ IF ~request.well_formed THEN throw("INVALID_INPUT")
     ELSE IF GoesBack(request.states) THEN throw("INTERNAL_ERROR")
     ELSE IF request.steps <= 0 THEN throw("INVALID_INPUT")
     ELSE goto("set_bodystates") /\ UNCHANGED status
  /\ UNCHANGED <<solver, simulator, request, loop, observed, response>>

\* A seeded fault: the last state is added to what is there.
set_bodystates_Continued ==
  /\ at("set_bodystates")
  /\ history' = Record(history, Final(request.states).t, Final(request.states).x)
  /\ state' = Final(request.states).x
  /\ goto("set_command_listener")
  /\ UNCHANGED <<solver, status, forces, command_listener, request, loop, observed, response>>

\* reset_history and set_bodystates, with all the states of the request.
set_bodystates ==
  /\ at("set_bodystates")
  /\ history' = Recording(request.states)
  /\ state' = Final(request.states).x
  /\ goto("set_command_listener")
  /\ UNCHANGED <<solver, status, forces, command_listener, request, loop, observed, response>>

\* A seeded fault: the scheduler is given the duration as the date of its end.
set_command_listener_UntilDt ==
  /\ at("set_command_listener")
  /\ command_listener' = Updated(command_listener, request.commands)
  /\ t' = Final(request.states).t /\ tend' = request.steps * dt
  /\ IF solver = "unknown" THEN throw("INVALID_INPUT")
     ELSE goto("initialize") /\ UNCHANGED status
  /\ UNCHANGED <<solver, history, state, forces, request, x, evaluations, observed, response>>

\* The scheduler goes from the date of the last state to Dt later. Only here the
\* name of the solver is looked at.
set_command_listener ==
  /\ at("set_command_listener")
  /\ command_listener' = Updated(command_listener, request.commands)
  /\ t' = Final(request.states).t /\ tend' = t' + request.steps * dt
  /\ IF solver = "unknown" THEN throw("INVALID_INPUT")
     ELSE goto("initialize") /\ UNCHANGED status
  /\ UNCHANGED <<solver, history, state, forces, request, x, evaluations, observed, response>>

\* initialize_system_outputs_before_first_observation, at the current date of the
\* history.
initialize ==
  /\ at("initialize")
  /\ dx_dt(CHOOSE s \in DOMAIN history : \A d \in DOMAIN history : d <= s, state)
  /\ (status' = "OK") => goto("observe")
  /\ UNCHANGED <<solver, command_listener, request, loop, observed, response>>

\* The scheduler goes on until tend.
StepsRemain == t < tend

\* The observer takes the state and, when requested, what the last evaluation left.
\* An output that is not computed is noticed the first time.
observe ==
  /\ at("observe")
  /\ IF request.requested_output = "unknown"
     THEN throw("INVALID_INPUT") /\ UNCHANGED <<x, evaluations, observed>>
     ELSE /\ observed' = Append(observed,
               [t |-> t, x |-> state,
                extra |-> IF request.requested_output = "forces" THEN forces ELSE None])
          /\ x' = state /\ evaluations' = None
          /\ UNCHANGED status
          /\ IF StepsRemain THEN goto("stage") ELSE goto("return")
  /\ UNCHANGED <<solver, simulator, request, tend, t, response>>

\* One evaluation of a step.
stage ==
  /\ at("stage") /\ Len(evaluations) < Len(Stages[solver])
  /\ dx_dt(t + Stages[solver][Len(evaluations) + 1],
           IF evaluations = None THEN x ELSE Integrated(x, evaluations))
  /\ IF status' = "OK" THEN evaluations' = Append(evaluations, forces') /\ UNCHANGED pc
     ELSE UNCHANGED evaluations
  /\ UNCHANGED <<solver, command_listener, request, tend, t, x, observed, response>>

\* The end of a step.
step ==
  /\ at("stage") /\ Len(evaluations) = Len(Stages[solver])
  /\ state' = Integrated(x, evaluations)
  /\ t' = t + dt
  /\ goto("observe")
  /\ UNCHANGED <<solver, status, history, forces, command_listener, request, tend, x,
                 evaluations, observed, response>>

return ==
  /\ at("return")
  /\ response' = [asked |-> <<solver, request>>, status |-> status,
                  states |-> IF status = "OK" THEN observed ELSE None]
  /\ goto("idle")
  /\ UNCHANGED <<solver, status, simulator, request, loop, observed>>

\* Before the first call the body has the initial state of the YAML.
Init ==
  /\ solver \in Solvers
  /\ status = "OK"
  /\ state \in States \ {NaN} /\ history = [d \in {0} |-> state]
  /\ forces = None /\ command_listener = YamlCommands
  /\ pc = "idle" /\ request = None
  /\ tend = 0 /\ t = 0 /\ x = state /\ evaluations = None
  /\ observed = None /\ response = None

Handle ==
  \/ decode \/ set_bodystates \/ set_command_listener
  \/ initialize \/ observe \/ stage \/ step \/ return

Next == call \/ Handle

\* A call that has begun goes on: nothing in it waits.
Spec == Init /\ [][Next]_vars /\ WF_vars(Handle)

-----------------------------------------------------------------------------
(* Properties *)

TypeOK ==
  /\ \A d \in DOMAIN history : history[d] \in States
  /\ state \in States
  /\ pc = "stage" => status = "OK" /\ Len(evaluations) <= Len(Stages[solver])
  /\ pc \in {"observe", "stage"} => t \in (tend - request.steps * dt) .. tend

Complete(r) == Commands \subseteq DOMAIN r.commands

\* What a call should answer, from its request alone and in one go: the run of a
\* simulator that knows nothing but the request, one function for the evaluations
\* of a step and one for the steps.
StepFrom(s, r, run) ==
  LET first == Final(run.states)
      After[k \in 0 .. Len(Stages[s])] ==
        IF k = 0 THEN [history |-> run.history, evaluations |-> None, ok |-> run.ok]
        ELSE LET before == After[k - 1]
                 date == first.t + Stages[s][k]
                 y == IF k = 1 THEN first.x ELSE Integrated(first.x, before.evaluations)
                 h == Record(before.history, date, y)
             IN IF ~before.ok \/ y = NaN \/ ComesBefore(date, before.history)
                THEN [before EXCEPT !.ok = FALSE]
                ELSE [history |-> h, ok |-> TRUE,
                      evaluations |-> Append(before.evaluations,
                                             Evaluation(h, date, y, r.commands))]
      last == After[Len(Stages[s])]
  IN IF ~last.ok THEN [run EXCEPT !.ok = FALSE]
     ELSE [history |-> last.history, ok |-> TRUE,
           states |-> Append(run.states,
             [t |-> first.t + dt, x |-> Integrated(first.x, last.evaluations),
              extra |-> IF r.requested_output = "forces"
                        THEN Final(last.evaluations) ELSE None])]

Run(s, r) ==
  LET now == Final(r.states)
      h == Recording(r.states)
      Runs[n \in 0 .. r.steps] ==
        IF n = 0
        THEN [history |-> h, ok |-> now.x # NaN,
              states |-> <<[t |-> now.t, x |-> now.x,
                            extra |-> IF r.requested_output = "forces"
                                      THEN Evaluation(h, now.t, now.x, r.commands)
                                      ELSE None]>>]
        ELSE StepFrom(s, r, Runs[n - 1])
  IN Runs[r.steps]

Accepted(s, r) ==
  /\ r.well_formed /\ ~GoesBack(r.states) /\ r.steps > 0
  /\ s # "unknown" /\ r.requested_output # "unknown"

Served(asked, a) ==
  LET s == asked[1]
      r == asked[2]
      failed == a.status # "OK" /\ a.states = None
  IN /\ a.asked = asked
     /\ Complete(r) =>
          IF ~Accepted(s, r) THEN failed
          ELSE LET run == Run(s, r)
               IN IF run.ok THEN a.status = "OK" /\ a.states = run.states ELSE failed

Client == {"client"}
Server == INSTANCE RequestResponse WITH
  Clients <- Client,
  Requests <- Solvers \X Requests,
  asked <- [c \in Client |-> IF pc = "idle" THEN None ELSE <<solver, request>>],
  answer <- [c \in Client |-> response]

\* "can_compute_same_step_several_times" (XdynForCSTest.cpp): each run starts from
\* the request alone, whatever the runs before did or where they failed.
AnswersFromTheRequestAlone == Server!Exchanges

\* The time loop ends, and every call with it.
EveryCallIsAnswered == Server!EveryRequestIsAnswered

\* Models with a memory read the past of the state, where the predictions that a
\* solver makes within a step are recorded as well. At the dates between steps they
\* must find the states that were answered, and the states of the request before.
ThePastIsTheAnsweredOne ==
  pc = "stage" =>
    \A i \in 1 .. Len(evaluations) :
      LET past == evaluations[i].history
      IN /\ \A k \in 1 .. Len(observed) : past[observed[k].t] = observed[k].x
         /\ \A d \in DOMAIN Recording(request.states) :
              past[d] = Recording(request.states)[d]
         /\ \A d \in DOMAIN past : d <= evaluations[i].t
=============================================================================
