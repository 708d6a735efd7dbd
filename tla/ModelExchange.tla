--------------------------- MODULE ModelExchange ---------------------------
(***************************************************************************)
(* The model-exchange server: a client sends states and commands, xdyn      *)
(* answers with the derivatives of the states (XdynForME::handle behind     *)
(* JSONWebSocketServer or ModelExchangeServiceImpl).                        *)
(*                                                                         *)
(* The server has one simulator and one error reporter. The websocket       *)
(* library hands over JSON messages one at a time; gRPC runs the handler of *)
(* each call in a thread of its pool, so the calls of several clients       *)
(* interleave, here at each use of the shared objects.                      *)
(*                                                                         *)
(* Derivatives stand for what they are computed from, observations for what *)
(* they are read from.                                                      *)
(***************************************************************************)
EXTENDS BodyHistory

CONSTANTS
  Clients,
  States,      \* values of the thirteen states
  Requests,    \* [states, commands, requested_output, well_formed] records
  Outputs,     \* the outputs the simulator computes
  Commands,    \* the commands the force models need
  YamlCommands,   \* the values of those the YAML file gives
  Grpc,        \* TRUE for gRPC, FALSE for JSON messages over a websocket
  NaN          \* the states with a NaN among them

None == <<>>

\* A request has at least one state: gRPC checks it, a JSON client complies.
ASSUME RequestsAssumption ==
  \A r \in Requests :
    /\ r # None
    /\ r.states \in Seq([t : Int, x : States]) /\ r.states # <<>>
    /\ r.well_formed \in BOOLEAN
ASSUME GrpcAssumption == Grpc \in BOOLEAN

VARIABLES
  status,        \* of the error reporter
  history,       \* of the body
  state,         \* of the simulator
  command_listener,
  pc, request, inputs, derivatives, observations,   \* of each call
  response       \* history variable: the last response of each client

shared == <<status, history, state, command_listener>>
calls == <<pc, request, inputs, derivatives, observations, response>>
vars == <<shared, calls>>

\* A seeded fault: no reader of requests sets the dates.
Decoded_Undated(states) == [i \in 1 .. Len(states) |-> [states[i] EXCEPT !.t = 0]]

\* Deserialising a JSON message sets the dates, from_grpc leaves them at zero.
Decoded(states) == [i \in 1 .. Len(states) |->
                      IF Grpc THEN [states[i] EXCEPT !.t = 0] ELSE states[i]]

SimServerInputs(r) ==
  LET states == Decoded(r.states)
  IN [t |-> Final(states).t, state_at_t |-> Final(states).x,
      state_history_except_last_point |-> AllButLast(states),
      commands |-> r.commands, requested_output |-> r.requested_output]

at(c, label) == pc[c] = label
goto(c, label) == pc' = [pc EXCEPT ![c] = label]

\* A seeded fault: an exception that nobody catches.
throw_Uncaught(c, error) ==
  /\ status' = error
  /\ UNCHANGED pc

\* An exception ends the handler and is reported.
throw(c, error) ==
  /\ status' = error
  /\ goto(c, "return")

\* A seeded fault: the reporter keeps the status of the call before.
call_WithoutReset(c) ==
  /\ at(c, "idle")
  /\ Grpc \/ \A d \in Clients : at(d, "idle")
  /\ \E r \in Requests : request' = [request EXCEPT ![c] = r]
  /\ derivatives' = [derivatives EXCEPT ![c] = None]
  /\ observations' = [observations EXCEPT ![c] = None]
  /\ goto(c, "decode")
  /\ UNCHANGED <<shared, inputs, response>>

\* A call comes in; the handler runs in run_and_report_errors, which resets the
\* reporter first.
call(c) ==
  /\ at(c, "idle")
  /\ Grpc \/ \A d \in Clients : at(d, "idle")
  /\ \E r \in Requests : request' = [request EXCEPT ![c] = r]
  /\ derivatives' = [derivatives EXCEPT ![c] = None]
  /\ observations' = [observations EXCEPT ![c] = None]
  /\ status' = "OK"
  /\ goto(c, "decode")
  /\ UNCHANGED <<history, state, command_listener, inputs, response>>

\* Sizes or syntax are checked, then the histories of the request are built.
decode(c) ==
  /\ at(c, "decode")
  /\ IF ~request[c].well_formed
     THEN throw(c, "INVALID_INPUT") /\ UNCHANGED inputs
     ELSE IF GoesBack(Decoded(request[c].states))
     THEN throw(c, "INTERNAL_ERROR") /\ UNCHANGED inputs
     ELSE /\ inputs' = [inputs EXCEPT ![c] = SimServerInputs(request[c])]
          /\ goto(c, "set_bodystates") /\ UNCHANGED status
  /\ UNCHANGED <<history, state, command_listener, request, derivatives,
                 observations, response>>

\* A seeded fault: a request without a past leaves that of the request before.
set_bodystates_KeepingThePast(c) ==
  /\ at(c, "set_bodystates")
  /\ LET past == inputs[c].state_history_except_last_point
     IN IF past = <<>> THEN UNCHANGED <<history, state>>
        ELSE history' = Recording(past) /\ state' = Final(past).x
  /\ goto(c, "set_command_listener")
  /\ UNCHANGED <<status, command_listener, request, inputs, derivatives,
                 observations, response>>

\* The history of the body is replaced, the state only by a non-empty history.
set_bodystates(c) ==
  /\ at(c, "set_bodystates")
  /\ LET past == inputs[c].state_history_except_last_point
     IN /\ history' = Recording(past)
        /\ state' = IF past = <<>> THEN state ELSE Final(past).x
  /\ goto(c, "set_command_listener")
  /\ UNCHANGED <<status, command_listener, request, inputs, derivatives,
                 observations, response>>

\* Only the commands of the request are set.
set_command_listener(c) ==
  /\ at(c, "set_command_listener")
  /\ command_listener' = Updated(command_listener, inputs[c].commands)
  /\ goto(c, "update")
  /\ UNCHANGED <<status, history, state, request, inputs, derivatives,
                 observations, response>>

\* Body::update checks for NaN, then records the state.
update(c) ==
  /\ at(c, "update")
  /\ IF inputs[c].state_at_t = NaN
     THEN throw(c, "SIMULATION_ERROR") /\ UNCHANGED history
     ELSE IF \E d \in DOMAIN history : inputs[c].t < d
     THEN throw(c, "INTERNAL_ERROR") /\ UNCHANGED history
     ELSE /\ history' = Record(history, inputs[c].t, inputs[c].state_at_t)
          /\ goto(c, "sum_of_forces") /\ UNCHANGED status
  /\ UNCHANGED <<state, command_listener, request, inputs, derivatives,
                 observations, response>>

\* The force models read the history and the commands: one that was never given
\* is an error.
sum_of_forces(c) ==
  /\ at(c, "sum_of_forces")
  /\ IF ~(Commands \subseteq DOMAIN command_listener)
     THEN throw(c, "INVALID_INPUT") /\ UNCHANGED <<state, derivatives>>
     ELSE /\ derivatives' = [derivatives EXCEPT ![c] =
               [t |-> inputs[c].t, x |-> inputs[c].state_at_t, history |-> history,
                commands |-> [n \in Commands |-> command_listener[n]]]]
          /\ state' = inputs[c].state_at_t
          /\ goto(c, "observe") /\ UNCHANGED status
  /\ UNCHANGED <<history, command_listener, request, inputs, observations, response>>

\* The outputs requested, as they are read from the simulator.
Extra(outputs) ==
  [o \in outputs |->
     [x |-> state, commands |-> [n \in Commands |-> command_listener[n]]]]

\* A seeded fault: an output that is not computed is left out of the answer.
observe_Unchecked(c) ==
  /\ at(c, "observe")
  /\ observations' = [observations EXCEPT ![c] =
       Extra(inputs[c].requested_output \cap Outputs)]
  /\ goto(c, "return")
  /\ UNCHANGED <<shared, request, inputs, derivatives, response>>

\* The observer of the call is given the outputs requested: one that is not
\* computed is noticed here, when all the rest has been done.
observe(c) ==
  /\ at(c, "observe")
  /\ IF ~(inputs[c].requested_output \subseteq Outputs)
     THEN throw(c, "INVALID_INPUT") /\ UNCHANGED observations
     ELSE /\ observations' = [observations EXCEPT ![c] =
               Extra(inputs[c].requested_output)]
          /\ goto(c, "return") /\ UNCHANGED status
  /\ UNCHANGED <<history, state, command_listener, request, inputs, derivatives,
                 response>>

\* The response has the status of the reporter; gRPC drops the message of a
\* failed call, and JSON sends an error instead.
return(c) ==
  /\ at(c, "return")
  /\ response' = [response EXCEPT ![c] =
       [request |-> request[c], status |-> status,
        derivatives |-> IF status = "OK" THEN derivatives[c] ELSE None,
        observations |-> IF status = "OK" THEN observations[c] ELSE None]]
  /\ goto(c, "idle")
  /\ UNCHANGED <<shared, request, inputs, derivatives, observations>>

\* Before the first call the body has the initial state of the YAML.
Init ==
  /\ status = "OK"
  /\ \E x \in States : state = x /\ history = [d \in {0} |-> x]
  /\ command_listener = YamlCommands
  /\ pc = [c \in Clients |-> "idle"]
  /\ request = [c \in Clients |-> None]
  /\ inputs = [c \in Clients |-> None]
  /\ derivatives = [c \in Clients |-> None]
  /\ observations = [c \in Clients |-> None]
  /\ response = [c \in Clients |-> None]

Next ==
  \E c \in Clients :
    \/ call(c) \/ decode(c)
    \/ set_bodystates(c) \/ set_command_listener(c)
    \/ update(c) \/ sum_of_forces(c) \/ observe(c)
    \/ return(c)

Spec == Init /\ [][Next]_vars

\* A handler goes on once it has begun: nothing in it waits for another call.
\* Clients need not call.
Handle(c) ==
  \/ decode(c)
  \/ set_bodystates(c) \/ set_command_listener(c)
  \/ update(c) \/ sum_of_forces(c) \/ observe(c)
  \/ return(c)
FairSpec == Spec /\ \A c \in Clients : WF_vars(Handle(c))

-----------------------------------------------------------------------------
(* Properties *)

\* What a call with all commands given should answer, from its request alone.
Accepted(r) ==
  /\ r.well_formed /\ ~GoesBack(Decoded(r.states))
  /\ Final(r.states).x # NaN /\ r.requested_output \subseteq Outputs
Evaluation(r) ==
  [t |-> SimServerInputs(r).t, x |-> SimServerInputs(r).state_at_t,
   history |-> Recording(Decoded(r.states)),
   commands |-> [n \in Commands |-> r.commands[n]]]
Observation(r) ==
  [o \in r.requested_output |->
     [x |-> SimServerInputs(r).state_at_t,
      commands |-> [n \in Commands |-> r.commands[n]]]]

Answered(c) == response[c] # None
Complete(r) == Commands \subseteq DOMAIN r.commands

\* "extra_observations_response_is_in_sync_with_request" (XdynForMETest.cpp): the
\* derivatives and the observations of a response come from its request alone,
\* whatever was asked before and wherever an earlier call failed.
ResponseIsInSyncWithRequest ==
  \A c \in Clients : Answered(c) =>
    LET r == response[c].request
    IN Complete(r) /\ response[c].status = "OK" =>
         /\ response[c].derivatives = Evaluation(r)
         /\ response[c].observations = Observation(r)

\* "xdyn does not stay locked in an error state after a failed gRPC"
\* (model_exchange/test-1/tests.py): a call fails when its own request is at
\* fault, and only then.
FailsOnlyByItsRequest ==
  \A c \in Clients : Answered(c) =>
    LET r == response[c].request
    IN Complete(r) => (response[c].status = "OK" <=> Accepted(r))

\* The derivatives are evaluated at the date of the last state of the request,
\* with every earlier state at its own date.
EvaluatedAtTheRequestedDate ==
  \A c \in Clients : Answered(c) /\ response[c].status = "OK" =>
    /\ response[c].derivatives.t = Final(response[c].request.states).t
    /\ DOMAIN response[c].derivatives.history =
         {s.t : s \in {response[c].request.states[i] :
                         i \in 1 .. Len(response[c].request.states)}}

\* The answers to a request with all its commands: the evaluation, or an error
\* and nothing else.
Served(r, a) ==
  /\ a.request = r
  /\ Complete(r) =>
       IF Accepted(r)
       THEN a = [request |-> r, status |-> "OK", derivatives |-> Evaluation(r),
                 observations |-> Observation(r)]
       ELSE a.status # "OK" /\ a.derivatives = None /\ a.observations = None

\* A request waits for its answer as long as its handler runs.
Waiting == [c \in Clients |-> IF at(c, "idle") THEN None ELSE request[c]]
Server == INSTANCE RequestResponse WITH asked <- Waiting, answer <- response

\* The server, with all it keeps from one call to the next, is one whose answers
\* come from the request alone: seen from the clients, each call of handle ends
\* in one response, and in between nothing happens.
AnswersFromTheRequestAlone == Server!Exchanges

\* No call is left without a response, whichever step of it throws.
EveryCallIsAnswered == Server!EveryRequestIsAnswered
=============================================================================
