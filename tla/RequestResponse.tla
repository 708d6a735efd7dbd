-------------------------- MODULE RequestResponse --------------------------
(***************************************************************************)
(* What the clients of a server of xdyn may count on: each request gets one *)
(* answer, which what was asked before has no part in. The servers keep a   *)
(* simulator from one request to the next; that it does not show is what    *)
(* "Two consecutive evaluations with same inputs should yield the same      *)
(* result." (integration_tests/grpc_tests/model_exchange/test-2/tests.py)   *)
(* and the test can_compute_same_step_several_times (XdynForCSTest.cpp)     *)
(* are about.                                                               *)
(***************************************************************************)
CONSTANTS
  Clients,
  Requests,
  Served(_, _),   \* whether a request may have an answer
  None            \* no request, or no answer yet

VARIABLES
  asked,    \* of each client, the request that waits for its answer
  answer    \* of each client, the last answer

Init ==
  /\ asked = [c \in Clients |-> None]
  /\ answer = [c \in Clients |-> None]

Ask(c) ==
  /\ asked[c] = None
  /\ \E r \in Requests : asked' = [asked EXCEPT ![c] = r]
  /\ UNCHANGED answer

Answer(c) ==
  /\ asked[c] # None
  /\ asked' = [asked EXCEPT ![c] = None]
  /\ answer' = [answer EXCEPT ![c] = answer'[c]]
  /\ Served(asked[c], answer'[c])

Next == \E c \in Clients : Ask(c) \/ Answer(c)

Exchanges == Init /\ [][Next]_<<asked, answer>>

EveryRequestIsAnswered == \A c \in Clients : asked[c] # None ~> asked[c] = None

Spec == Exchanges /\ EveryRequestIsAnswered
=============================================================================
