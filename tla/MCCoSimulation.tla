--------------------------- MODULE MCCoSimulation ---------------------------
(* Histories of one or two states, no step or up to three, with the command  *)
(* given or left out. What a solver makes of evaluations depends on the last *)
(* one: its state, its command and the length of its history.                *)
EXTENDS CoSimulation, TLC, FiniteSets

MCStates == 0 .. 7
MCIntegrated(y, es) ==
  LET e == Final(es) IN (y + e.x + e.commands["rpm"] + Cardinality(DOMAIN e.history)) % 8
MCCommands == {"rpm"}
MCYamlCommands == <<>>
MCHistories ==
  {<<[t |-> 4, x |-> 1]>>, <<[t |-> 0, x |-> 7]>>, <<[t |-> 6, x |-> 0]>>,
   <<[t |-> 1, x |-> 2], [t |-> 4, x |-> 1]>>,
   <<[t |-> 4, x |-> 2], [t |-> 1, x |-> 1]>>}
MCRequests ==
  [states : MCHistories, commands : {"rpm" :> 1}, steps : {0, 1, 2},
   requested_output : {"forces"}, well_formed : {TRUE}]
    \cup [states : {<<[t |-> 6, x |-> 0]>>, <<[t |-> 1, x |-> 2], [t |-> 4, x |-> 1]>>},
           commands : {<<>>, "rpm" :> 2}, steps : {3},
           requested_output : {"forces"}, well_formed : {TRUE}]
    \cup [states : {<<[t |-> 4, x |-> 1]>>}, commands : {"rpm" :> 2}, steps : {1},
          requested_output : {"none", "unknown"}, well_formed : BOOLEAN]
=============================================================================
