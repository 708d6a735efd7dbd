-------------------------- MODULE MCModelExchange --------------------------
(* Histories of one to three states, one of them with a NaN, dates that may  *)
(* repeat or go back, with the command given or left out, and outputs that   *)
(* are computed, are not, or are not asked for.                             *)
EXTENDS ModelExchange, TLC

MCStates == {"a", "b", "nan"}
MCCommands == {"rpm"}
MCYamlCommands == <<>>
MCOutputs == {"Fx", "Fz"}
MCHistories ==
  {<<[t |-> 2, x |-> "b"]>>, <<[t |-> 1, x |-> "nan"]>>,
   <<[t |-> 1, x |-> "a"], [t |-> 2, x |-> "b"]>>,
   <<[t |-> 1, x |-> "b"], [t |-> 1, x |-> "a"], [t |-> 1, x |-> "b"]>>,
   <<[t |-> 2, x |-> "b"], [t |-> 1, x |-> "a"]>>}
MCShort == {h \in MCHistories : Len(h) = 1}
MCRequests ==
  [states : MCHistories, commands : {"rpm" :> 1}, requested_output : {{"Fx"}},
   well_formed : {TRUE}]
    \cup [states : MCShort, commands : {<<>>, "rpm" :> 2},
          requested_output : {{}, {"Fx", "Fw"}}, well_formed : {TRUE}]
    \cup {[states |-> <<[t |-> 2, x |-> "b"]>>, commands |-> "rpm" :> 1,
           requested_output |-> {"Fx"}, well_formed |-> FALSE]}

\* Valid requests with their command, for several clients.
MCValid == [states : {<<[t |-> 1, x |-> "a"]>>, <<[t |-> 2, x |-> "b"]>>},
            commands : {"rpm" :> 1, "rpm" :> 2}, requested_output : {{"Fx"}},
            well_formed : {TRUE}]
=============================================================================
