------------------------ MODULE ModelExchangeProofs ------------------------
(* Messages handled one at a time: each response is a function of its       *)
(* request, for any number of clients and any requests.                     *)
EXTENDS ModelExchange, SequenceTheorems, LeastNatural

Samples == Seq([t : Int, x : States])

LEMMA SeqFacts ==
  ASSUME NEW S, NEW s \in Seq(S)
  PROVE  /\ Len(s) \in Nat /\ \A i \in 1 .. Len(s) : s[i] \in S
         /\ s # <<>> => Len(s) # 0
BY EmptySeq

\* The index of the last sample at date d.
LastAt(s, d, i) ==
  /\ i \in 1 .. Len(s) /\ s[i].t = d
  /\ \A j \in i + 1 .. Len(s) : s[j].t # d

LEMMA LastSample ==
  ASSUME NEW s \in Samples, NEW k \in 1 .. Len(s)
  PROVE  \E i \in 1 .. Len(s) : LastAt(s, s[k].t, i)
<1> DEFINE n == Len(s)
           T == {m \in 0 .. n - 1 : s[n - m].t = s[k].t}
<1>1. n \in Nat /\ k \in 1 .. n
  BY DEF Samples
<1>2. n - k \in 0 .. n - 1 /\ n - (n - k) = k
  BY <1>1
<1>3. T \in SUBSET Nat /\ T # {}
  <2>1. n - k \in T
    BY <1>2
  <2>2. \A m \in T : m \in Nat
    BY <1>1
  <2>3. QED BY <2>1, <2>2
<1>4. PICK m \in T : \A y \in T : m <= y
  BY <1>3, LeastNat
<1>5. n - m \in 1 .. n /\ s[n - m].t = s[k].t
  BY <1>1, <1>4
<1>6. ASSUME NEW j \in n - m + 1 .. n PROVE s[j].t # s[k].t
  <2>1. n - j \in 0 .. n - 1 /\ n - (n - j) = j /\ ~(m <= n - j)
    BY <1>1, <1>4
  <2>2. n - j \notin T
    BY <2>1, <1>4
  <2>3. QED BY <2>1, <2>2
<1>7. QED BY <1>5, <1>6 DEF LastAt

LEMMA RecordingIs ==
  ASSUME NEW s \in Samples, NEW i \in 1 .. Len(s), LastAt(s, s[i].t, i)
  PROVE  s[i].t \in DOMAIN Recording(s) /\ Recording(s)[s[i].t] = s[i].x
<1> DEFINE d == s[i].t
           last == CHOOSE k \in 1 .. Len(s) :
                     s[k].t = d /\ \A j \in k + 1 .. Len(s) : s[j].t # d
<1>1. Len(s) \in Nat
  BY DEF Samples
<1>2. /\ last \in 1 .. Len(s) /\ s[last].t = d
      /\ \A j \in last + 1 .. Len(s) : s[j].t # d
  BY DEF LastAt
<1>3. last = i
  <2>1. ~(i < last)
    BY <1>1, <1>2 DEF LastAt
  <2>2. ~(last < i)
    BY <1>1, <1>2 DEF LastAt
  <2>3. QED BY <1>1, <1>2, <2>1, <2>2
<1>4. d \in {s[k].t : k \in 1 .. Len(s)}
  OBVIOUS
<1>5. Recording(s)[d] = s[last].x
  BY <1>4 DEF Recording
<1>6. QED BY <1>3, <1>4, <1>5 DEF Recording

LEMMA AllButLastFacts ==
  ASSUME NEW s \in Samples, s # <<>>
  PROVE  /\ AllButLast(s) \in Samples /\ Len(s) \in Nat \ {0}
         /\ Len(AllButLast(s)) = Len(s) - 1
         /\ \A i \in 1 .. Len(s) - 1 : AllButLast(s)[i] = s[i]
<1> DEFINE n == Len(s)
           Sample == [t : Int, x : States]
           past == SubSeq(s, 1, n - 1)
<1>1. n \in Nat \ {0} /\ \A i \in 1 .. n : s[i] \in Sample
  <2>1. s \in Seq(Sample)
    BY DEF Samples
  <2> HIDE DEF Sample
  <2>2. QED BY <2>1, SeqFacts
<1> HIDE DEF Sample, n
<1>2. /\ past \in Seq(Sample)
      /\ Len(past) = IF 1 <= n - 1 THEN n - 1 - 1 + 1 ELSE 0
      /\ \A i \in 1 .. n - 1 - 1 + 1 : past[i] = s[1 + i - 1]
  BY <1>1, SubSeqProperties, 1 \in Int, n - 1 \in Int,
     \A i \in 1 .. n - 1 : s[i] \in Sample
<1> HIDE DEF past
<1>3. /\ Len(past) = n - 1
      /\ \A i \in 1 .. n - 1 : past[i] = s[i]
  BY <1>1, <1>2
<1>4. QED BY <1>1, <1>2, <1>3 DEF AllButLast, Samples, Sample, n, past

\* Recording the last state of a request completes the history of the others.
LEMMA RecordLast ==
  ASSUME NEW s \in Samples, s # <<>>
  PROVE  Record(Recording(AllButLast(s)), Final(s).t, Final(s).x) = Recording(s)
<1> DEFINE past == AllButLast(s)
           n == Len(s)
           left == Record(Recording(past), s[n].t, s[n].x)
<1>1. /\ past \in Samples /\ n \in Nat \ {0} /\ Len(past) = n - 1
      /\ \A i \in 1 .. n - 1 : past[i] = s[i]
  BY AllButLastFacts
<1> HIDE DEF past
<1>2. DOMAIN Recording(past) = {s[i].t : i \in 1 .. n - 1}
  BY <1>1 DEF Recording
<1>3. DOMAIN left = DOMAIN Recording(s)
  BY <1>1, <1>2 DEF Record, Recording
<1>4. ASSUME NEW d \in DOMAIN Recording(s) PROVE left[d] = Recording(s)[d]
  <2>1. PICK k \in 1 .. n : d = s[k].t
    BY DEF Recording
  <2>2. PICK i \in 1 .. n : LastAt(s, d, i)
    BY <2>1, LastSample
  <2>3. Recording(s)[d] = s[i].x
    BY <2>2, RecordingIs DEF LastAt
  <2>4. left[d] = IF d = s[n].t THEN s[n].x ELSE Recording(past)[d]
    BY <1>3 DEF Record
  <2>5. CASE d = s[n].t
    <3>1. i = n
      BY <1>1, <2>2, <2>5 DEF LastAt
    <3>2. QED BY <2>3, <2>4, <2>5, <3>1
  <2>6. CASE d # s[n].t
    <3>1. i \in 1 .. Len(past)
      BY <1>1, <2>2, <2>6 DEF LastAt
    <3>2. past[i].t = d
      BY <1>1, <2>2, <3>1 DEF LastAt
    <3>3. \A j \in i + 1 .. Len(past) : past[j].t # d
      BY <1>1, <2>2, <3>1 DEF LastAt
    <3>4. LastAt(past, past[i].t, i)
      BY <3>1, <3>2, <3>3 DEF LastAt
    <3>5. Recording(past)[d] = past[i].x
      BY <1>1, <3>1, <3>2, <3>4, RecordingIs
    <3>6. QED BY <1>1, <2>3, <2>4, <2>6, <3>1, <3>5
  <2>7. QED BY <2>5, <2>6
<1>5. /\ left = [d \in DOMAIN left |-> left[d]]
      /\ Recording(s) = [d \in DOMAIN Recording(s) |-> Recording(s)[d]]
  BY DEF Record, Recording
<1> HIDE DEF left
<1>6. left = Recording(s)
  BY <1>3, <1>4, <1>5
<1>7. QED BY <1>6 DEF left, Final, past

\* A history built from the past of a request accepts the date of its last state.
LEMMA NotInThePast ==
  ASSUME NEW s \in Samples, s # <<>>, ~GoesBack(s),
         NEW d \in DOMAIN Recording(AllButLast(s))
  PROVE  ~(Final(s).t < d)
<1>1. PICK i \in 1 .. Len(s) - 1 : d = s[i].t
  BY AllButLastFacts, SMTT(40) DEF Recording
<1>2. Len(s) \in 1 .. Len(s) /\ i \in 1 .. Len(s) - 1
  BY AllButLastFacts
<1>3. QED BY <1>1, <1>2 DEF GoesBack, Final
-----------------------------------------------------------------------------
(* One call at a time *)

\* What the shared objects hold at each point of the handler of client c.
Decoding(c) ==
  /\ request[c] \in Requests
  /\ status = "OK" /\ derivatives[c] = None /\ observations[c] = None
Decodes(c) ==
  /\ Decoding(c) /\ request[c].well_formed /\ ~GoesBack(Decoded(request[c].states))
  /\ inputs[c] = SimServerInputs(request[c])
HistoryIsSet(c) == history = Recording(AllButLast(Decoded(request[c].states)))
CommandsAreSet(c) ==
  \A n \in DOMAIN request[c].commands :
    n \in DOMAIN command_listener /\ command_listener[n] = request[c].commands[n]
IsUpdated(c) ==
  /\ request[c] \in Requests /\ status = "OK"
  /\ request[c].well_formed /\ ~GoesBack(Decoded(request[c].states))
  /\ inputs[c] = SimServerInputs(request[c])
  /\ CommandsAreSet(c)
  /\ inputs[c].state_at_t # NaN
  /\ history = Recording(Decoded(request[c].states))
IsEvaluated(r, d) ==
  /\ d.t = SimServerInputs(r).t /\ d.history = Recording(Decoded(r.states))
  /\ Complete(r) => d = Evaluation(r)
IsObserved(r, o) == Complete(r) => o = Observation(r)
Outcome(r, s, d, o) ==
  /\ r \in Requests
  /\ s = "OK" => IsEvaluated(r, d) /\ IsObserved(r, o)
  /\ Complete(r) => (s = "OK" <=> Accepted(r))

Stage(c) ==
  /\ pc[c] \in {"idle", "decode", "set_bodystates", "set_command_listener",
                "update", "sum_of_forces", "observe", "return"}
  /\ at(c, "decode") => Decoding(c)
  /\ at(c, "set_bodystates") => Decodes(c)
  /\ at(c, "set_command_listener") => Decodes(c) /\ HistoryIsSet(c)
  /\ at(c, "update") => Decodes(c) /\ HistoryIsSet(c) /\ CommandsAreSet(c)
  /\ at(c, "sum_of_forces") => IsUpdated(c)
  /\ at(c, "observe") =>
       /\ IsUpdated(c) /\ state = inputs[c].state_at_t
       /\ IsEvaluated(request[c], derivatives[c])
  /\ at(c, "return") =>
       Outcome(request[c], status, derivatives[c], observations[c])

Domains ==
  /\ DOMAIN pc = Clients /\ DOMAIN request = Clients /\ DOMAIN inputs = Clients
  /\ DOMAIN derivatives = Clients /\ DOMAIN observations = Clients
  /\ DOMAIN response = Clients

Exclusive == \A c, d \in Clients : c # d => at(c, "idle") \/ at(d, "idle")

Responses ==
  \A c \in Clients : Answered(c) =>
    Outcome(response[c].request, response[c].status, response[c].derivatives,
            response[c].observations)

Inv == Domains /\ Exclusive /\ (\A c \in Clients : Stage(c)) /\ Responses

\* The states of a request keep their shape when they are decoded.
LEMMA DecodedFacts ==
  ASSUME NEW r \in Requests
  PROVE  /\ Decoded(r.states) \in Samples /\ Decoded(r.states) # <<>>
         /\ Final(Decoded(r.states)).x = Final(r.states).x
<1> DEFINE s == r.states
           Sample == [t : Int, x : States]
<1>1. s \in Seq(Sample) /\ s # <<>>
  BY RequestsAssumption
<1>2. Len(s) \in Nat /\ (\A i \in 1 .. Len(s) : s[i] \in Sample) /\ Len(s) # 0
  <2> HIDE DEF Sample
  <2>1. QED BY <1>1, SeqFacts
<1> HIDE DEF s
<1>3. ASSUME NEW i \in 1 .. Len(s)
      PROVE (IF Grpc THEN [s[i] EXCEPT !.t = 0] ELSE s[i]) \in Sample
  <2>1. s[i] \in Sample
    BY <1>2
  <2>2. QED BY <2>1
<1> HIDE DEF Sample
<1>4. Decoded(s) \in Seq(Sample)
  BY <1>2, <1>3 DEF Decoded
<1>5. Len(Decoded(s)) = Len(s)
  BY <1>2 DEF Decoded
<1>6. Decoded(s) # <<>>
  BY <1>2, <1>5
<1>7. Final(Decoded(s)).x = Final(s).x
  <2> DEFINE n == Len(s)
  <2>1. n \in 1 .. n /\ s[n] \in Sample
    BY <1>2
  <2>2. Decoded(s)[n] = IF Grpc THEN [s[n] EXCEPT !.t = 0] ELSE s[n]
    BY <2>1 DEF Decoded
  <2>3. Decoded(s)[n].x = s[n].x
    BY <2>1, <2>2 DEF Sample
  <2>4. QED BY <1>5, <2>3 DEF Final
<1>8. QED BY <1>4, <1>6, <1>7 DEF Samples, Sample, s

\* A step of one client leaves the others idle.
LEMMA Frame ==
  ASSUME NEW c \in Clients, NEW l, Domains, Exclusive,
         at(c, "idle") => \A d \in Clients : at(d, "idle"),
         pc' = [pc EXCEPT ![c] = l]
  PROVE  /\ Exclusive' /\ pc'[c] = l
         /\ \A d \in Clients \ {c} : Stage(d)'
<1>1. pc'[c] = l /\ \A d \in Clients \ {c} : pc[d] = "idle" /\ pc'[d] = "idle"
  BY DEF Domains, Exclusive, at
<1>2. Exclusive'
  BY <1>1 DEF Exclusive, at
<1>3. ASSUME NEW d \in Clients \ {c} PROVE Stage(d)'
  BY <1>1 DEF Stage, at
<1>4. QED BY <1>1, <1>2, <1>3

LEMMA ResponsesUnchanged ==
  ASSUME Responses, UNCHANGED response
  PROVE  Responses'
BY DEF Responses, Answered, Outcome, IsEvaluated, IsObserved, Complete, Accepted,
       Evaluation, Observation

LEMMA CallStep ==
  ASSUME ~Grpc, Inv, NEW c \in Clients, call(c)
  PROVE  Inv'
<1>1. /\ Domains /\ Exclusive /\ at(c, "idle") /\ \A d \in Clients : at(d, "idle")
      /\ pc' = [pc EXCEPT ![c] = "decode"]
  BY DEF Inv, call, goto
<1>2. Exclusive' /\ pc'[c] = "decode" /\ \A d \in Clients \ {c} : Stage(d)'
  BY <1>1, Frame
<1>3. Domains'
  BY DEF Inv, Domains, call, goto
<1>4. Decoding(c)'
  BY DEF Inv, Domains, call, Decoding
<1>5. Stage(c)'
  BY <1>2, <1>4 DEF Stage, at
<1>6. Responses'
  BY ResponsesUnchanged DEF Inv, call
<1>7. QED BY <1>2, <1>3, <1>5, <1>6 DEF Inv

\* What every later step of a handler leaves to prove.
LEMMA HandlerStep ==
  ASSUME Inv, NEW c \in Clients, NEW l, pc[c] # "idle",
         pc' = [pc EXCEPT ![c] = l], UNCHANGED response, Domains',
         pc'[c] = l => Stage(c)'
  PROVE  Inv'
<1>1. Domains /\ Exclusive /\ ~at(c, "idle")
  BY DEF Inv, at
<1>2. Exclusive' /\ pc'[c] = l /\ \A d \in Clients \ {c} : Stage(d)'
  BY <1>1, Frame
<1>3. Responses'
  BY ResponsesUnchanged DEF Inv
<1>4. QED BY <1>2, <1>3 DEF Inv

LEMMA DecodeStep ==
  ASSUME Inv, NEW c \in Clients, decode(c)
  PROVE  Inv'
<1>1. pc[c] = "decode" /\ Domains /\ Decoding(c)
  BY DEF Inv, decode, at, Stage
<1>2. Domains' /\ UNCHANGED <<request, derivatives, observations, response>>
  BY <1>1 DEF Domains, decode, throw, goto
<1>3. CASE ~request[c].well_formed
  <2>1. pc' = [pc EXCEPT ![c] = "return"] /\ status' = "INVALID_INPUT"
    BY <1>3 DEF decode, throw, goto
  <2>2. Outcome(request[c], status, derivatives[c], observations[c])'
    BY <1>1, <1>2, <1>3, <2>1 DEF Outcome, Accepted, Decoding
  <2>3. pc'[c] = "return" => Stage(c)'
    BY <2>2 DEF Stage, at
  <2>4. QED BY <1>1, <1>2, <2>1, <2>3, HandlerStep
<1>4. CASE request[c].well_formed /\ GoesBack(Decoded(request[c].states))
  <2>1. pc' = [pc EXCEPT ![c] = "return"] /\ status' = "INTERNAL_ERROR"
    BY <1>4 DEF decode, throw, goto
  <2>2. Outcome(request[c], status, derivatives[c], observations[c])'
    BY <1>1, <1>2, <1>4, <2>1 DEF Outcome, Accepted, Decoding
  <2>3. pc'[c] = "return" => Stage(c)'
    BY <2>2 DEF Stage, at
  <2>4. QED BY <1>1, <1>2, <2>1, <2>3, HandlerStep
<1>5. CASE request[c].well_formed /\ ~GoesBack(Decoded(request[c].states))
  <2>1. /\ pc' = [pc EXCEPT ![c] = "set_bodystates"] /\ UNCHANGED status
        /\ inputs' = [inputs EXCEPT ![c] = SimServerInputs(request[c])]
    BY <1>5 DEF decode, goto
  <2>2. inputs'[c] = SimServerInputs(request[c])
    BY <1>1, <2>1 DEF Domains
  <2>3. Decodes(c)'
    BY <1>1, <1>2, <1>5, <2>1, <2>2 DEF Decodes, Decoding
  <2>4. pc'[c] = "set_bodystates" => Stage(c)'
    BY <2>3 DEF Stage, at
  <2>5. QED BY <1>1, <1>2, <2>1, <2>4, HandlerStep
<1>6. QED BY <1>3, <1>4, <1>5

LEMMA SetBodystatesStep ==
  ASSUME Inv, NEW c \in Clients, set_bodystates(c)
  PROVE  Inv'
<1>1. pc[c] = "set_bodystates" /\ Domains /\ Decodes(c)
  BY DEF Inv, set_bodystates, at, Stage
<1>2. /\ pc' = [pc EXCEPT ![c] = "set_command_listener"]
      /\ UNCHANGED <<status, request, inputs, derivatives, observations, response>>
      /\ history' = Recording(inputs[c].state_history_except_last_point)
  BY DEF set_bodystates, goto
<1>3. Domains'
  BY <1>1, <1>2 DEF Domains
<1>4. Decodes(c)'
  BY <1>1, <1>2 DEF Decodes, Decoding
<1>5. HistoryIsSet(c)'
  BY <1>1, <1>2 DEF Decodes, HistoryIsSet, SimServerInputs
<1>6. pc'[c] = "set_command_listener" => Stage(c)'
  BY <1>4, <1>5 DEF Stage, at
<1>7. QED BY <1>1, <1>2, <1>3, <1>6, HandlerStep

LEMMA SetCommandListenerStep ==
  ASSUME Inv, NEW c \in Clients, set_command_listener(c)
  PROVE  Inv'
<1>1. pc[c] = "set_command_listener" /\ Domains /\ Decodes(c) /\ HistoryIsSet(c)
  BY DEF Inv, set_command_listener, at, Stage
<1>2. /\ pc' = [pc EXCEPT ![c] = "update"]
      /\ UNCHANGED <<status, history, request, inputs, derivatives, observations,
                     response>>
      /\ command_listener' = Updated(command_listener, inputs[c].commands)
  BY DEF set_command_listener, goto
<1>3. Domains'
  BY <1>1, <1>2 DEF Domains
<1>4. Decodes(c)' /\ HistoryIsSet(c)'
  BY <1>1, <1>2 DEF Decodes, Decoding, HistoryIsSet
<1>5. inputs[c].commands = request[c].commands
  BY <1>1 DEF Decodes, SimServerInputs
<1>6. CommandsAreSet(c)'
  BY <1>2, <1>5 DEF CommandsAreSet, Updated
<1>7. pc'[c] = "update" => Stage(c)'
  BY <1>4, <1>6 DEF Stage, at
<1>8. QED BY <1>1, <1>2, <1>3, <1>7, HandlerStep

LEMMA UpdateStep ==
  ASSUME Inv, NEW c \in Clients, update(c)
  PROVE  Inv'
<1> DEFINE s == Decoded(request[c].states)
<1>1. /\ pc[c] = "update" /\ Domains /\ Decodes(c) /\ HistoryIsSet(c)
      /\ CommandsAreSet(c)
  BY DEF Inv, update, at, Stage
<1>2. /\ Domains'
      /\ UNCHANGED <<command_listener, request, inputs, derivatives, observations, response>>
  BY <1>1 DEF Domains, update, throw, goto
<1>3. s \in Samples /\ s # <<>> /\ Final(s).x = Final(request[c].states).x
  BY <1>1, DecodedFacts DEF Decodes, Decoding
<1>4. inputs[c].t = Final(s).t /\ inputs[c].state_at_t = Final(s).x
  BY <1>1 DEF Decodes, SimServerInputs
<1>5. history = Recording(AllButLast(s)) /\ ~GoesBack(s)
  BY <1>1 DEF HistoryIsSet, Decodes
<1> HIDE DEF s
<1>6. CASE inputs[c].state_at_t = NaN
  <2>1. pc' = [pc EXCEPT ![c] = "return"] /\ status' = "SIMULATION_ERROR"
    BY <1>6 DEF update, throw, goto
  <2>2. Outcome(request[c], status, derivatives[c], observations[c])'
    BY <1>1, <1>2, <1>3, <1>4, <1>6, <2>1 DEF Outcome, Accepted, Decodes, Decoding
  <2>3. pc'[c] = "return" => Stage(c)'
    BY <2>2 DEF Stage, at
  <2>4. QED BY <1>1, <1>2, <2>1, <2>3, HandlerStep
<1>7. CASE inputs[c].state_at_t # NaN
  <2>1. ~ \E d \in DOMAIN history : inputs[c].t < d
    BY <1>3, <1>4, <1>5, NotInThePast
  <2>2. /\ pc' = [pc EXCEPT ![c] = "sum_of_forces"] /\ UNCHANGED status
        /\ history' = Record(history, inputs[c].t, inputs[c].state_at_t)
    BY <1>7, <2>1 DEF update, goto
  <2>3. history' = Recording(s)
    BY <1>3, <1>4, <1>5, <2>2, RecordLast
  <2>4. IsUpdated(c)'
    BY <1>1, <1>2, <1>7, <2>2, <2>3
       DEF IsUpdated, Decodes, Decoding, CommandsAreSet, s
  <2>5. pc'[c] = "sum_of_forces" => Stage(c)'
    BY <2>4 DEF Stage, at
  <2>6. QED BY <1>1, <1>2, <2>2, <2>5, HandlerStep
<1>8. QED BY <1>6, <1>7

\* With all commands given, the listener holds those of the request.
LEMMA OwnCommands ==
  ASSUME NEW c \in Clients, CommandsAreSet(c), Complete(request[c])
  PROVE  /\ Commands \subseteq DOMAIN command_listener
         /\ [n \in Commands |-> command_listener[n]]
              = [n \in Commands |-> request[c].commands[n]]
BY DEF CommandsAreSet, Complete

LEMMA SumOfForcesStep ==
  ASSUME Inv, NEW c \in Clients, sum_of_forces(c)
  PROVE  Inv'
<1>1. pc[c] = "sum_of_forces" /\ Domains /\ IsUpdated(c)
  BY DEF Inv, sum_of_forces, at, Stage
<1>2. /\ Domains'
      /\ UNCHANGED <<history, command_listener, request, inputs, observations, response>>
  BY <1>1 DEF Domains, sum_of_forces, throw, goto
<1>3. CASE ~(Commands \subseteq DOMAIN command_listener)
  <2>1. pc' = [pc EXCEPT ![c] = "return"] /\ status' = "INVALID_INPUT"
    BY <1>3 DEF sum_of_forces, throw, goto
  <2>2. ~Complete(request[c])
    BY <1>1, <1>3, OwnCommands DEF IsUpdated
  <2>3. Outcome(request[c], status, derivatives[c], observations[c])'
    BY <1>1, <1>2, <2>1, <2>2 DEF Outcome, Complete, IsUpdated
  <2>4. pc'[c] = "return" => Stage(c)'
    BY <2>3 DEF Stage, at
  <2>5. QED BY <1>1, <1>2, <2>1, <2>4, HandlerStep
<1>4. CASE Commands \subseteq DOMAIN command_listener
  <2> DEFINE d == [t |-> inputs[c].t, x |-> inputs[c].state_at_t, history |-> history,
                   commands |-> [n \in Commands |-> command_listener[n]]]
  <2>1. /\ pc' = [pc EXCEPT ![c] = "observe"] /\ UNCHANGED status
        /\ derivatives' = [derivatives EXCEPT ![c] = d]
        /\ state' = inputs[c].state_at_t
    BY <1>4 DEF sum_of_forces, goto
  <2>2. derivatives'[c] = d
    BY <1>1, <2>1 DEF Domains
  <2>3. ASSUME Complete(request[c]) PROVE d = Evaluation(request[c])
    BY <1>1, <2>3, OwnCommands DEF IsUpdated, Evaluation
  <2>4. IsEvaluated(request[c], d)
    BY <1>1, <2>3 DEF IsEvaluated, IsUpdated
  <2> HIDE DEF d
  <2>5. IsEvaluated(request[c], derivatives[c])'
    BY <1>2, <2>2, <2>4
       DEF IsEvaluated, Complete, Evaluation, SimServerInputs, Decoded
  <2>6. IsUpdated(c)'
    BY <1>1, <1>2, <2>1 DEF IsUpdated, CommandsAreSet
  <2>7. pc'[c] = "observe" => Stage(c)'
    BY <1>2, <2>1, <2>5, <2>6 DEF Stage, at
  <2>8. QED BY <1>1, <1>2, <2>1, <2>7, HandlerStep
<1>5. QED BY <1>3, <1>4

\* What is left to fail when the state and the dates of a request are in order.
LEMMA OnlyTheOutputs ==
  ASSUME NEW c \in Clients, IsUpdated(c)
  PROVE  /\ request[c] \in Requests
         /\ inputs[c].requested_output = request[c].requested_output
         /\ Accepted(request[c]) <=> request[c].requested_output \subseteq Outputs
<1>1. inputs[c].state_at_t = Final(Decoded(request[c].states)).x
  BY DEF IsUpdated, SimServerInputs
<1>2. Final(request[c].states).x # NaN
  BY <1>1, DecodedFacts DEF IsUpdated
<1>3. inputs[c].requested_output = request[c].requested_output
  BY DEF IsUpdated, SimServerInputs
<1>4. QED BY <1>2, <1>3 DEF IsUpdated, Accepted

LEMMA ObserveStep ==
  ASSUME Inv, NEW c \in Clients, observe(c)
  PROVE  Inv'
<1> DEFINE outputs == request[c].requested_output
<1>1. /\ pc[c] = "observe" /\ Domains /\ IsUpdated(c) /\ status = "OK"
      /\ state = inputs[c].state_at_t /\ IsEvaluated(request[c], derivatives[c])
  BY DEF Inv, observe, at, Stage, IsUpdated
<1>2. /\ request[c] \in Requests /\ inputs[c].requested_output = outputs
      /\ Accepted(request[c]) <=> outputs \subseteq Outputs
  BY <1>1, OnlyTheOutputs
<1>3. Domains' /\ UNCHANGED <<request, derivatives, response>>
  BY <1>1 DEF Domains, observe, throw, goto
<1>4. CASE ~(outputs \subseteq Outputs)
  <2>1. pc' = [pc EXCEPT ![c] = "return"] /\ status' = "INVALID_INPUT"
    BY <1>2, <1>4 DEF observe, throw, goto
  <2>2. Outcome(request[c], status, derivatives[c], observations[c])'
    BY <1>2, <1>3, <1>4, <2>1 DEF Outcome, Accepted
  <2>3. pc'[c] = "return" => Stage(c)'
    BY <2>2 DEF Stage, at
  <2>4. QED BY <1>1, <1>3, <2>1, <2>3, HandlerStep
<1>5. CASE outputs \subseteq Outputs
  <2>1. /\ pc' = [pc EXCEPT ![c] = "return"] /\ UNCHANGED status
        /\ observations' = [observations EXCEPT ![c] = Extra(outputs)]
    BY <1>2, <1>5 DEF observe, goto
  <2>2. observations'[c] = Extra(outputs)
    BY <1>1, <2>1 DEF Domains
  <2>3. ASSUME Complete(request[c]) PROVE Extra(outputs) = Observation(request[c])
    <3>1. [n \in Commands |-> command_listener[n]]
            = [n \in Commands |-> request[c].commands[n]]
      BY <1>1, <2>3, OwnCommands DEF IsUpdated
    <3>2. state = SimServerInputs(request[c]).state_at_t
      BY <1>1 DEF IsUpdated
    <3>3. QED BY <3>1, <3>2 DEF Extra, Observation
  <2>4. Outcome(request[c], "OK", derivatives[c], Extra(outputs))
    BY <1>1, <1>2, <1>5, <2>3 DEF Outcome, IsObserved
  <2> HIDE DEF outputs
  <2>5. Outcome(request'[c], status', derivatives'[c], observations'[c])
    BY <1>1, <1>3, <2>1, <2>2, <2>4
  <2>6. pc'[c] = "return" => Stage(c)'
    BY <2>5 DEF Stage, at
  <2>7. QED BY <1>1, <1>3, <2>1, <2>6, HandlerStep
<1>6. QED BY <1>4, <1>5

LEMMA ReturnStep ==
  ASSUME Inv, NEW c \in Clients, return(c)
  PROVE  Inv'
<1> DEFINE ok == status = "OK"
           answer == [request |-> request[c], status |-> status,
                      derivatives |-> IF ok THEN derivatives[c] ELSE None,
                      observations |-> IF ok THEN observations[c] ELSE None]
<1>1. /\ pc[c] = "return" /\ Domains /\ Exclusive /\ Responses
      /\ Outcome(request[c], status, derivatives[c], observations[c])
  BY DEF Inv, return, at, Stage
<1>2. /\ pc' = [pc EXCEPT ![c] = "idle"]
      /\ response' = [response EXCEPT ![c] = answer]
      /\ UNCHANGED <<shared, request, inputs, derivatives, observations>>
  BY DEF return, goto
<1>3. Exclusive' /\ pc'[c] = "idle" /\ \A d \in Clients \ {c} : Stage(d)'
  BY <1>1, <1>2, Frame DEF at
<1>4. Domains'
  BY <1>1, <1>2 DEF Domains
<1>5. Stage(c)'
  BY <1>3 DEF Stage, at
<1>6. Outcome(answer.request, answer.status, answer.derivatives, answer.observations)
  BY <1>1 DEF Outcome
<1>7. \A d \in Clients :
        response'[d] = IF d = c THEN answer ELSE response[d]
  BY <1>1, <1>2 DEF Domains
<1> HIDE DEF answer
<1>8. Responses'
  BY <1>1, <1>6, <1>7 DEF Responses, Answered
<1>9. QED BY <1>3, <1>4, <1>5, <1>8 DEF Inv

LEMMA Initially == Init => Inv
<1> SUFFICES ASSUME Init PROVE Inv
  OBVIOUS
<1>1. Domains /\ Exclusive /\ Responses
  BY DEF Init, Domains, Exclusive, Responses, Answered, at
<1>2. \A c \in Clients : Stage(c)
  BY DEF Init, Stage, at
<1>3. QED BY <1>1, <1>2 DEF Inv

LEMMA Stuttering ==
  ASSUME Inv, UNCHANGED vars
  PROVE  Inv'
<1>1. UNCHANGED <<shared, calls>>
  BY DEF vars
<1>2. Domains' /\ Exclusive'
  BY <1>1 DEF Inv, Domains, Exclusive, at, calls
<1>3. Responses'
  BY <1>1, ResponsesUnchanged DEF Inv, calls
<1>4. ASSUME NEW c \in Clients PROVE Stage(c)'
  BY <1>1 DEF Inv, Stage, at, Decoding, Decodes, HistoryIsSet, CommandsAreSet,
     IsUpdated, IsEvaluated, Outcome, IsObserved, Complete, Evaluation, Observation,
     Accepted, shared, calls
<1>5. QED BY <1>2, <1>3, <1>4 DEF Inv

LEMMA Preserved ==
  ASSUME ~Grpc, Inv, [Next]_vars
  PROVE  Inv'
<1>1. ASSUME NEW c \in Clients, call(c) PROVE Inv'
  BY <1>1, CallStep
<1>2. ASSUME NEW c \in Clients, decode(c) PROVE Inv'
  BY <1>2, DecodeStep
<1>3. ASSUME NEW c \in Clients, set_bodystates(c) PROVE Inv'
  BY <1>3, SetBodystatesStep
<1>4. ASSUME NEW c \in Clients, set_command_listener(c) PROVE Inv'
  BY <1>4, SetCommandListenerStep
<1>5. ASSUME NEW c \in Clients, update(c) PROVE Inv'
  BY <1>5, UpdateStep
<1>6. ASSUME NEW c \in Clients, sum_of_forces(c) PROVE Inv'
  BY <1>6, SumOfForcesStep
<1>7. ASSUME NEW c \in Clients, observe(c) PROVE Inv'
  BY <1>7, ObserveStep
<1>8. ASSUME NEW c \in Clients, return(c) PROVE Inv'
  BY <1>8, ReturnStep
<1>9. CASE UNCHANGED vars
  BY <1>9, Stuttering
<1>10. QED
  BY <1>1, <1>2, <1>3, <1>4, <1>5, <1>6, <1>7, <1>8, <1>9 DEF Next

LEMMA Outcomes ==
  ASSUME Inv
  PROVE  ResponseIsInSyncWithRequest /\ FailsOnlyByItsRequest
BY DEF Inv, Responses, ResponseIsInSyncWithRequest, FailsOnlyByItsRequest, Outcome,
   IsEvaluated, IsObserved

\* Handled one at a time, every call is answered as if it were alone: a response
\* without error is computed from its own request. Behind the simulator nothing of
\* an earlier request is left, not even of one that failed half-way.
THEOREM OneAtATime ==
  ASSUME ~Grpc
  PROVE  Spec => []ResponseIsInSyncWithRequest
BY Initially, Preserved, Outcomes, PTL DEF Spec

\* Handled one at a time, a request that gives its commands fails for its own fault
\* only, and does fail for it.
THEOREM FailuresAreItsOwn ==
  ASSUME ~Grpc
  PROVE  Spec => []FailsOnlyByItsRequest
BY Initially, Preserved, Outcomes, PTL DEF Spec

\* The reader of JSON messages leaves the states as they are.
LEMMA DecodedAsSent ==
  ASSUME ~Grpc, NEW r \in Requests
  PROVE  Decoded(r.states) = r.states
<1> DEFINE s == r.states
           Sample == [t : Int, x : States]
<1>1. s \in Seq(Sample)
  BY RequestsAssumption
<1> HIDE DEF s, Sample
<1>2. [i \in 1 .. Len(s) |-> s[i]] = s
  BY <1>1
<1>3. Decoded(s) = [i \in 1 .. Len(s) |-> s[i]]
  BY DEF Decoded
<1>4. QED BY <1>2, <1>3 DEF s

\* Handled one at a time, a response without error is evaluated at the date of the
\* last state of its request and with all the states at their dates, and that
\* whether or not the request gave its commands.
THEOREM AtItsOwnDate ==
  ASSUME ~Grpc
  PROVE  Spec => []EvaluatedAtTheRequestedDate
<1>1. Inv => EvaluatedAtTheRequestedDate
  <2> SUFFICES ASSUME Inv, NEW c \in Clients, Answered(c), response[c].status = "OK"
               PROVE  /\ response[c].derivatives.t = Final(response[c].request.states).t
                      /\ DOMAIN response[c].derivatives.history =
                           {s.t : s \in {response[c].request.states[i] :
                                           i \in 1 .. Len(response[c].request.states)}}
    BY DEF EvaluatedAtTheRequestedDate
  <2> DEFINE r == response[c].request
             s == r.states
  <2>1. /\ r \in Requests
        /\ response[c].derivatives.t = SimServerInputs(r).t
        /\ response[c].derivatives.history = Recording(Decoded(s))
    BY DEF Inv, Responses, Outcome, IsEvaluated
  <2>2. Decoded(s) = s
    BY <2>1, DecodedAsSent
  <2>3. SimServerInputs(r).t = Final(s).t
    BY <2>2 DEF SimServerInputs
  <2>4. DOMAIN Recording(s) = {s[i].t : i \in 1 .. Len(s)}
    BY DEF Recording
  <2>5. {s[i].t : i \in 1 .. Len(s)} = {y.t : y \in {s[i] : i \in 1 .. Len(s)}}
    OBVIOUS
  <2>6. QED BY <2>1, <2>2, <2>3, <2>4, <2>5
<1>2. QED BY <1>1, Initially, Preserved, PTL DEF Spec
-----------------------------------------------------------------------------
(* The server refines RequestResponse *)

\* A handler that runs has a request.
HasRequest ==
  /\ DOMAIN pc = Clients /\ DOMAIN request = Clients
  /\ \A c \in Clients : ~at(c, "idle") => request[c] \in Requests

\* A step of client c from one label to another.
Moves(c, l) == pc' = [pc EXCEPT ![c] = l]

LEMMA HandlerMoves ==
  ASSUME NEW c \in Clients, Handle(c), ~return(c)
  PROVE  /\ ~at(c, "idle") /\ UNCHANGED <<request, response>>
         /\ \E l : l # "idle" /\ Moves(c, l)
BY DEF Handle, decode, set_bodystates, set_command_listener, update, sum_of_forces,
   observe, at, goto, throw, Moves

LEMMA CallMoves ==
  ASSUME NEW c \in Clients, call(c)
  PROVE  /\ at(c, "idle") /\ Moves(c, "decode") /\ UNCHANGED response
         /\ \E r \in Requests : request' = [request EXCEPT ![c] = r]
BY DEF call, at, goto, Moves

LEMMA ReturnMoves ==
  ASSUME NEW c \in Clients, return(c)
  PROVE  at(c, "return") /\ Moves(c, "idle") /\ UNCHANGED request
BY DEF return, at, goto, Moves

LEMMA HasRequestStep ==
  ASSUME HasRequest, [Next]_vars
  PROVE  HasRequest'
<1>1. ASSUME NEW c \in Clients, call(c) PROVE HasRequest'
  BY <1>1, CallMoves DEF HasRequest, Moves, at
<1>2. ASSUME NEW c \in Clients, return(c) PROVE HasRequest'
  BY <1>2, ReturnMoves DEF HasRequest, Moves, at
<1>3. ASSUME NEW c \in Clients, Handle(c), ~return(c) PROVE HasRequest'
  BY <1>3, HandlerMoves DEF HasRequest, Moves, at
<1>4. CASE UNCHANGED vars
  BY <1>4 DEF HasRequest, at, vars, calls
<1>5. QED BY <1>1, <1>2, <1>3, <1>4 DEF Next, Handle

LEMMA AsksForOne ==
  ASSUME HasRequest, NEW c \in Clients, call(c)
  PROVE  Server!Next
<1>1. PICK r \in Requests : request' = [request EXCEPT ![c] = r]
  BY CallMoves
<1>2. Waiting[c] = None /\ Waiting' = [Waiting EXCEPT ![c] = r] /\ UNCHANGED response
  BY <1>1, CallMoves DEF Waiting, HasRequest, Moves, at
<1>3. QED BY <1>2 DEF Server!Next, Server!Ask

LEMMA AnswersOne ==
  ASSUME Inv, HasRequest, NEW c \in Clients, return(c)
  PROVE  Server!Next
<1>1. Waiting[c] # None /\ Waiting[c] = request[c]
  BY ReturnMoves, RequestsAssumption DEF Waiting, HasRequest, at
<1>2. Waiting' = [Waiting EXCEPT ![c] = None]
  BY ReturnMoves DEF Waiting, HasRequest, Moves, at
<1>3. response' = [response EXCEPT ![c] = response'[c]]
      /\ response'[c] =
           [request |-> request[c], status |-> status,
            derivatives |-> IF status = "OK" THEN derivatives[c] ELSE None,
            observations |-> IF status = "OK" THEN observations[c] ELSE None]
  BY DEF return, Inv, Domains
<1>4. Outcome(request[c], status, derivatives[c], observations[c])
  BY ReturnMoves DEF Inv, Stage
<1>5. Served(request[c], response'[c])
  BY <1>3, <1>4 DEF Served, Outcome, IsEvaluated, IsObserved
<1>6. QED BY <1>1, <1>2, <1>3, <1>5 DEF Server!Next, Server!Answer

LEMMA NothingHappens ==
  ASSUME HasRequest, NEW c \in Clients, Handle(c), ~return(c)
  PROVE  UNCHANGED <<Waiting, response>>
BY HandlerMoves DEF Waiting, HasRequest, Moves, at

\* Seen from the clients, the server without concurrent calls is one that answers
\* each request from the request alone: every call is an Ask, every return an
\* Answer, and the steps in between change nothing.
THEOREM ImplementsRequestResponse ==
  ASSUME ~Grpc
  PROVE  Spec => AnswersFromTheRequestAlone
<1>1. Init => HasRequest /\ Server!Init
  BY DEF Init, HasRequest, at, Server!Init, Waiting
<1>2. ASSUME Inv, HasRequest, [Next]_vars PROVE [Server!Next]_<<Waiting, response>>
  <2>1. CASE UNCHANGED vars
    BY <2>1 DEF vars, calls, Waiting, at
  <2>2. ASSUME NEW c \in Clients, call(c) PROVE Server!Next
    BY <1>2, <2>2, AsksForOne
  <2>3. ASSUME NEW c \in Clients, return(c) PROVE Server!Next
    BY <1>2, <2>3, AnswersOne
  <2>4. ASSUME NEW c \in Clients, Handle(c), ~return(c) PROVE UNCHANGED <<Waiting, response>>
    BY <1>2, <2>4, NothingHappens
  <2>5. QED BY <1>2, <2>1, <2>2, <2>3, <2>4 DEF Next, Handle
<1>3. QED
  BY <1>1, <1>2, Initially, Preserved, HasRequestStep, PTL
     DEF Spec, AnswersFromTheRequestAlone, Server!Exchanges
=============================================================================
