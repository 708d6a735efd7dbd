------------------------- MODULE CoSimulationProofs -------------------------
(* Each call of the co-simulation server runs from its request alone, for   *)
(* any requests, any length of a step and any solver of the list.           *)
EXTENDS CoSimulation, SequenceTheorems, FiniteSetTheorems, LeastNatural

-----------------------------------------------------------------------------
(* The run of a request, step by step *)

Start(run) == [history |-> run.history, evaluations |-> None, ok |-> run.ok]

\* What evaluation k of a step makes of those before it.
Evaluated(s, r, run, k, before) ==
  LET first == Final(run.states)
      date == first.t + Stages[s][k]
      y == IF k = 1 THEN first.x ELSE Integrated(first.x, before.evaluations)
      h == Record(before.history, date, y)
  IN IF ~before.ok \/ y = NaN \/ ComesBefore(date, before.history)
     THEN [before EXCEPT !.ok = FALSE]
     ELSE [history |-> h, ok |-> TRUE,
           evaluations |-> Append(before.evaluations,
                                  Evaluation(h, date, y, r.commands))]

IsAfter(f, n, s, r, run) ==
  f = [k \in 0 .. n |-> IF k = 0 THEN Start(run) ELSE Evaluated(s, r, run, k, f[k - 1])]

After(s, r, run) == CHOOSE f : IsAfter(f, Len(Stages[s]), s, r, run)

\* The end of a step of which the evaluations are known.
Stepped(r, run, last) ==
  IF ~last.ok THEN [run EXCEPT !.ok = FALSE]
  ELSE [history |-> last.history, ok |-> TRUE,
        states |-> Append(run.states,
          [t |-> Final(run.states).t + dt, x |-> Integrated(Final(run.states).x, last.evaluations),
           extra |-> IF r.requested_output = "forces"
                     THEN Final(last.evaluations) ELSE None])]

LEMMA StepFromIs ==
  ASSUME NEW s, NEW r, NEW run
  PROVE  StepFrom(s, r, run) = Stepped(r, run, After(s, r, run)[Len(Stages[s])])
BY DEF StepFrom, Stepped, After, IsAfter, Evaluated, Start

IsRuns(f, m, s, r, first) ==
  f = [n \in 0 .. m |-> IF n = 0 THEN first ELSE StepFrom(s, r, f[n - 1])]

FirstRun(r) ==
  LET now == Final(r.states)
      h == Recording(r.states)
  IN [history |-> h, ok |-> now.x # NaN,
      states |-> <<[t |-> now.t, x |-> now.x,
                    extra |-> IF r.requested_output = "forces"
                              THEN Evaluation(h, now.t, now.x, r.commands)
                              ELSE None]>>]

Runs(s, r) == CHOOSE f : IsRuns(f, r.steps, s, r, FirstRun(r))

LEMMA RunIs ==
  ASSUME NEW s, NEW r
  PROVE  Run(s, r) = Runs(s, r)[r.steps]
BY DEF Run, Runs, IsRuns, FirstRun

-----------------------------------------------------------------------------
(* The recursive functions exist *)

LEMMA AfterExists ==
  ASSUME NEW s, NEW r, NEW run, NEW n \in Nat
  PROVE  \E f : IsAfter(f, n, s, r, run)
<1> DEFINE T == {m \in 0 .. n : ~ \E f : IsAfter(f, m, s, r, run)}
<1>1. SUFFICES ASSUME T # {} PROVE FALSE
  OBVIOUS
<1>2. PICK m \in T : \A y \in T : m <= y
  <2>1. T \in SUBSET Nat
    OBVIOUS
  <2>2. QED BY <1>1, <2>1, LeastNat
<1>3. CASE m = 0
  <2> DEFINE f == [k \in 0 .. 0 |-> Start(run)]
  <2>1. f = [k \in 0 .. 0 |-> IF k = 0 THEN Start(run)
                              ELSE Evaluated(s, r, run, k, f[k - 1])]
    OBVIOUS
  <2> HIDE DEF f
  <2>2. IsAfter(f, 0, s, r, run)
    BY <2>1 DEF IsAfter
  <2>3. QED BY <1>3, <2>2
<1>4. CASE m # 0
  <2>1. m \in 1 .. n /\ m - 1 \in 0 .. n /\ ~(m <= m - 1)
    BY <1>4
  <2>2. m - 1 \notin T
    BY <1>2, <2>1
  <2>3. PICK g : IsAfter(g, m - 1, s, r, run)
    BY <2>1, <2>2
  <2> DEFINE last == Evaluated(s, r, run, m, g[m - 1])
             f == [k \in 0 .. m |-> IF k = m THEN last ELSE g[k]]
             h == [k \in 0 .. m |-> IF k = 0 THEN Start(run)
                                    ELSE Evaluated(s, r, run, k, f[k - 1])]
  <2>4. ASSUME NEW k \in 0 .. m PROVE f[k] = h[k]
    <3>1. CASE k = m
      <4>1. f[m] = last /\ f[m - 1] = g[m - 1]
        BY <2>1
      <4>2. h[m] = Evaluated(s, r, run, m, f[m - 1])
        BY <2>1
      <4>3. QED BY <3>1, <4>1, <4>2
    <3>2. CASE k # m
      <4>1. k \in 0 .. m - 1 /\ f[k] = g[k]
        BY <2>1, <3>2
      <4>2. g[k] = IF k = 0 THEN Start(run) ELSE Evaluated(s, r, run, k, g[k - 1])
        BY <2>3, <4>1 DEF IsAfter
      <4>3. k # 0 => f[k - 1] = g[k - 1]
        BY <2>1, <3>2
      <4>4. h[k] = IF k = 0 THEN Start(run) ELSE Evaluated(s, r, run, k, f[k - 1])
        OBVIOUS
      <4> HIDE DEF f, h, last
      <4>5. QED BY <4>1, <4>2, <4>3, <4>4
    <3>3. QED BY <3>1, <3>2
  <2>5. f = h
    <3>1. f = [k \in 0 .. m |-> f[k]] /\ h = [k \in 0 .. m |-> h[k]]
      OBVIOUS
    <3> HIDE DEF f, h
    <3>2. QED BY <2>4, <3>1
  <2> HIDE DEF f
  <2>6. IsAfter(f, m, s, r, run)
    BY <2>5 DEF IsAfter
  <2>7. QED BY <2>6
<1>5. QED BY <1>3, <1>4

LEMMA AfterIs ==
  ASSUME NEW s, NEW r, NEW run, Len(Stages[s]) \in Nat
  PROVE  /\ After(s, r, run)[0] = Start(run)
         /\ \A k \in 1 .. Len(Stages[s]) :
              After(s, r, run)[k] = Evaluated(s, r, run, k, After(s, r, run)[k - 1])
<1> DEFINE n == Len(Stages[s])
           a == After(s, r, run)
<1>1. n \in Nat
  OBVIOUS
<1>2. IsAfter(a, n, s, r, run)
  <2>1. \E f : IsAfter(f, n, s, r, run)
    BY <1>1, AfterExists
  <2>2. QED BY <2>1, Zenon DEF After
<1> HIDE DEF n, a
<1>3. \A k \in 0 .. n : a[k] = IF k = 0 THEN Start(run)
                               ELSE Evaluated(s, r, run, k, a[k - 1])
  BY <1>2 DEF IsAfter
<1>4. a[0] = Start(run) /\ \A k \in 1 .. n : a[k] = Evaluated(s, r, run, k, a[k - 1])
  BY <1>1, <1>3
<1>5. QED BY <1>4 DEF n, a

LEMMA RunsExist ==
  ASSUME NEW s, NEW r, NEW first, NEW n \in Nat
  PROVE  \E f : IsRuns(f, n, s, r, first)
<1> DEFINE T == {m \in 0 .. n : ~ \E f : IsRuns(f, m, s, r, first)}
<1>1. SUFFICES ASSUME T # {} PROVE FALSE
  OBVIOUS
<1>2. PICK m \in T : \A y \in T : m <= y
  <2>1. T \in SUBSET Nat
    OBVIOUS
  <2>2. QED BY <1>1, <2>1, LeastNat
<1>3. CASE m = 0
  <2> DEFINE f == [k \in 0 .. 0 |-> first]
  <2>1. f = [k \in 0 .. 0 |-> IF k = 0 THEN first ELSE StepFrom(s, r, f[k - 1])]
    OBVIOUS
  <2> HIDE DEF f
  <2>2. IsRuns(f, 0, s, r, first)
    BY <2>1 DEF IsRuns
  <2>3. QED BY <1>3, <2>2
<1>4. CASE m # 0
  <2>1. m \in 1 .. n /\ m - 1 \in 0 .. n /\ ~(m <= m - 1)
    BY <1>4
  <2>2. m - 1 \notin T
    BY <1>2, <2>1
  <2>3. PICK g : IsRuns(g, m - 1, s, r, first)
    BY <2>1, <2>2
  <2> DEFINE last == StepFrom(s, r, g[m - 1])
             f == [k \in 0 .. m |-> IF k = m THEN last ELSE g[k]]
             h == [k \in 0 .. m |-> IF k = 0 THEN first ELSE StepFrom(s, r, f[k - 1])]
  <2>4. ASSUME NEW k \in 0 .. m PROVE f[k] = h[k]
    <3>1. CASE k = m
      <4>1. f[m] = last /\ f[m - 1] = g[m - 1]
        BY <2>1
      <4>2. h[m] = StepFrom(s, r, f[m - 1])
        BY <2>1
      <4>3. QED BY <3>1, <4>1, <4>2
    <3>2. CASE k # m
      <4>1. k \in 0 .. m - 1 /\ f[k] = g[k]
        BY <2>1, <3>2
      <4>2. g[k] = IF k = 0 THEN first ELSE StepFrom(s, r, g[k - 1])
        BY <2>3, <4>1 DEF IsRuns
      <4>3. k # 0 => f[k - 1] = g[k - 1]
        BY <2>1, <3>2
      <4>4. h[k] = IF k = 0 THEN first ELSE StepFrom(s, r, f[k - 1])
        OBVIOUS
      <4> HIDE DEF f, h, last
      <4>5. QED BY <4>1, <4>2, <4>3, <4>4
    <3>3. QED BY <3>1, <3>2
  <2>5. f = h
    <3>1. f = [k \in 0 .. m |-> f[k]] /\ h = [k \in 0 .. m |-> h[k]]
      OBVIOUS
    <3> HIDE DEF f, h
    <3>2. QED BY <2>4, <3>1
  <2> HIDE DEF f
  <2>6. IsRuns(f, m, s, r, first)
    BY <2>5 DEF IsRuns
  <2>7. QED BY <2>6
<1>5. QED BY <1>3, <1>4

LEMMA RunsAre ==
  ASSUME NEW s, NEW r, r.steps \in Nat
  PROVE  /\ Runs(s, r)[0] = FirstRun(r)
         /\ \A n \in 1 .. r.steps : Runs(s, r)[n] = StepFrom(s, r, Runs(s, r)[n - 1])
<1> DEFINE n == r.steps
           a == Runs(s, r)
           first == FirstRun(r)
<1>1. n \in Nat
  OBVIOUS
<1>2. IsRuns(a, n, s, r, first)
  <2>1. \E f : IsRuns(f, n, s, r, first)
    BY <1>1, RunsExist
  <2>2. QED BY <2>1, Zenon DEF Runs
<1> HIDE DEF n, a, first
<1>3. \A k \in 0 .. n : a[k] = IF k = 0 THEN first ELSE StepFrom(s, r, a[k - 1])
  BY <1>2 DEF IsRuns
<1>4. a[0] = first /\ \A k \in 1 .. n : a[k] = StepFrom(s, r, a[k - 1])
  BY <1>1, <1>3
<1>5. QED BY <1>4 DEF n, a, first

-----------------------------------------------------------------------------
(* What fails remains failed *)

HasOk(y) == "ok" \in DOMAIN y

LEMMA AfterHasOk ==
  ASSUME NEW s, NEW r, NEW run, Len(Stages[s]) \in Nat
  PROVE  \A k \in 0 .. Len(Stages[s]) : HasOk(After(s, r, run)[k])
<1> DEFINE n == Len(Stages[s])
           a == After(s, r, run)
           T == {k \in 0 .. n : HasOk(a[k])}
<1>1. n \in Nat
  OBVIOUS
<1>2. a[0] = Start(run) /\ \A k \in 1 .. n : a[k] = Evaluated(s, r, run, k, a[k - 1])
  BY AfterIs
<1> HIDE DEF n, a
<1>3. 0 \in T
  BY <1>1, <1>2 DEF HasOk, Start
<1>4. ASSUME NEW k \in 0 .. n - 1, k \in T PROVE k + 1 \in T
  <2>1. k + 1 \in 1 .. n /\ k + 1 \in 0 .. n /\ (k + 1) - 1 = k
    BY <1>1
  <2>2. a[k + 1] = Evaluated(s, r, run, k + 1, a[k])
    BY <1>2, <2>1
  <2>3. HasOk(Evaluated(s, r, run, k + 1, a[k]))
    BY <1>4 DEF HasOk, Evaluated
  <2>4. QED BY <2>1, <2>2, <2>3
<1> HIDE DEF T
<1>5. \A k \in 0 .. n : k \in T
  BY <1>1, <1>3, <1>4, InductionUpTo
<1>6. QED BY <1>5 DEF T, n, a

LEMMA AfterFails ==
  ASSUME NEW s, NEW r, NEW run, Len(Stages[s]) \in Nat,
         NEW m \in 0 .. Len(Stages[s]), ~After(s, r, run)[m].ok
  PROVE  ~After(s, r, run)[Len(Stages[s])].ok
<1> DEFINE n == Len(Stages[s])
           a == After(s, r, run)
           T == {k \in m .. n : ~a[k].ok}
<1>1. n \in Nat /\ m \in 0 .. n /\ ~a[m].ok
  OBVIOUS
<1>2. \A k \in 1 .. n : a[k] = Evaluated(s, r, run, k, a[k - 1])
  BY AfterIs
<1>3. \A k \in 0 .. n : HasOk(a[k])
  BY AfterHasOk
<1> HIDE DEF n, a
<1>4. m \in T
  BY <1>1
<1>5. ASSUME NEW k \in m .. n - 1, k \in T PROVE k + 1 \in T
  <2>1. k + 1 \in 1 .. n /\ k + 1 \in m .. n /\ k \in 0 .. n /\ (k + 1) - 1 = k
    BY <1>1
  <2>2. a[k + 1] = Evaluated(s, r, run, k + 1, a[k]) /\ HasOk(a[k])
    BY <1>2, <1>3, <2>1
  <2>3. ~Evaluated(s, r, run, k + 1, a[k]).ok
    BY <1>5, <2>2 DEF HasOk, Evaluated
  <2>4. QED BY <2>1, <2>2, <2>3
<1> HIDE DEF T
<1>6. m \in Int /\ n \in Int
  BY <1>1
<1>7. \A k \in m .. n : k \in T
  BY <1>4, <1>5, <1>6, InductionUpTo
<1>8. n \in m .. n
  BY <1>1
<1>9. n \in T
  BY <1>7, <1>8
<1>10. QED BY <1>9 DEF T, n, a

LEMMA RunsHaveOk ==
  ASSUME NEW s, NEW r, r.steps \in Nat
  PROVE  \A n \in 0 .. r.steps : HasOk(Runs(s, r)[n])
<1> DEFINE n == r.steps
           a == Runs(s, r)
           T == {k \in 0 .. n : HasOk(a[k])}
<1>1. n \in Nat
  OBVIOUS
<1>2. a[0] = FirstRun(r) /\ \A k \in 1 .. n : a[k] = StepFrom(s, r, a[k - 1])
  BY RunsAre
<1> HIDE DEF n, a
<1>3. 0 \in T
  BY <1>1, <1>2 DEF HasOk, FirstRun
<1>4. ASSUME NEW k \in 0 .. n - 1, k \in T PROVE k + 1 \in T
  <2>1. k + 1 \in 1 .. n /\ k + 1 \in 0 .. n /\ (k + 1) - 1 = k
    BY <1>1
  <2>2. a[k + 1] = Stepped(r, a[k], After(s, r, a[k])[Len(Stages[s])])
    BY <1>2, <2>1, StepFromIs
  <2>3. HasOk(Stepped(r, a[k], After(s, r, a[k])[Len(Stages[s])]))
    BY <1>4 DEF HasOk, Stepped
  <2>4. QED BY <2>1, <2>2, <2>3
<1> HIDE DEF T
<1>5. \A k \in 0 .. n : k \in T
  BY <1>1, <1>3, <1>4, InductionUpTo
<1>6. QED BY <1>5 DEF T, n, a

LEMMA RunsFail ==
  ASSUME NEW s, NEW r, r.steps \in Nat, Len(Stages[s]) \in Nat,
         NEW m \in 0 .. r.steps, ~Runs(s, r)[m].ok
  PROVE  ~Runs(s, r)[r.steps].ok
<1> DEFINE n == r.steps
           a == Runs(s, r)
           T == {k \in m .. n : ~a[k].ok}
<1>1. n \in Nat /\ m \in 0 .. n /\ ~a[m].ok
  OBVIOUS
<1>2. \A k \in 1 .. n : a[k] = StepFrom(s, r, a[k - 1])
  BY RunsAre
<1>3. \A k \in 0 .. n : HasOk(a[k])
  BY RunsHaveOk
<1> HIDE DEF n, a
<1>4. m \in T
  BY <1>1
<1>5. ASSUME NEW k \in m .. n - 1, k \in T PROVE k + 1 \in T
  <2>1. k + 1 \in 1 .. n /\ k + 1 \in m .. n /\ k \in 0 .. n /\ (k + 1) - 1 = k
    BY <1>1
  <2> DEFINE last == After(s, r, a[k])[Len(Stages[s])]
  <2>2. a[k + 1] = Stepped(r, a[k], last)
    BY <1>2, <2>1, StepFromIs
  <2>3. ~last.ok
    <3>1. After(s, r, a[k])[0] = Start(a[k]) /\ 0 \in 0 .. Len(Stages[s])
      BY AfterIs
    <3>2. ~After(s, r, a[k])[0].ok
      BY <1>5, <3>1 DEF Start
    <3>3. QED BY <3>1, <3>2, AfterFails
  <2> HIDE DEF last
  <2>4. HasOk(a[k])
    BY <1>3, <2>1
  <2>5. ~Stepped(r, a[k], last).ok
    BY <2>3, <2>4 DEF HasOk, Stepped
  <2>6. QED BY <2>1, <2>2, <2>5
<1> HIDE DEF T
<1>6. m \in Int /\ n \in Int
  BY <1>1
<1>7. \A k \in m .. n : k \in T
  BY <1>4, <1>5, <1>6, InductionUpTo
<1>8. n \in m .. n
  BY <1>1
<1>9. n \in T
  BY <1>7, <1>8
<1>10. QED BY <1>9 DEF T, n, a

-----------------------------------------------------------------------------
(* The inductive invariant: what is known at each label *)

now == Final(request.states)

IsList(s) == \E S : s \in Seq(S)

\* A call of which only the message is there.
Fresh ==
  /\ request \in Requests /\ status = "OK"
  /\ observed = None /\ evaluations = None

Checked == request.well_formed /\ ~GoesBack(request.states) /\ request.steps > 0

\* The simulator has the states of the request and no other.
StatesAreSet == history = Recording(request.states) /\ state = now.x

\* It has its commands, possibly among others, and the loop ends Dt later.
CommandsAgree ==
  /\ solver \in DOMAIN Stages
  /\ \A n \in DOMAIN request.commands :
       n \in DOMAIN command_listener /\ command_listener[n] = request.commands[n]
  /\ tend = now.t + request.steps * dt

Underway ==
  /\ request \in Requests /\ status = "OK" /\ Checked /\ CommandsAgree
  /\ IsList(observed) /\ IsList(evaluations)

\* The observed states are a step apart, from the last one of the request.
Dated == \A k \in 1 .. Len(observed) : observed[k].t = now.t + (k - 1) * dt

\* In h are the states of the request and the first n observed ones.
Remembers(h, n) ==
  /\ DOMAIN h \subseteq Int
  /\ \A k \in 1 .. n :
       observed[k].t \in DOMAIN h /\ h[observed[k].t] = observed[k].x
  /\ \A d \in DOMAIN Recording(request.states) :
       d \in DOMAIN h /\ h[d] = Recording(request.states)[d]

\* What an observation has besides the state.
Extra == IF request.requested_output = "forces" THEN forces ELSE None

Observing ==
  /\ Underway
  /\ Len(observed) \in 0 .. request.steps
  /\ t = now.t + Len(observed) * dt
  /\ Len(observed) = 0 => state = now.x
  /\ Len(observed) # 0 => request.requested_output # "unknown"
  /\ Dated
  /\ Remembers(history, Len(observed))
  /\ Complete(request) =>
       Runs(solver, request)[Len(observed)] =
         [history |-> history, ok |-> TRUE,
          states |-> Append(observed, [t |-> t, x |-> state, extra |-> Extra])]

\* The step under way has begun as that of the run of the request did.
FollowsTheRun ==
  LET run == Runs(solver, request)[Len(observed) - 1]
  IN /\ run.ok /\ run.states = observed
     /\ After(solver, request, run)[Len(evaluations)] =
          [history |-> history, evaluations |-> evaluations, ok |-> TRUE]

Stepping ==
  /\ Underway
  /\ Len(observed) \in 1 .. request.steps
  /\ t = now.t + (Len(observed) - 1) * dt
  /\ Final(observed).t = t /\ Final(observed).x = x
  /\ Len(observed) = 1 => x = now.x
  /\ request.requested_output # "unknown"
  /\ Dated
  /\ Len(evaluations) <= Len(Stages[solver])
  /\ evaluations # None => forces = Final(evaluations)
  /\ Remembers(history, IF evaluations = None THEN Len(observed) - 1 ELSE Len(observed))
  /\ \A i \in 1 .. Len(evaluations) :
       /\ Remembers(evaluations[i].history, Len(observed))
       /\ \A d \in DOMAIN evaluations[i].history : d <= evaluations[i].t
  /\ Complete(request) => FollowsTheRun

\* What the client is told when the commands of its request suffice.
Outcome ==
  Complete(request) =>
    IF ~Accepted(solver, request) THEN status # "OK"
    ELSE IF Run(solver, request).ok
    THEN status = "OK" /\ observed = Run(solver, request).states
    ELSE status # "OK"

Inv ==
  /\ solver \in Solvers
  /\ at("decode") => Fresh
  /\ at("set_bodystates") => Fresh /\ Checked
  /\ at("set_command_listener") => Fresh /\ Checked /\ StatesAreSet
  /\ at("initialize") => Fresh /\ Checked /\ StatesAreSet /\ CommandsAgree /\ t = now.t
  /\ at("observe") => Observing
  /\ at("stage") => Stepping
  /\ at("return") => request \in Requests /\ Outcome

-----------------------------------------------------------------------------
(* Lists, requests, histories and stages *)

LEMMA ListFacts ==
  ASSUME NEW s, IsList(s)
  PROVE  Len(s) \in Nat /\ (s = None <=> Len(s) = 0)
BY EmptySeq DEF IsList, None

LEMMA NoneIsAList == IsList(None) /\ Len(None) = 0
BY EmptySeq DEF IsList, None

LEMMA AppendFacts ==
  ASSUME NEW s, IsList(s), NEW e
  PROVE  /\ IsList(Append(s, e)) /\ Append(s, e) # None
         /\ Len(Append(s, e)) = Len(s) + 1
         /\ Final(Append(s, e)) = e
         /\ \A i \in 1 .. Len(s) : Append(s, e)[i] = s[i]
<1>1. PICK S : s \in Seq(S)
  BY DEF IsList
<1> DEFINE T == S \cup {e}
           a == Append(s, e)
<1>2. s \in Seq(T) /\ e \in T
  <2>1. S \subseteq T /\ e \in T
    OBVIOUS
  <2> HIDE DEF T
  <2>2. QED BY <1>1, <2>1, SeqMonotonic
<1> HIDE DEF T
<1>3. /\ a \in Seq(T) /\ Len(a) = Len(s) + 1 /\ Len(s) \in Nat
      /\ a[Len(s) + 1] = e /\ \A i \in 1 .. Len(s) : a[i] = s[i]
  BY <1>2
<1>4. IsList(a)
  BY <1>3 DEF IsList
<1>5. a # None
  <2>1. Len(a) # 0
    BY <1>3
  <2>2. QED BY <1>4, <2>1, ListFacts
<1>6. QED BY <1>3, <1>4, <1>5 DEF Final

Sample == [t : Int, x : States]

LEMMA RequestFacts ==
  ASSUME NEW r \in Requests
  PROVE  /\ r.states \in Seq(Sample) /\ Len(r.states) \in Nat \ {0}
         /\ \A i \in 1 .. Len(r.states) :
              r.states[i].t \in Int /\ r.states[i].x \in States
         /\ Final(r.states).t \in Int /\ Final(r.states).x \in States
         /\ r.steps \in Int
<1> DEFINE s == r.states
<1>1. s \in Seq(Sample) /\ s # <<>> /\ r.steps \in Int
  BY RequestsAssumption DEF Sample
<1> HIDE DEF s
<1>2. Len(s) \in Nat \ {0}
  BY <1>1, EmptySeq
<1>3. \A i \in 1 .. Len(s) : s[i] \in Sample
  BY <1>1, ElementOfSeq
<1>4. \A i \in 1 .. Len(s) : s[i].t \in Int /\ s[i].x \in States
  BY <1>3 DEF Sample
<1>5. Final(s).t \in Int /\ Final(s).x \in States
  BY <1>2, <1>4 DEF Final
<1>6. QED BY <1>1, <1>2, <1>4, <1>5 DEF s

\* Of two states of a request at a date the later one is recorded.
LEMMA RecordingFacts ==
  ASSUME NEW r \in Requests
  PROVE  LET h == Recording(r.states)
             last == Final(r.states)
         IN /\ DOMAIN h \subseteq Int
            /\ last.t \in DOMAIN h /\ h[last.t] = last.x
            /\ \A d \in DOMAIN h : h[d] \in States
            /\ ~GoesBack(r.states) => \A d \in DOMAIN h : d <= last.t
<1> DEFINE s == r.states
           n == Len(s)
           h == Recording(s)
           AtDate(d) == {i \in 1 .. n : s[i].t = d}
           IsLast(d, i) == s[i].t = d /\ \A j \in i + 1 .. n : s[j].t # d
           LastOne(d) == CHOOSE i \in 1 .. n : IsLast(d, i)
<1>1. n \in Nat \ {0} /\ \A i \in 1 .. n : s[i].t \in Int /\ s[i].x \in States
  BY RequestFacts
<1>2. /\ DOMAIN h = {s[i].t : i \in 1 .. n}
      /\ \A d \in DOMAIN h : h[d] = s[LastOne(d)].x
  BY DEF Recording
<1>3. ~GoesBack(s) <=> ~ \E j \in 1 .. n : \E i \in 1 .. j - 1 : s[j].t < s[i].t
  BY DEF GoesBack
<1>4. Final(s) = s[n]
  BY DEF Final
<1> HIDE DEF s, n, h
<1>5. DOMAIN h \subseteq Int /\ s[n].t \in DOMAIN h
  BY <1>1, <1>2
<1>6. ASSUME NEW d \in DOMAIN h PROVE LastOne(d) \in 1 .. n /\ IsLast(d, LastOne(d))
  <2>1. PICK k \in 1 .. n : s[k].t = d
    BY <1>2
  <2>2. /\ AtDate(d) \in SUBSET Int /\ AtDate(d) # {} /\ n \in Int
        /\ \A i \in AtDate(d) : i <= n
    <3>1. k \in AtDate(d)
      BY <2>1
    <3>2. QED BY <1>1, <3>1
  <2>3. PICK i \in AtDate(d) : \A j \in AtDate(d) : j <= i
    <3> HIDE DEF AtDate
    <3>1. QED BY <2>2, GreatestBelow
  <2>4. i \in 1 .. n /\ IsLast(d, i)
    <3>1. i \in 1 .. n /\ s[i].t = d
      OBVIOUS
    <3>2. ASSUME NEW j \in i + 1 .. n PROVE s[j].t # d
      <4>1. j \in 1 .. n /\ ~(j <= i)
        BY <1>1, <3>1
      <4>2. j \notin AtDate(d)
        BY <2>3, <4>1
      <4>3. QED BY <4>1, <4>2
    <3>3. QED BY <3>1, <3>2
  <2> HIDE DEF IsLast
  <2>5. QED BY <2>4
<1>7. h[s[n].t] = s[n].x
  <2>1. LastOne(s[n].t) \in 1 .. n /\ IsLast(s[n].t, LastOne(s[n].t))
    BY <1>5, <1>6
  <2> HIDE DEF LastOne
  <2>2. LastOne(s[n].t) = n
    BY <1>1, <2>1
  <2>3. QED BY <1>2, <1>5, <2>2 DEF LastOne
<1>8. \A d \in DOMAIN h : h[d] \in States
  <2> HIDE DEF LastOne, IsLast
  <2>1. QED BY <1>1, <1>2, <1>6
<1>9. ASSUME ~GoesBack(s), NEW d \in DOMAIN h PROVE d <= s[n].t
  <2>1. PICK k \in 1 .. n : s[k].t = d
    BY <1>2
  <2>2. k # n => k \in 1 .. n - 1 /\ n \in 1 .. n
    BY <1>1
  <2>3. k # n => ~(s[n].t < s[k].t)
    BY <1>3, <1>9, <2>2
  <2>4. QED BY <1>1, <2>1, <2>3
<1>10. QED BY <1>4, <1>5, <1>7, <1>8, <1>9 DEF s, n, h

LEMMA StageFacts ==
  ASSUME NEW s \in DOMAIN Stages
  PROVE  /\ Len(Stages[s]) \in Nat \ {0}
         /\ \A k \in 1 .. Len(Stages[s]) : Stages[s][k] \in Int
         /\ Stages[s][1] = 0
         /\ \A k \in 2 .. Len(Stages[s]) : Stages[s][k] > 0
<1> DEFINE half == dt \div 2
           a == dt \div 5
           b == (3 * dt) \div 10
           c == (3 * dt) \div 5
           e == (7 * dt) \div 8
<1>1. /\ dt \in Int /\ dt > 0 /\ half \in Int /\ half > 0 /\ a \in Int /\ a > 0
      /\ b \in Int /\ b > 0 /\ c \in Int /\ c > 0 /\ e \in Int /\ e > 0
  BY StepAssumption
<1>2. Stages = [euler |-> <<0>>, rk4 |-> <<0, half, half, dt>>,
                rkck |-> <<0, a, b, c, dt, e>>]
  BY DEF Stages
<1> HIDE DEF half, a, b, c, e
<1>3. CASE s = "euler"
  <2>1. Stages[s] = <<0>>
    BY <1>2, <1>3
  <2>2. QED BY <2>1
<1>4. CASE s = "rk4"
  <2>1. Stages[s] = <<0, half, half, dt>>
    BY <1>2, <1>4
  <2>2. QED BY <1>1, <2>1
<1>5. CASE s = "rkck"
  <2>1. Stages[s] = <<0, a, b, c, dt, e>>
    BY <1>2, <1>5
  <2>2. QED BY <1>1, <2>1
<1>6. DOMAIN Stages = {"euler", "rk4", "rkck"}
  BY <1>2
<1>7. QED BY <1>3, <1>4, <1>5, <1>6

\* So many steps of length dt.
LEMMA StepsOrder ==
  ASSUME NEW a \in Int, NEW b \in Int
  PROVE  /\ a * dt \in Int
         /\ (a + 1) * dt = a * dt + dt
         /\ a < b <=> a * dt < b * dt
<1>1. dt \in Nat /\ dt > 0
  BY StepAssumption
<1>2. a * dt \in Int /\ b * dt \in Int /\ (a + 1) * dt = a * dt + dt
  BY <1>1
<1>3. a < b => a * dt < b * dt
  BY <1>1
<1>4. b <= a => b * dt <= a * dt
  BY <1>1
<1>5. QED BY <1>2, <1>3, <1>4

-----------------------------------------------------------------------------
(* The steps before the loop *)

LEMMA CallStep == ASSUME Inv, call PROVE Inv'
<1>1. pc' = "decode" /\ Fresh' /\ UNCHANGED solver
  BY DEF call, goto, Fresh
<1>2. QED BY <1>1 DEF Inv, at

\* A handler that fails for something a request must have.
LEMMA Refused ==
  ASSUME Inv, ~Accepted(solver, request), request \in Requests,
         pc' = "return", status' # "OK", UNCHANGED <<solver, request>>
  PROVE  Inv'
<1>1. Outcome'
  BY DEF Outcome, Accepted
<1>2. QED BY <1>1 DEF Inv, at

LEMMA DecodeStep == ASSUME Inv, decode PROVE Inv'
<1>1. Fresh /\ request \in Requests /\ UNCHANGED <<solver, request, loop, observed>>
  BY DEF Inv, decode, at, Fresh
<1>2. CASE Checked
  <2>1. pc' = "set_bodystates" /\ UNCHANGED status
    BY <1>1, <1>2, RequestFacts DEF decode, Checked, goto
  <2>2. Fresh' /\ Checked'
    BY <1>1, <1>2, <2>1 DEF Fresh, Checked, loop
  <2>3. QED BY <1>1, <2>1, <2>2 DEF Inv, at
<1>3. CASE ~Checked
  <2>1. pc' = "return" /\ status' # "OK"
    BY <1>1, <1>3, RequestFacts DEF decode, Checked, goto, throw
  <2>2. ~Accepted(solver, request)
    BY <1>3 DEF Accepted, Checked
  <2>3. QED BY <1>1, <2>1, <2>2, Refused
<1>4. QED BY <1>2, <1>3

LEMMA SetBodystatesStep == ASSUME Inv, set_bodystates PROVE Inv'
<1>1. Fresh /\ Checked
  BY DEF Inv, set_bodystates, at
<1>2. /\ pc' = "set_command_listener"
      /\ UNCHANGED <<solver, status, request, loop, observed>>
      /\ history' = Recording(request.states) /\ state' = now.x
  BY DEF set_bodystates, goto, now
<1>3. Fresh' /\ Checked' /\ StatesAreSet'
  BY <1>1, <1>2 DEF Fresh, Checked, StatesAreSet, now, loop
<1>4. QED BY <1>2, <1>3 DEF Inv, at

LEMMA SetCommandListenerStep == ASSUME Inv, set_command_listener PROVE Inv'
<1>1. Fresh /\ Checked /\ StatesAreSet /\ solver \in Solvers
  BY DEF Inv, set_command_listener, at
<1>2. /\ UNCHANGED <<solver, history, state, request, evaluations, observed>>
      /\ command_listener' = Updated(command_listener, request.commands)
      /\ t' = now.t /\ tend' = now.t + request.steps * dt
  BY DEF set_command_listener, now
<1>3. CASE solver = "unknown"
  <2>1. pc' = "return" /\ status' # "OK" /\ ~Accepted(solver, request)
    BY <1>3 DEF set_command_listener, goto, throw, Accepted
  <2>2. QED BY <1>1, <1>2, <2>1, Refused DEF Fresh
<1>4. CASE solver # "unknown"
  <2>1. pc' = "initialize" /\ UNCHANGED status
    BY <1>4 DEF set_command_listener, goto
  <2>2. Fresh' /\ Checked' /\ StatesAreSet' /\ t' = now'.t
    BY <1>1, <1>2, <2>1 DEF Fresh, Checked, StatesAreSet, now
  <2>3. CommandsAgree'
    <3>1. solver' \in DOMAIN Stages
      BY <1>1, <1>2, <1>4 DEF Solvers
    <3>2. \A n \in DOMAIN request.commands :
            /\ n \in DOMAIN command_listener'
            /\ command_listener'[n] = request.commands[n]
      BY <1>2 DEF Updated
    <3>3. QED BY <1>2, <3>1, <3>2 DEF CommandsAgree, now
  <2>4. QED BY <1>1, <1>2, <2>1, <2>2, <2>3 DEF Inv, at
<1>5. QED BY <1>3, <1>4

-----------------------------------------------------------------------------
(* An evaluation of the derivatives *)

LEMMA OwnCommands ==
  ASSUME CommandsAgree, Complete(request)
  PROVE  /\ CommandsAreSet
         /\ \A h, s, y : Evaluation(h, s, y, command_listener)
                           = Evaluation(h, s, y, request.commands)
<1>1. \A n \in Commands : n \in DOMAIN command_listener
                          /\ command_listener[n] = request.commands[n]
  BY DEF CommandsAgree, Complete
<1>2. [n \in Commands |-> command_listener[n]] = [n \in Commands |-> request.commands[n]]
  BY <1>1
<1>3. QED BY <1>1, <1>2 DEF CommandsAreSet, Evaluation

\* An evaluation fails when the run of the request does.
LEMMA FailsAsTheRun ==
  ASSUME Inv, request \in Requests, Checked, CommandsAgree,
         NEW m \in 0 .. request.steps, ~Runs(solver, request)[m].ok,
         pc' = "return", status' # "OK", UNCHANGED <<solver, request>>
  PROVE  Inv'
<1>1. request.steps \in Nat /\ Len(Stages[solver]) \in Nat
  BY RequestFacts, StageFacts DEF Checked, CommandsAgree
<1>2. ~Runs(solver, request)[request.steps].ok
  BY <1>1, RunsFail
<1>3. ~Run(solver, request).ok
  BY <1>2, RunIs
<1>4. Outcome'
  BY <1>3 DEF Outcome
<1>5. QED BY <1>4 DEF Inv, at

LEMMA FailsForItsCommands ==
  ASSUME Inv, request \in Requests, CommandsAgree, ~CommandsAreSet,
         pc' = "return", UNCHANGED <<solver, request>>
  PROVE  Inv'
<1>1. ~Complete(request)
  BY OwnCommands
<1>2. Outcome'
  BY <1>1 DEF Outcome, Complete
<1>3. QED BY <1>2 DEF Inv, at

\* Before the loop the date of the history is that of the last state of the request.
LEMMA PastOfTheRequest ==
  ASSUME request \in Requests, Checked, StatesAreSet
  PROVE  /\ DOMAIN history \subseteq Int /\ now.t \in DOMAIN history
         /\ history[now.t] = now.x
         /\ \A d \in DOMAIN history : d <= now.t
         /\ request.steps \in Nat \ {0} /\ now.t \in Int
         /\ (CHOOSE s \in DOMAIN history : \A d \in DOMAIN history : d <= s) = now.t
<1>1. ~GoesBack(request.states) /\ request.steps > 0
      /\ history = Recording(request.states)
  BY DEF Checked, StatesAreSet
<1>2. now.t \in Int /\ request.steps \in Int
  BY RequestFacts DEF now
<1>3. /\ DOMAIN history \subseteq Int /\ now.t \in DOMAIN history
      /\ history[now.t] = now.x /\ \A d \in DOMAIN history : d <= now.t
  BY <1>1, RecordingFacts DEF now
<1>4. \A s \in DOMAIN history : (\A d \in DOMAIN history : d <= s) => s = now.t
  BY <1>2, <1>3
<1>5. QED BY <1>1, <1>2, <1>3, <1>4

LEMMA InitializeStep == ASSUME Inv, initialize PROVE Inv'
<1> DEFINE date == CHOOSE s \in DOMAIN history : \A d \in DOMAIN history : d <= s
<1>1. Fresh /\ Checked /\ StatesAreSet /\ CommandsAgree /\ t = now.t
  BY DEF Inv, initialize, at
<1>2. /\ dx_dt(date, state) /\ (status' = "OK" => goto("observe"))
      /\ UNCHANGED <<solver, command_listener, request, loop, observed>>
  BY DEF initialize
<1>3. /\ DOMAIN history \subseteq Int /\ now.t \in DOMAIN history /\ history[now.t] = now.x
      /\ \A d \in DOMAIN history : d <= now.t
      /\ request.steps \in Nat \ {0} /\ now.t \in Int
  BY <1>1, PastOfTheRequest DEF Fresh
<1>4. date = now.t
  BY <1>1, PastOfTheRequest DEF Fresh
<1> HIDE DEF date
<1>5. ~ComesBefore(date, history)
  BY <1>3, <1>4 DEF ComesBefore
<1>6. CASE state = NaN
  <2>1. pc' = "return" /\ status' # "OK"
    BY <1>2, <1>6 DEF dx_dt, throw, goto
  <2>2. ~Runs(solver, request)[0].ok
    <3>1. Runs(solver, request)[0] = FirstRun(request)
      BY <1>3, RunsAre
    <3>2. FirstRun(request).ok = (Final(request.states).x # NaN)
      BY DEF FirstRun
    <3>3. Final(request.states).x = NaN
      BY <1>1, <1>6 DEF StatesAreSet, now
    <3>4. QED BY <3>1, <3>2, <3>3
  <2>3. 0 \in 0 .. request.steps
    BY <1>3
  <2>4. QED BY <1>1, <1>2, <2>1, <2>2, <2>3, FailsAsTheRun DEF Fresh
<1>7. CASE state # NaN /\ ~CommandsAreSet
  <2>1. pc' = "return"
    BY <1>2, <1>5, <1>7 DEF dx_dt, throw, goto
  <2>2. QED BY <1>1, <1>2, <1>7, <2>1, FailsForItsCommands DEF Fresh
<1>8. CASE state # NaN /\ CommandsAreSet
  <2>1. /\ history' = Record(history, now.t, now.x)
        /\ forces' = Evaluation(history', now.t, now.x, command_listener)
        /\ state' = state /\ state = now.x /\ UNCHANGED status
    BY <1>1, <1>2, <1>4, <1>5, <1>8 DEF dx_dt, StatesAreSet
  <2>2. history' = history
    <3> DEFINE h == Record(history, now.t, now.x)
    <3>1. DOMAIN h = DOMAIN history /\ \A d \in DOMAIN h : h[d] = history[d]
      BY <1>3 DEF Record
    <3>2. h = [d \in DOMAIN h |-> h[d]] /\ history = [d \in DOMAIN history |-> history[d]]
      <4>1. h = [d \in DOMAIN h |-> h[d]]
        BY DEF Record
      <4>2. history = Recording(request.states)
        BY <1>1 DEF StatesAreSet
      <4>3. history = [d \in DOMAIN history |-> history[d]]
        BY <4>2 DEF Recording
      <4>4. QED BY <4>1, <4>3
    <3> HIDE DEF h
    <3>3. h = history
      BY <3>1, <3>2
    <3>4. QED BY <2>1, <3>3 DEF h
  <2>3. pc' = "observe" /\ observed' = None /\ Len(observed') = 0 /\ evaluations' = None
    BY <1>1, <1>2, <2>1, NoneIsAList DEF Fresh, loop, goto
  <2>4. Underway'
    BY <1>1, <1>2, <2>1, <2>3, NoneIsAList
       DEF Fresh, Underway, Checked, CommandsAgree, now, loop
  <2>5. t' = now'.t + Len(observed') * dt /\ Len(observed') \in 0 .. request'.steps
    <3>1. 0 * dt = 0
      BY StepAssumption
    <3>2. QED BY <1>1, <1>2, <1>3, <2>3, <3>1 DEF now, loop
  <2>6. Dated'
    BY <2>3 DEF Dated
  <2>7. Remembers(history, Len(observed))'
    BY <1>1, <1>2, <1>3, <2>2, <2>3 DEF Remembers, StatesAreSet
  <2>8. ASSUME Complete(request)
        PROVE  Runs(solver, request)[0] =
                 [history |-> history', ok |-> TRUE,
                  states |-> Append(None, [t |-> now.t, x |-> now.x, extra |-> Extra'])]
    <3>1. Runs(solver, request)[0] = FirstRun(request)
      BY <1>3, RunsAre
    <3>2. forces' = Evaluation(history', now.t, now.x, request.commands)
      BY <1>1, <2>1, <2>8, OwnCommands
    <3> DEFINE e == [t |-> now.t, x |-> now.x, extra |-> Extra']
    <3>3. Append(None, e) = <<e>>
      BY DEF None
    <3>4. Extra' = IF request.requested_output = "forces"
                   THEN Evaluation(history', now.t, now.x, request.commands) ELSE None
      BY <1>2, <3>2 DEF Extra
    <3>5. history' = Recording(request.states) /\ now.x # NaN
      BY <1>1, <1>8, <2>2 DEF StatesAreSet
    <3>6. FirstRun(request) = [history |-> history', ok |-> TRUE, states |-> <<e>>]
      BY <3>4, <3>5 DEF FirstRun, now
    <3> HIDE DEF e
    <3>7. QED BY <3>1, <3>3, <3>6 DEF e
  <2>9. Complete(request') =>
          Runs(solver', request')[Len(observed')] =
            [history |-> history', ok |-> TRUE,
             states |-> Append(observed', [t |-> t', x |-> state', extra |-> Extra'])]
    BY <1>1, <1>2, <2>1, <2>3, <2>8 DEF loop
  <2>10. Observing'
    BY <1>2, <2>1, <2>3, <2>4, <2>5, <2>6, <2>7, <2>9 DEF Observing, now
  <2>11. QED BY <1>2, <2>3, <2>10 DEF Inv, at
<1>9. QED BY <1>6, <1>7, <1>8

-----------------------------------------------------------------------------
(* The loop *)

\* What a count of observations says of the dates of the loop.
LEMMA LoopDates ==
  ASSUME request \in Requests, CommandsAgree, NEW n \in 0 .. request.steps,
         t = now.t + n * dt
  PROVE  /\ t \in Int /\ tend \in Int /\ now.t \in Int
         /\ (n + 1) * dt = n * dt + dt /\ n * dt \in Int
         /\ StepsRemain <=> n < request.steps
<1>1. now.t \in Int /\ request.steps \in Int /\ n \in Int
  BY RequestFacts DEF now
<1>2. /\ n * dt \in Int /\ request.steps * dt \in Int /\ (n + 1) * dt = n * dt + dt
      /\ n < request.steps <=> n * dt < request.steps * dt
  BY <1>1, StepsOrder
<1>3. tend = now.t + request.steps * dt
  BY DEF CommandsAgree
<1> HIDE DEF now
<1>4. QED BY <1>1, <1>2, <1>3 DEF StepsRemain

LEMMA ObserveStep == ASSUME Inv, observe PROVE Inv'
<1> DEFINE n == Len(observed)
           o == [t |-> t, x |-> state, extra |-> Extra]
<1>1. /\ Observing /\ Underway /\ request \in Requests /\ Checked /\ CommandsAgree
      /\ IsList(observed) /\ n \in 0 .. request.steps /\ t = now.t + n * dt
      /\ solver \in Solvers
  BY DEF Inv, observe, at, Observing, Underway
<1>2. CASE request.requested_output = "unknown"
  <2>1. pc' = "return" /\ status' # "OK" /\ UNCHANGED <<solver, request>>
    BY <1>2 DEF observe, throw, goto
  <2>2. QED BY <1>1, <1>2, <2>1, Refused DEF Accepted
<1>3. CASE request.requested_output # "unknown"
  <2>1. /\ observed' = Append(observed, o) /\ x' = state /\ evaluations' = None
        /\ UNCHANGED <<solver, status, history, state, forces, command_listener, request,
                       tend, t>>
        /\ IF StepsRemain THEN pc' = "stage" ELSE pc' = "return"
    BY <1>3 DEF observe, goto, Extra, simulator
  <2>2. /\ IsList(observed') /\ Len(observed') = n + 1 /\ observed' # None
        /\ Final(observed') = o /\ \A i \in 1 .. n : observed'[i] = observed[i]
    BY <1>1, <2>1, AppendFacts
  <2>3. o.t = t /\ o.x = state
    OBVIOUS
  <2>4. StepsRemain <=> n < request.steps
    BY <1>1, LoopDates
  <2>5. n \in Nat /\ request.steps \in Nat
    BY <1>1, ListFacts, RequestFacts DEF Checked
  <2>6. ASSUME Complete(request)
        PROVE  Runs(solver, request)[n] =
                 [history |-> history, ok |-> TRUE, states |-> observed']
    BY <1>1, <2>1, <2>6 DEF Observing
  <2> HIDE DEF n, o
  <2>7. CASE StepsRemain
    <3>1. Underway'
      BY <1>1, <2>1, <2>2, NoneIsAList DEF Underway, Checked, CommandsAgree, now
    <3>2. /\ Len(observed') \in 1 .. request'.steps
          /\ t' = now'.t + (Len(observed') - 1) * dt
      BY <1>1, <2>1, <2>2, <2>4, <2>5, <2>7 DEF now
    <3>3. Final(observed').t = t' /\ Final(observed').x = x'
      BY <2>1, <2>2, <2>3
    <3>4. Len(observed') = 1 => x' = now'.x
      BY <1>1, <2>1, <2>2, <2>5 DEF Observing, now, n
    <3>5. Dated'
      <4>1. observed'[n + 1].t = now.t + n * dt
        BY <1>1, <2>2, <2>3, <2>5 DEF Final
      <4>2. \A k \in 1 .. n : observed'[k].t = now.t + (k - 1) * dt
        BY <1>1, <2>2 DEF Observing, Dated, n
      <4>3. \A k \in 1 .. n + 1 : k = n + 1 \/ k \in 1 .. n
        BY <2>5
      <4>4. ASSUME NEW k \in 1 .. n + 1
            PROVE  observed'[k].t = now.t + (k - 1) * dt
        <5>1. CASE k = n + 1
          <6>1. k - 1 = n
            BY <2>5, <5>1
          <6>2. QED BY <4>1, <5>1, <6>1
        <5>2. CASE k \in 1 .. n
          BY <4>2, <5>2
        <5>3. QED BY <4>3, <5>1, <5>2
      <4>5. now' = now
        BY <2>1 DEF now
      <4> HIDE DEF now
      <4>6. QED BY <2>2, <4>4, <4>5 DEF Dated
    <3>6. Remembers(history, Len(observed) - 1)'
      <4>1. n + 1 - 1 = n
        BY <2>5
      <4>2. Len(observed') - 1 = n
        BY <2>2, <2>5
      <4>3. Remembers(history, n)
        BY <1>1 DEF Observing, n
      <4>4. \A k \in 1 .. n :
              /\ observed'[k].t \in DOMAIN history
              /\ history[observed'[k].t] = observed'[k].x
        BY <2>2, <4>3 DEF Remembers
      <4>5. QED BY <2>1, <4>2, <4>3, <4>4 DEF Remembers
    <3>7. Len(evaluations') = 0 /\ Len(evaluations') <= Len(Stages[solver'])
      BY <1>1, <2>1, NoneIsAList, StageFacts DEF CommandsAgree
    <3>8. Complete(request') => FollowsTheRun'
      <4> SUFFICES ASSUME Complete(request) PROVE FollowsTheRun'
        BY <2>1 DEF Complete
      <4> DEFINE run == Runs(solver, request)[n]
      <4>1. run = [history |-> history, ok |-> TRUE, states |-> observed']
        BY <2>6
      <4>2. After(solver, request, run)[0] = Start(run)
        BY <1>1, StageFacts, AfterIs DEF CommandsAgree
      <4>3. Start(run) = [history |-> history, evaluations |-> None, ok |-> TRUE]
        BY <4>1 DEF Start
      <4>4. Len(observed') - 1 = n
        BY <2>2, <2>5
      <4> HIDE DEF run
      <4>5. run.ok /\ run.states = observed'
        BY <4>1
      <4>6. QED BY <2>1, <3>7, <4>2, <4>3, <4>4, <4>5 DEF FollowsTheRun, run
    <3>9. Stepping'
      BY <1>3, <2>1, <3>1, <3>2, <3>3, <3>4, <3>5, <3>6, <3>7, <3>8
         DEF Stepping, now
    <3>10. QED BY <1>1, <2>1, <2>7, <3>9 DEF Inv, at
  <2>8. CASE ~StepsRemain
    <3>1. n = request.steps
      BY <1>1, <2>4, <2>5, <2>8 DEF n
    <3>2. Complete(request) =>
            Run(solver, request) = [history |-> history, ok |-> TRUE, states |-> observed']
      BY <2>6, <3>1, RunIs
    <3>3. Complete(request) =>
            Run(solver, request).ok /\ Run(solver, request).states = observed'
      BY <3>2
    <3>4. status' = "OK"
      BY <1>1, <2>1 DEF Underway
    <3>5. Accepted(solver, request)
      BY <1>1, <1>3, StepAssumption DEF Accepted, Checked, CommandsAgree, Stages
    <3>6. Outcome'
      BY <2>1, <3>3, <3>4, <3>5 DEF Outcome
    <3>7. QED BY <1>1, <2>1, <2>8, <3>6 DEF Inv, at
  <2>9. QED BY <2>7, <2>8
<1>4. QED BY <1>2, <1>3

LEMMA StepStep == ASSUME Inv, step PROVE Inv'
<1> DEFINE n == Len(observed)
           m == Len(Stages[solver])
<1>1. /\ Stepping /\ Underway /\ request \in Requests /\ Checked /\ CommandsAgree
      /\ IsList(observed) /\ IsList(evaluations)
      /\ n \in 1 .. request.steps /\ t = now.t + (n - 1) * dt
      /\ solver \in Solvers /\ Len(evaluations) = m
  BY DEF Inv, step, at, Stepping, Underway
<1>2. /\ state' = Integrated(x, evaluations) /\ t' = t + dt /\ pc' = "observe"
      /\ UNCHANGED <<solver, status, history, forces, command_listener, request, tend, x,
                     evaluations, observed>>
  BY DEF step, goto
<1>3. m \in Nat \ {0} /\ evaluations # None
  BY <1>1, StageFacts, ListFacts DEF CommandsAgree
<1>4. n \in Nat /\ n # 0 /\ request.steps \in Nat /\ n - 1 \in 0 .. request.steps
  <2>1. n \in Nat /\ request.steps \in Int
    BY <1>1, ListFacts, RequestFacts
  <2> HIDE DEF n
  <2>2. QED BY <1>1, <2>1
<1> HIDE DEF n, m
<1>5. Underway'
  BY <1>1, <1>2 DEF Underway, Checked, CommandsAgree, now
<1>6. t' = now'.t + Len(observed') * dt
  <2>1. /\ (n - 1 + 1) * dt = (n - 1) * dt + dt /\ (n - 1) * dt \in Int /\ now.t \in Int
        /\ n - 1 + 1 = n
    BY <1>1, <1>4, LoopDates
  <2>2. dt \in Int
    BY StepAssumption
  <2>3. t' = now.t + n * dt
    BY <1>1, <1>2, <2>1, <2>2
  <2>4. QED BY <1>2, <2>3 DEF now, n
<1>7. Dated' /\ Remembers(history, Len(observed))'
  BY <1>1, <1>2, <1>3 DEF Stepping, Dated, now, Remembers
<1>8. ASSUME Complete(request)
      PROVE  Runs(solver, request)[n] =
               [history |-> history, ok |-> TRUE,
                states |-> Append(observed, [t |-> t', x |-> state', extra |-> Extra'])]
  <2> DEFINE run == Runs(solver, request)[n - 1]
             last == After(solver, request, run)[m]
  <2>1. run.ok /\ run.states = observed
        /\ last = [history |-> history, evaluations |-> evaluations, ok |-> TRUE]
    BY <1>1, <1>8 DEF Stepping, FollowsTheRun, n
  <2>2. Runs(solver, request)[n] = Stepped(request, run, last)
    BY <1>1, <1>4, RunsAre, StepFromIs DEF m
  <2> HIDE DEF run, last
  <2>3. Final(observed).t = t /\ Final(observed).x = x /\ forces = Final(evaluations)
    BY <1>1, <1>3 DEF Stepping
  <2>4. Stepped(request, run, last) =
          [history |-> history, ok |-> TRUE,
           states |-> Append(observed,
             [t |-> t + dt, x |-> Integrated(x, evaluations),
              extra |-> IF request.requested_output = "forces" THEN forces ELSE None])]
    BY <2>1, <2>3 DEF Stepped
  <2>5. Extra' = IF request.requested_output = "forces" THEN forces ELSE None
    BY <1>2 DEF Extra
  <2>6. QED BY <1>2, <2>2, <2>4, <2>5
<1>9. Complete(request') =>
        Runs(solver', request')[Len(observed')] =
          [history |-> history', ok |-> TRUE,
           states |-> Append(observed', [t |-> t', x |-> state', extra |-> Extra'])]
  BY <1>2, <1>8 DEF n
<1>10. Observing'
  <2>1. /\ Len(observed') \in 0 .. request'.steps /\ Len(observed') # 0
        /\ request'.requested_output # "unknown"
    BY <1>1, <1>2, <1>4 DEF Stepping, n
  <2>2. QED BY <1>5, <1>6, <1>7, <1>9, <2>1 DEF Observing
<1>11. QED BY <1>1, <1>2, <1>10 DEF Inv, at

-----------------------------------------------------------------------------
(* An evaluation within a step *)

\* From which state and at which date.
Predicted == IF evaluations = None THEN x ELSE Integrated(x, evaluations)
Date == t + Stages[solver][Len(evaluations) + 1]

\* The first evaluation of a step is at its start, the others are later.
LEMMA EvaluationDates ==
  ASSUME Stepping, Len(evaluations) < Len(Stages[solver])
  PROVE  /\ t \in Int /\ Date \in Int /\ Len(evaluations) \in Nat
         /\ evaluations = None => Date = t /\ Predicted = x
         /\ evaluations # None => t < Date
<1>1. /\ request \in Requests /\ CommandsAgree /\ IsList(evaluations) /\ IsList(observed)
      /\ Len(observed) \in 1 .. request.steps
      /\ t = now.t + (Len(observed) - 1) * dt
  BY DEF Stepping, Underway
<1>2. Len(observed) \in Nat /\ Len(evaluations) \in Nat
      /\ (evaluations = None <=> Len(evaluations) = 0)
  BY <1>1, ListFacts
<1>3. t \in Int
  <2>1. Len(observed) - 1 \in 0 .. request.steps
    BY <1>1, <1>2, RequestFacts
  <2>2. QED BY <1>1, <2>1, LoopDates
<1> DEFINE k == Len(evaluations)
           m == Len(Stages[solver])
<1>4. /\ m \in Nat \ {0} /\ \A i \in 1 .. m : Stages[solver][i] \in Int
      /\ Stages[solver][1] = 0 /\ \A i \in 2 .. m : Stages[solver][i] > 0
  BY <1>1, StageFacts DEF CommandsAgree
<1>5. k < m /\ k \in Nat /\ (evaluations = None <=> k = 0) /\ Date = t + Stages[solver][k + 1]
  BY <1>2 DEF Date
<1> HIDE DEF k, m
<1>6. k + 1 \in 1 .. m /\ (k # 0 => k + 1 \in 2 .. m)
  BY <1>4, <1>5
<1>7. k # 0 => Stages[solver][k + 1] > 0
  BY <1>4, <1>6
<1>8. k = 0 => k + 1 = 1
  OBVIOUS
<1>9. k = 0 => Stages[solver][k + 1] = 0
  BY <1>4, <1>8
<1>10. Stages[solver][k + 1] \in Int
  BY <1>4, <1>6
<1>11. QED BY <1>3, <1>5, <1>7, <1>9, <1>10 DEF Predicted, k

\* What is recorded for it takes the place of no observed state.
LEMMA PredictionsAreKeptApart ==
  ASSUME Stepping, Len(evaluations) < Len(Stages[solver]), ~ComesBefore(Date, history)
  PROVE  LET h == Record(history, Date, Predicted)
         IN Remembers(h, Len(observed)) /\ \A d \in DOMAIN h : d <= Date
<1> DEFINE h == Record(history, Date, Predicted)
           n == Len(observed)
           past == Recording(request.states)
<1>1. /\ request \in Requests /\ Checked /\ CommandsAgree
      /\ IsList(observed) /\ n \in 1 .. request.steps
      /\ t = now.t + (n - 1) * dt /\ Final(observed).t = t /\ Final(observed).x = x
      /\ n = 1 => x = now.x
      /\ Dated
  BY DEF Stepping, Underway
<1>2. /\ t \in Int /\ Date \in Int
      /\ evaluations = None => Date = t /\ Predicted = x
      /\ evaluations # None => t < Date
  BY EvaluationDates
<1>3. n \in Nat /\ n # 0 /\ now.t \in Int
  BY <1>1, ListFacts, RequestFacts DEF now
<1>4. /\ DOMAIN history \subseteq Int
      /\ \A k \in 1 .. n - 1 : observed[k].t \in DOMAIN history
                               /\ history[observed[k].t] = observed[k].x
      /\ \A d \in DOMAIN past : d \in DOMAIN history /\ history[d] = past[d]
      /\ evaluations # None => t \in DOMAIN history /\ history[t] = x
  <2>1. CASE evaluations = None
    BY <2>1 DEF Stepping, Remembers
  <2>2. CASE evaluations # None
    <3>1. Remembers(history, n)
      BY <2>2 DEF Stepping
    <3>2. n \in 1 .. n /\ observed[n].t = t /\ observed[n].x = x
      BY <1>1, <1>3 DEF Final
    <3> HIDE DEF n
    <3>3. \A k \in 1 .. n - 1 : k \in 1 .. n
      BY <1>3
    <3>4. QED BY <3>1, <3>2, <3>3 DEF Remembers
  <2>3. QED BY <2>1, <2>2
<1>5. /\ DOMAIN h = DOMAIN history \cup {Date} /\ h[Date] = Predicted
      /\ \A d \in DOMAIN history : d # Date => h[d] = history[d]
  BY DEF Record
<1>6. observed[n].t = t /\ observed[n].x = x /\ \A k \in 1 .. n : observed[k].t = now.t + (k - 1) * dt
  BY <1>1 DEF Final, Dated
<1>7. past[now.t] = now.x /\ DOMAIN past \subseteq Int /\ \A d \in DOMAIN past : d <= now.t
  BY <1>1, RecordingFacts DEF now, Checked
<1> HIDE DEF h, n, past, now
<1>8. now.t <= t /\ (now.t = t => n = 1)
  <2>1. /\ 0 * dt = 0 /\ n - 1 \in Int /\ (n - 1) * dt \in Int
        /\ 0 < n - 1 <=> 0 * dt < (n - 1) * dt
    BY <1>3, StepsOrder, StepAssumption
  <2>2. n = 1 => (n - 1) * dt = 0
    BY StepAssumption
  <2>3. n = 1 \/ 0 < n - 1
    BY <1>3
  <2> DEFINE p == (n - 1) * dt
  <2>4. t = now.t + p /\ p \in Int
    BY <1>1, <2>1
  <2>5. n = 1 => p = 0
    BY <2>2
  <2>6. n # 1 => 0 < p
    <3>1. 0 < n - 1 => 0 * dt < p
      BY <2>1
    <3> HIDE DEF p
    <3>2. QED BY <2>1, <2>3, <3>1
  <2> HIDE DEF p
  <2>7. QED BY <1>3, <2>4, <2>5, <2>6
<1>9. ASSUME NEW k \in 1 .. n
      PROVE  observed[k].t \in DOMAIN h /\ h[observed[k].t] = observed[k].x
  <2>1. CASE k = n
    BY <1>2, <1>4, <1>5, <1>6, <2>1
  <2>2. CASE k # n
    <3>1. k \in 1 .. n - 1 /\ k - 1 \in Int /\ n - 1 \in Int /\ k - 1 < n - 1
      BY <1>3, <2>2
    <3>2. (k - 1) * dt \in Int /\ (n - 1) * dt \in Int /\ (k - 1) * dt < (n - 1) * dt
      BY <3>1, StepsOrder
    <3>3. observed[k].t < t
      BY <1>1, <1>3, <1>6, <3>2
    <3>4. observed[k].t # Date
      BY <1>2, <3>3
    <3>5. QED BY <1>4, <1>5, <3>1, <3>4
  <2>3. QED BY <2>1, <2>2
<1>10. ASSUME NEW d \in DOMAIN past
       PROVE  d \in DOMAIN h /\ h[d] = past[d]
  <2>1. CASE d # Date
    BY <1>4, <1>5, <2>1
  <2>2. CASE d = Date
    <3>1. d \in Int /\ d <= now.t /\ now.t <= t /\ t <= Date
      BY <1>2, <1>7, <1>8
    <3>2. d = now.t /\ now.t = t /\ Date = t
      BY <1>2, <1>3, <2>2, <3>1
    <3>3. evaluations = None
      BY <1>2, <3>2
    <3>4. Predicted = now.x
      BY <1>1, <1>2, <1>8, <3>2, <3>3
    <3>5. QED BY <1>5, <1>7, <2>2, <3>2, <3>4
  <2>3. QED BY <2>1, <2>2
<1>11. DOMAIN h \subseteq Int
  BY <1>2, <1>4, <1>5
<1>12. \A d \in DOMAIN h : d <= Date
  BY <1>2, <1>4, <1>5 DEF ComesBefore
<1>13. QED BY <1>9, <1>10, <1>11, <1>12 DEF Remembers, h, n, past

LEMMA StageStep == ASSUME Inv, stage PROVE Inv'
<1> DEFINE n == Len(observed)
           m == Len(Stages[solver])
           k == Len(evaluations)
           run == Runs(solver, request)[n - 1]
           after == After(solver, request, run)
           before == [history |-> history, evaluations |-> evaluations, ok |-> TRUE]
           h == Record(history, Date, Predicted)
           fails == Predicted = NaN \/ ComesBefore(Date, history)
<1>1. /\ Stepping /\ Underway /\ request \in Requests /\ Checked /\ CommandsAgree
      /\ IsList(observed) /\ IsList(evaluations)
      /\ n \in 1 .. request.steps /\ Final(observed).t = t /\ Final(observed).x = x
      /\ solver \in Solvers /\ k < m
  BY DEF Inv, stage, at, Stepping, Underway
<1>2. /\ dx_dt(Date, Predicted)
      /\ IF status' = "OK"
         THEN evaluations' = Append(evaluations, forces') /\ UNCHANGED pc
         ELSE UNCHANGED evaluations
      /\ UNCHANGED <<solver, command_listener, request, tend, t, x, observed>>
      /\ pc = "stage" /\ status = "OK"
  BY <1>1 DEF stage, at, Date, Predicted, Underway
<1>3. /\ n \in Nat /\ n # 0 /\ request.steps \in Nat /\ m \in Nat \ {0} /\ k \in Nat
      /\ (evaluations = None <=> k = 0)
  BY <1>1, ListFacts, RequestFacts, StageFacts DEF Checked, CommandsAgree
<1>4. k + 1 \in 1 .. m /\ k + 1 - 1 = k /\ k + 1 \in 0 .. m /\ n - 1 \in 0 .. request.steps
  <2> HIDE DEF n, k, m
  <2>1. QED BY <1>1, <1>3
<1>5. ASSUME Complete(request)
      PROVE  /\ run.ok /\ run.states = observed
             /\ after[k + 1] =
                  IF fails THEN [before EXCEPT !.ok = FALSE]
                  ELSE [history |-> h, ok |-> TRUE,
                        evaluations |-> Append(evaluations,
                           Evaluation(h, Date, Predicted, request.commands))]
  <2>1. run.ok /\ run.states = observed /\ after[k] = before
    BY <1>1, <1>5 DEF Stepping, FollowsTheRun
  <2>2. after[k + 1] = Evaluated(solver, request, run, k + 1, before)
    <3> HIDE DEF run, k, m, before
    <3>1. \A j \in 1 .. m, i \in 0 .. m :
            i = j - 1 => after[j] = Evaluated(solver, request, run, j, after[i])
      BY <1>3, AfterIs DEF m
    <3> HIDE DEF after, m
    <3>2. k + 1 \in 1 .. m /\ k \in 0 .. m /\ k = (k + 1) - 1
      <4> HIDE DEF k
      <4>1. QED BY <1>3, <1>4
    <3>3. after[k + 1] = Evaluated(solver, request, run, k + 1, after[k])
      BY <3>1, <3>2
    <3>4. QED BY <2>1, <3>3
  <2>3. /\ Date = Final(run.states).t + Stages[solver][k + 1]
        /\ Predicted = IF k + 1 = 1 THEN Final(run.states).x
                       ELSE Integrated(Final(run.states).x, before.evaluations)
    <3>1. Date = t + Stages[solver][k + 1]
      BY DEF Date
    <3>2. k + 1 = 1 <=> evaluations = None
      BY <1>3
    <3> HIDE DEF k, run
    <3>3. QED BY <1>1, <2>1, <3>1, <3>2 DEF Predicted
  <2> HIDE DEF after, run, k
  <2>4. QED BY <2>1, <2>2, <2>3 DEF Evaluated
<1>6. CASE fails
  <2>1. pc' = "return" /\ status' # "OK"
    BY <1>2, <1>6 DEF dx_dt, throw, goto
  <2>2. CASE ~Complete(request)
    <3>1. Outcome'
      BY <1>2, <2>2 DEF Outcome, Complete
    <3>2. QED BY <1>1, <1>2, <2>1, <3>1 DEF Inv, at
  <2>3. CASE Complete(request)
    <3>1. ~after[k + 1].ok
      BY <1>5, <1>6, <2>3
    <3> HIDE DEF n, k, m, fails
    <3>2. ~after[m].ok
      BY <1>3, <1>4, <3>1, AfterFails DEF m
    <3>3. Runs(solver, request)[n] = Stepped(request, run, after[m])
      BY <1>1, <1>3, RunsAre, StepFromIs DEF m
    <3>4. HasOk(run)
      BY <1>3, <1>4, RunsHaveOk
    <3> HIDE DEF run, after
    <3>5. ~Runs(solver, request)[n].ok
      BY <3>2, <3>3, <3>4 DEF HasOk, Stepped
    <3>6. n \in 0 .. request.steps
      BY <1>1, <1>3
    <3>7. QED BY <1>1, <1>2, <2>1, <3>5, <3>6, FailsAsTheRun
  <2>4. QED BY <2>2, <2>3
<1>7. CASE ~fails /\ ~CommandsAreSet
  <2>1. pc' = "return"
    BY <1>2, <1>7 DEF dx_dt, throw, goto
  <2>2. QED BY <1>1, <1>2, <1>7, <2>1, FailsForItsCommands
<1>8. CASE ~fails /\ CommandsAreSet
  <2> DEFINE e == Evaluation(h, Date, Predicted, command_listener)
  <2>1. /\ history' = h /\ forces' = e /\ state' = Predicted /\ UNCHANGED <<status, pc>>
        /\ evaluations' = Append(evaluations, e)
    BY <1>2, <1>8 DEF dx_dt
  <2>2. e.history = h /\ e.t = Date
    BY DEF Evaluation
  <2>3. Remembers(h, n) /\ \A d \in DOMAIN h : d <= Date
    BY <1>1, <1>8, PredictionsAreKeptApart
  <2>4. ASSUME Complete(request)
        PROVE  after[k + 1] = [history |-> h, ok |-> TRUE,
                               evaluations |-> Append(evaluations, e)]
    BY <1>1, <1>5, <1>8, <2>4, OwnCommands
  <2> HIDE DEF e, h, fails, before
  <2>5. /\ IsList(evaluations') /\ Len(evaluations') = k + 1 /\ evaluations' # None
        /\ Final(evaluations') = e /\ \A i \in 1 .. k : evaluations'[i] = evaluations[i]
    BY <1>1, <2>1, AppendFacts
  <2>6. evaluations'[k + 1] = e
    BY <2>5 DEF Final
  <2>7. Underway'
    BY <1>1, <1>2, <2>1, <2>5 DEF Underway, Checked, CommandsAgree, now
  <2>8. Remembers(history, Len(observed))'
    BY <1>2, <2>1, <2>3 DEF Remembers
  <2>9. /\ \A i \in 1 .. k :
             /\ Remembers(evaluations[i].history, n)
             /\ \A d \in DOMAIN evaluations[i].history : d <= evaluations[i].t
    BY <1>1 DEF Stepping
  <2>10. ASSUME NEW i \in 1 .. Len(evaluations')
         PROVE  /\ Remembers(evaluations[i].history, Len(observed))'
                /\ \A d \in DOMAIN evaluations'[i].history : d <= evaluations'[i].t
    <3>1. Remembers(evaluations'[i].history, n)
          /\ \A d \in DOMAIN evaluations'[i].history : d <= evaluations'[i].t
      <4> HIDE DEF k, n
      <4>1. i = k + 1 \/ i \in 1 .. k
        BY <1>3, <2>5
      <4>2. QED BY <2>2, <2>3, <2>5, <2>6, <2>9, <4>1
    <3>2. QED BY <1>2, <3>1 DEF Remembers
  <2>11. Complete(request') => FollowsTheRun'
    <3> SUFFICES ASSUME Complete(request) PROVE FollowsTheRun'
      BY <1>2 DEF Complete
    <3>1. run.ok /\ run.states = observed
      BY <1>5
    <3> HIDE DEF k
    <3>2. QED BY <1>2, <2>1, <2>4, <2>5, <3>1 DEF FollowsTheRun
  <2>12. Len(evaluations') <= Len(Stages[solver'])
    BY <1>2, <1>4, <2>5
  <2>13. /\ Len(observed') \in 1 .. request'.steps
         /\ t' = now'.t + (Len(observed') - 1) * dt
         /\ Final(observed').t = t' /\ Final(observed').x = x'
         /\ Len(observed') = 1 => x' = now'.x
         /\ request'.requested_output # "unknown" /\ Dated'
    BY <1>1, <1>2 DEF Stepping, Dated, now
  <2>14. Stepping'
    BY <2>1, <2>5, <2>7, <2>8, <2>10, <2>11, <2>12, <2>13 DEF Stepping
  <2>15. QED BY <1>1, <1>2, <2>1, <2>14 DEF Inv, at
<1>9. QED BY <1>6, <1>7, <1>8

-----------------------------------------------------------------------------
(* The invariant holds, and what follows from it *)

LEMMA ReturnStep == ASSUME Inv, return PROVE Inv'
<1>1. pc' = "idle" /\ UNCHANGED solver
  BY DEF return, goto
<1>2. QED BY <1>1 DEF Inv, at

LEMMA Stuttering == ASSUME Inv, UNCHANGED vars PROVE Inv'
<1>1. UNCHANGED <<solver, status, history, state, forces, command_listener, pc, request,
                  tend, t, x, evaluations, observed>>
  BY DEF vars, simulator, loop
<1>2. QED
  BY <1>1 DEF Inv, at, Fresh, Checked, StatesAreSet, CommandsAgree, Observing, Stepping,
     Underway, Dated, Remembers, Extra, FollowsTheRun, Outcome, Complete, now

LEMMA Initially == Init => Inv
BY DEF Init, Inv, at

LEMMA Preserved == ASSUME Inv, [Next]_vars PROVE Inv'
<1>1. CASE call
  BY <1>1, CallStep
<1>2. CASE decode
  BY <1>2, DecodeStep
<1>3. CASE set_bodystates
  BY <1>3, SetBodystatesStep
<1>4. CASE set_command_listener
  BY <1>4, SetCommandListenerStep
<1>5. CASE initialize
  BY <1>5, InitializeStep
<1>6. CASE observe
  BY <1>6, ObserveStep
<1>7. CASE stage
  BY <1>7, StageStep
<1>8. CASE step
  BY <1>8, StepStep
<1>9. CASE return
  BY <1>9, ReturnStep
<1>10. CASE UNCHANGED vars
  BY <1>10, Stuttering
<1>11. QED
  BY <1>1, <1>2, <1>3, <1>4, <1>5, <1>6, <1>7, <1>8, <1>9, <1>10 DEF Next, Handle

\* Whatever predictions a solver records within a step, the evaluations find at the
\* dates of the answered states those states, and before them the states of the
\* request; and they find nothing later than themselves.
THEOREM ModelsFindTheAnsweredPast == Spec => []ThePastIsTheAnsweredOne
<1>1. Inv => ThePastIsTheAnsweredOne
  <2> SUFFICES ASSUME Inv, pc = "stage", NEW i \in 1 .. Len(evaluations)
               PROVE  LET past == evaluations[i].history
                      IN /\ \A k \in 1 .. Len(observed) : past[observed[k].t] = observed[k].x
                         /\ \A d \in DOMAIN Recording(request.states) :
                              past[d] = Recording(request.states)[d]
                         /\ \A d \in DOMAIN past : d <= evaluations[i].t
    BY DEF ThePastIsTheAnsweredOne
  <2>1. /\ Remembers(evaluations[i].history, Len(observed))
        /\ \A d \in DOMAIN evaluations[i].history : d <= evaluations[i].t
    BY DEF Inv, at, Stepping
  <2>2. QED BY <2>1 DEF Remembers
<1>2. QED BY <1>1, Initially, Preserved, PTL DEF Spec

-----------------------------------------------------------------------------
(* The server refines RequestResponse *)

\* The request that waits for its answer, if any.
Waiting == [c \in Client |-> IF pc = "idle" THEN None ELSE <<solver, request>>]

LEMMA AsksForOne == ASSUME Inv, call PROVE Server!Next
<1>1. /\ pc = "idle" /\ pc' = "decode" /\ request' \in Requests
      /\ UNCHANGED <<solver, response>>
  BY DEF call, at, goto
<1>2. <<solver, request'>> \in Solvers \X Requests
  BY <1>1 DEF Inv
<1>3. /\ "client" \in Client /\ Waiting["client"] = None
      /\ Waiting' = [Waiting EXCEPT !["client"] = <<solver, request'>>]
  BY <1>1 DEF Waiting, Client
<1>4. Server!Ask("client")
  BY <1>1, <1>2, <1>3 DEF Server!Ask, Waiting
<1>5. QED BY <1>3, <1>4 DEF Server!Next

LEMMA AnswersOne == ASSUME Inv, return PROVE Server!Next
<1> DEFINE a == [asked |-> <<solver, request>>, status |-> status,
                 states |-> IF status = "OK" THEN observed ELSE None]
<1>1. /\ pc = "return" /\ pc' = "idle" /\ response' = a
      /\ UNCHANGED <<solver, request>> /\ Outcome
  BY DEF return, at, goto, Inv
<1>2. Served(<<solver, request>>, a)
  BY <1>1 DEF Served, Outcome
<1> HIDE DEF a
<1>3. /\ "client" \in Client /\ Waiting["client"] = <<solver, request>>
      /\ Waiting["client"] # None
      /\ Waiting' = [Waiting EXCEPT !["client"] = None]
  BY <1>1 DEF Waiting, Client, None
<1>4. [c \in Client |-> response'] = [[c \in Client |-> response] EXCEPT !["client"] = a]
      /\ [c \in Client |-> response']["client"] = a
  BY <1>1 DEF Client
<1>5. Server!Answer("client")
  BY <1>2, <1>3, <1>4 DEF Server!Answer, Waiting
<1>6. QED BY <1>3, <1>5 DEF Server!Next

LEMMA NothingHappens ==
  ASSUME Inv, Handle, ~return
  PROVE  UNCHANGED <<Waiting, response>>
<1>1. pc # "idle" /\ UNCHANGED <<solver, request, response>>
  BY DEF Handle, decode, set_bodystates, set_command_listener, initialize, observe, stage,
     step, at
<1>2. CASE decode \/ set_bodystates \/ set_command_listener \/ observe \/ step
  <2>1. pc' # "idle"
    BY <1>2 DEF decode, set_bodystates, set_command_listener, observe, step, goto, throw
  <2>2. QED BY <1>1, <2>1 DEF Waiting
<1>3. CASE initialize \/ stage
  <2>1. status = "OK" /\ pc # "idle"
    BY <1>3 DEF Inv, initialize, stage, at, Fresh, Stepping, Underway
  <2>2. (status' = "OK" => pc' = "observe" \/ UNCHANGED pc)
        /\ (UNCHANGED status \/ pc' = "return")
    BY <1>3 DEF initialize, stage, dx_dt, goto, throw
  <2>3. QED BY <1>1, <2>1, <2>2 DEF Waiting
<1>4. QED BY <1>2, <1>3 DEF Handle

\* Each call is answered as a simulator would answer it that knows nothing but the
\* request: every call is an Ask, every return an Answer whose states are those of
\* the run of the request, or an error where that run has one, and the steps in
\* between change nothing for the client.
THEOREM ImplementsRequestResponse == Spec => AnswersFromTheRequestAlone
<1>1. Init => Server!Init
  BY DEF Init, Server!Init
<1>2. ASSUME Inv, [Next]_vars PROVE [Server!Next]_<<Waiting, [c \in Client |-> response]>>
  <2>1. CASE UNCHANGED vars
    BY <2>1 DEF vars, Waiting
  <2>2. CASE call
    BY <1>2, <2>2, AsksForOne
  <2>3. CASE return
    BY <1>2, <2>3, AnswersOne
  <2>4. CASE Handle /\ ~return
    BY <1>2, <2>4, NothingHappens
  <2>5. QED BY <1>2, <2>1, <2>2, <2>3, <2>4 DEF Next
<1>3. QED
  BY <1>1, <1>2, Initially, Preserved, PTL
     DEF Spec, AnswersFromTheRequestAlone, Server!Exchanges, Waiting

-----------------------------------------------------------------------------
(* Types *)

Histories ==
  {h \in UNION {[D -> States] : D \in SUBSET Int} : IsFiniteSet(DOMAIN h)}

Evaluations(Values) ==
  [t : Int, x : States, history : Histories, commands : [Commands -> Values]]

\* What the solver is assumed to make of evaluations: a state, NaN or not.
IntegratedIsAState(Values) ==
  \A y \in States, es \in Seq(Evaluations(Values)) \ {None} : Integrated(y, es) \in States

CommandsAreIn(Values) ==
  /\ \A n \in DOMAIN YamlCommands : YamlCommands[n] \in Values
  /\ \A r \in Requests : \A n \in DOMAIN r.commands : r.commands[n] \in Values

Typed(Values) ==
  /\ history \in Histories /\ state \in States /\ x \in States
  /\ \A n \in DOMAIN command_listener : command_listener[n] \in Values
  /\ evaluations \in Seq(Evaluations(Values))

LEMMA HistoryFacts ==
  ASSUME NEW h, DOMAIN h \subseteq Int, h = [d \in DOMAIN h |-> h[d]],
         \A d \in DOMAIN h : h[d] \in States, IsFiniteSet(DOMAIN h)
  PROVE  h \in Histories
<1>1. h \in [DOMAIN h -> States]
  OBVIOUS
<1>2. DOMAIN h \in SUBSET Int
  OBVIOUS
<1>3. QED BY <1>1, <1>2 DEF Histories

LEMMA RecordingIsAHistory ==
  ASSUME NEW r \in Requests
  PROVE  Recording(r.states) \in Histories
<1> DEFINE s == r.states
           h == Recording(s)
           f == [i \in 1 .. Len(s) |-> s[i].t]
<1>1. DOMAIN h = {s[i].t : i \in 1 .. Len(s)} /\ h = [d \in DOMAIN h |-> h[d]]
  BY DEF Recording
<1>2. DOMAIN h \subseteq Int /\ \A d \in DOMAIN h : h[d] \in States
  BY RecordingFacts
<1>3. Len(s) \in Int
  BY RequestFacts
<1> HIDE DEF s, h
<1>4. f \in Surjection(1 .. Len(s), DOMAIN h)
  BY <1>1 DEF Surjection
<1>5. IsFiniteSet(DOMAIN h)
  <2>1. IsFiniteSet(1 .. Len(s))
    BY <1>3, FS_Interval
  <2> HIDE DEF f
  <2>2. QED BY <1>4, <2>1, FS_Surjection
<1>6. h \in Histories
  BY <1>1, <1>2, <1>5, HistoryFacts
<1>7. QED BY <1>6 DEF h, s

LEMMA RecordIsAHistory ==
  ASSUME NEW h \in Histories, NEW d \in Int, NEW y \in States
  PROVE  Record(h, d, y) \in Histories
<1> DEFINE g == Record(h, d, y)
<1>1. /\ DOMAIN h \subseteq Int /\ \A e \in DOMAIN h : h[e] \in States
      /\ IsFiniteSet(DOMAIN h)
  BY DEF Histories
<1>2. /\ DOMAIN g = DOMAIN h \cup {d} /\ g = [e \in DOMAIN g |-> g[e]]
      /\ \A e \in DOMAIN g : g[e] = IF e = d THEN y ELSE h[e]
  BY DEF Record
<1> HIDE DEF g
<1>3. DOMAIN g \subseteq Int /\ \A e \in DOMAIN g : g[e] \in States
  BY <1>1, <1>2
<1>4. IsFiniteSet(DOMAIN g)
  BY <1>1, <1>2, FS_AddElement
<1>5. g \in Histories
  BY <1>2, <1>3, <1>4, HistoryFacts
<1>6. QED BY <1>5 DEF g

\* An evaluation at a date of the integers, from a state.
LEMMA EvaluationType ==
  ASSUME NEW Values, Typed(Values), CommandsAreSet,
         NEW h \in Histories, NEW d \in Int, NEW y \in States
  PROVE  Evaluation(h, d, y, command_listener) \in Evaluations(Values)
<1>1. [n \in Commands |-> command_listener[n]] \in [Commands -> Values]
  BY DEF Typed, CommandsAreSet
<1>2. QED BY <1>1 DEF Evaluation, Evaluations

\* What dx_dt leaves when it is given a state and a date.
LEMMA DxDtType ==
  ASSUME NEW Values, Typed(Values), NEW d \in Int, NEW y \in States, dx_dt(d, y),
         status = "OK"
  PROVE  /\ history' \in Histories /\ state' \in States
         /\ status' = "OK" => forces' \in Evaluations(Values)
<1>1. history \in Histories /\ state \in States
  BY DEF Typed
<1>2. CASE y = NaN \/ ComesBefore(d, history)
  BY <1>1, <1>2 DEF dx_dt, throw
<1>3. CASE y # NaN /\ ~ComesBefore(d, history)
  <2>1. history' = Record(history, d, y)
    BY <1>3 DEF dx_dt
  <2>2. history' \in Histories
    BY <1>1, <2>1, RecordIsAHistory
  <2>3. CASE CommandsAreSet
    <3>1. forces' = Evaluation(history', d, y, command_listener) /\ state' = y
      BY <1>3, <2>3 DEF dx_dt
    <3>2. QED BY <2>2, <2>3, <3>1, EvaluationType
  <2>4. CASE ~CommandsAreSet
    BY <1>1, <1>3, <2>2, <2>4 DEF dx_dt, throw
  <2>5. QED BY <2>3, <2>4
<1>4. QED BY <1>2, <1>3

LEMMA TypedInitially ==
  ASSUME NEW Values, CommandsAreIn(Values), Init
  PROVE  Typed(Values)
<1>1. /\ state \in States /\ x \in States /\ history = [d \in {0} |-> state]
      /\ command_listener = YamlCommands /\ evaluations = None
  BY DEF Init
<1>2. history \in Histories
  <2>1. DOMAIN history = {0} /\ history = [d \in DOMAIN history |-> history[d]]
        /\ \A d \in DOMAIN history : history[d] \in States
    BY <1>1
  <2>2. IsFiniteSet({0})
    BY FS_Singleton
  <2>3. QED BY <2>1, <2>2, HistoryFacts
<1>3. evaluations \in Seq(Evaluations(Values))
  BY <1>1, EmptySeq DEF None
<1>4. QED BY <1>1, <1>2, <1>3 DEF Typed, CommandsAreIn

LEMMA TypedStep ==
  ASSUME NEW Values, CommandsAreIn(Values), IntegratedIsAState(Values),
         Inv, Typed(Values), [Next]_vars
  PROVE  Typed(Values)'
<1> DEFINE Es == Evaluations(Values)
<1>1. /\ history \in Histories /\ state \in States /\ x \in States
      /\ \A n \in DOMAIN command_listener : command_listener[n] \in Values
      /\ evaluations \in Seq(Es)
  BY DEF Typed
<1>2. None \in Seq(Es)
  BY EmptySeq DEF None
<1>3. CASE call \/ decode \/ return \/ UNCHANGED vars
  BY <1>1, <1>2, <1>3 DEF call, decode, return, vars, simulator, loop, Typed
<1>4. CASE set_bodystates
  <2>1. request \in Requests
    BY <1>4 DEF Inv, set_bodystates, at, Fresh
  <2>2. history' \in Histories /\ state' \in States
    BY <1>4, <2>1, RecordingIsAHistory, RequestFacts DEF set_bodystates
  <2>3. QED BY <1>1, <1>4, <2>2 DEF set_bodystates, loop, Typed
<1>5. CASE set_command_listener
  <2>1. request \in Requests
    BY <1>5 DEF Inv, set_command_listener, at, Fresh
  <2>2. \A n \in DOMAIN command_listener' : command_listener'[n] \in Values
    BY <1>1, <1>5, <2>1 DEF set_command_listener, Updated, CommandsAreIn
  <2>3. QED BY <1>1, <1>5, <2>2 DEF set_command_listener, Typed
<1>6. CASE initialize
  <2>1. /\ request \in Requests /\ Checked /\ StatesAreSet /\ status = "OK"
    BY <1>6 DEF Inv, initialize, at, Fresh
  <2>2. dx_dt(now.t, state)
    BY <1>6, <2>1, PastOfTheRequest DEF initialize
  <2>3. now.t \in Int
    BY <2>1, PastOfTheRequest
  <2>4. history' \in Histories /\ state' \in States
    BY <1>1, <2>1, <2>2, <2>3, DxDtType
  <2>5. QED BY <1>1, <1>6, <2>4 DEF initialize, loop, Typed
<1>7. CASE observe
  BY <1>1, <1>2, <1>7 DEF observe, simulator, Typed
<1>8. CASE stage
  <2>1. /\ Stepping /\ status = "OK" /\ Len(evaluations) < Len(Stages[solver])
    BY <1>8 DEF Inv, stage, at, Stepping, Underway
  <2>2. Predicted \in States
    BY <1>1 DEF Predicted, IntegratedIsAState
  <2>3. Date \in Int
    BY <2>1, EvaluationDates
  <2>4. /\ dx_dt(Date, Predicted)
        /\ IF status' = "OK" THEN evaluations' = Append(evaluations, forces')
           ELSE UNCHANGED evaluations
        /\ UNCHANGED <<command_listener, x>>
    BY <1>8 DEF stage, Date, Predicted
  <2>5. /\ history' \in Histories /\ state' \in States
        /\ status' = "OK" => forces' \in Es
    BY <2>1, <2>2, <2>3, <2>4, DxDtType
  <2>6. evaluations' \in Seq(Es)
    <3> HIDE DEF Es
    <3>1. QED BY <1>1, <2>4, <2>5
  <2>7. QED BY <1>1, <2>4, <2>5, <2>6 DEF Typed
<1>9. CASE step
  <2>1. evaluations # None
    BY <1>9, StageFacts, NoneIsAList
       DEF Inv, step, at, Stepping, Underway, CommandsAgree
  <2>2. Integrated(x, evaluations) \in States
    BY <1>1, <2>1 DEF IntegratedIsAState
  <2>3. QED BY <1>1, <1>9, <2>2 DEF step, Typed
<1>10. QED
  BY <1>3, <1>4, <1>5, <1>6, <1>7, <1>8, <1>9 DEF Next, Handle

\* In the loop the date is within the duration that was asked for.
LEMMA WithinTheDuration ==
  ASSUME Inv, pc \in {"observe", "stage"}
  PROVE  t \in (tend - request.steps * dt) .. tend
<1>1. PICK n \in Int : /\ n \in 0 .. request.steps /\ t = now.t + n * dt
                       /\ request \in Requests /\ CommandsAgree
  <2>1. CASE pc = "observe"
    BY <2>1 DEF Inv, at, Observing, Underway
  <2>2. CASE pc = "stage"
    <3>1. /\ Len(observed) \in 1 .. request.steps /\ t = now.t + (Len(observed) - 1) * dt
          /\ request \in Requests /\ CommandsAgree
      BY <2>2 DEF Inv, at, Stepping, Underway
    <3>2. request.steps \in Int
      BY <3>1, RequestFacts
    <3>3. Len(observed) - 1 \in Int /\ Len(observed) - 1 \in 0 .. request.steps
      BY <3>1, <3>2
    <3>4. QED BY <3>1, <3>3
  <2>3. QED BY <2>1, <2>2
<1>2. request.steps \in Int /\ now.t \in Int
  BY <1>1, RequestFacts DEF now
<1> DEFINE p == n * dt
           q == request.steps * dt
<1>3. p \in Int /\ q \in Int
  BY <1>1, <1>2, StepsOrder
<1>4. p <= q
  <2>1. request.steps < n <=> q < p
    BY <1>1, <1>2, StepsOrder
  <2>2. ~(request.steps < n)
    BY <1>1, <1>2
  <2> HIDE DEF p, q
  <2>3. QED BY <1>3, <2>1, <2>2
<1>5. 0 <= p
  <2>1. 0 * dt = 0 /\ (n < 0 <=> p < 0 * dt)
    BY <1>1, StepsOrder, StepAssumption
  <2>2. ~(n < 0)
    BY <1>1, <1>2
  <2> HIDE DEF p, q
  <2>3. QED BY <1>3, <2>1, <2>2
<1>6. t = now.t + p /\ tend = now.t + q
  BY <1>1 DEF CommandsAgree
<1> HIDE DEF p, q
<1>7. t \in (tend - q) .. tend
  BY <1>2, <1>3, <1>4, <1>5, <1>6
<1>8. QED BY <1>7 DEF q

\* Histories and the simulator hold states only, a step has no more evaluations than
\* its solver, and the loop stays within the duration: whenever a solver makes
\* states of evaluations, NaN or not.
THEOREM StatesAreStates ==
  ASSUME NEW Values, CommandsAreIn(Values), IntegratedIsAState(Values)
  PROVE  Spec => []TypeOK
<1>1. Inv /\ Typed(Values) => TypeOK
  <2> SUFFICES ASSUME Inv, Typed(Values) PROVE TypeOK
    OBVIOUS
  <2>1. (\A d \in DOMAIN history : history[d] \in States) /\ state \in States
    BY DEF Typed, Histories
  <2>2. pc = "stage" => status = "OK" /\ Len(evaluations) <= Len(Stages[solver])
    BY DEF Inv, at, Stepping, Underway
  <2>3. pc \in {"observe", "stage"} => t \in (tend - request.steps * dt) .. tend
    BY WithinTheDuration
  <2>4. QED BY <2>1, <2>2, <2>3 DEF TypeOK
<1>2. QED
  BY <1>1, Initially, Preserved, TypedInitially, TypedStep, PTL DEF Spec
=============================================================================
