--------------------------- MODULE HistoryProofs ---------------------------
(* The shape of the history's window and what it answers, for every Tmax,   *)
(* every date and every step.                                               *)
EXTENDS History, SequenceTheorems, LeastNatural

-----------------------------------------------------------------------------
(* The bracket of a date *)

LEMMA PointFacts ==
  ASSUME NEW l \in Seq(Point)
  PROVE  /\ Len(l) \in Nat
         /\ \A i \in 1 .. Len(l) : l[i] \in Point /\ l[i].t \in Int
<1>1. \A p \in Point : p.t \in Int
  BY DEF Point
<1>2. QED BY <1>1

\* The bracket the history looks for exists.
LEMMA BracketIs ==
  ASSUME NEW l \in Seq(Point), Increasing(l), NEW u \in Int
  PROVE  IsBracket(l, u, find_braketing_position(l, u))
<1> DEFINE T == {i \in 0 .. Len(l) : i = Len(l) \/ l[i + 1].t >= u}
<1>0. Len(l) \in Nat /\ \A i \in 1 .. Len(l) : l[i].t \in Int
  BY PointFacts
<1>1. T \in SUBSET Nat /\ Len(l) \in T
  BY <1>0
<1>2. PICK k \in T : \A y \in T : k <= y
  BY <1>1, LeastNat
<1>3. ASSUME NEW i \in 1 .. k PROVE l[i].t < u
  <2>1. k \in 0 .. Len(l) /\ i - 1 \in 0 .. Len(l) /\ ~(k <= i - 1)
        /\ i \in 1 .. Len(l) /\ (i - 1) + 1 = i
    BY <1>0, <1>2
  <2>2. i - 1 \notin T
    BY <2>1, <1>2
  <2>3. QED BY <2>1, <2>2, <1>0
<1>4. ASSUME NEW i \in k + 1 .. Len(l) PROVE l[i].t >= u
  <2>1. k \in Nat /\ k + 1 \in 1 .. Len(l) /\ l[k + 1].t >= u /\ i \in 1 .. Len(l)
    BY <1>0, <1>2
  <2>2. i = k + 1 \/ l[k + 1].t < l[i].t
    BY <2>1 DEF Increasing
  <2>3. QED BY <2>1, <2>2, <1>0
<1>5. IsBracket(l, u, k)
  BY <1>2, <1>3, <1>4 DEF IsBracket
<1>6. \E j \in 0 .. Len(l) : IsBracket(l, u, j)
  BY <1>5 DEF IsBracket
<1>7. QED BY <1>6 DEF find_braketing_position

-----------------------------------------------------------------------------
(* The two halves of a record *)

NewPoint(t, v) == [t |-> t, from |-> {[t |-> t, v |-> v]}]

LEMMA NewPointType ==
  ASSUME NEW t \in Int, NEW v \in Values
  PROVE  NewPoint(t, v) \in Point /\ NewPoint(t, v).t = t
BY DEF NewPoint, Point, Sample

\* Adding at the last date or after it replaces the last point or appends one.
LEMMA AddValue ==
  ASSUME NEW l \in Seq(Point), Increasing(l), NEW t \in Int, NEW v \in Values,
         l # <<>> => l[Len(l)].t <= t
  PROVE  LET a == add_value_to_history(l, t, v)
             n == IF l # <<>> /\ l[Len(l)].t = t THEN Len(l) ELSE Len(l) + 1
         IN /\ a \in Seq(Point)
            /\ Len(a) = n /\ n > 0
            /\ a[n] = NewPoint(t, v)
            /\ \A i \in 1 .. n - 1 : a[i] = l[i] /\ l[i].t < t
            /\ Increasing(a)
<1> DEFINE idx == find_braketing_position(l, t)
           a == add_value_to_history(l, t, v)
           p == NewPoint(t, v)
           n == IF l # <<>> /\ l[Len(l)].t = t THEN Len(l) ELSE Len(l) + 1
<1>0. /\ Len(l) \in Nat /\ \A i \in 1 .. Len(l) : l[i].t \in Int
      /\ l # <<>> => Len(l) > 0
  BY PointFacts
<1>1. p \in Point /\ p.t = t
  BY NewPointType
<1>2. IsBracket(l, t, idx)
  BY BracketIs
<1>3. n \in Nat /\ n > 0
  BY <1>0
<1>4. a \in Seq(Point) /\ Len(a) = n /\ a[n] = p /\ \A i \in 1 .. n - 1 : a[i] = l[i]
  <2>1. CASE l # <<>> /\ l[Len(l)].t = t
    <3>1. idx = Len(l) - 1
      BY <1>0, <1>2, <2>1 DEF IsBracket, Increasing
    <3>2. a = [l EXCEPT ![Len(l)] = p]
      BY <3>1, <2>1, <1>0 DEF add_value_to_history, ReplaceAt, NewPoint
    <3> HIDE DEF a, p
    <3>3. Len(l) \in 1 .. Len(l)
      BY <1>0, <2>1
    <3>4. QED BY <3>2, <3>3, <1>0, <1>1, <2>1, ExceptSeq
  <2>2. CASE ~(l # <<>> /\ l[Len(l)].t = t)
    <3>1. idx = Len(l)
      <4>1. CASE l = <<>>
        BY <4>1, <1>2, <1>0 DEF IsBracket
      <4>2. CASE l # <<>>
        <5>1. \A i \in 1 .. Len(l) : l[i].t < t
          BY <4>2, <2>2, <1>0 DEF Increasing
        <5>2. QED BY <5>1, <1>0, <1>2 DEF IsBracket
      <4>3. QED BY <4>1, <4>2
    <3>2. a = SubSeq(l, 1, Len(l)) \o <<p>> \o SubSeq(l, Len(l) + 1, Len(l))
      BY <3>1, <1>0 DEF add_value_to_history, InsertAt, NewPoint
    <3> HIDE DEF a, p
    <3>3. SubSeq(l, 1, Len(l)) = l /\ SubSeq(l, Len(l) + 1, Len(l)) = <<>>
      BY <1>0, SubSeqFull, SubSeqEmpty
    <3>4. l \o <<p>> \in Seq(Point) /\ Len(l \o <<p>>) = Len(l) + 1
          /\ \A i \in 1 .. Len(l) + 1 :
               (l \o <<p>>)[i] = IF i <= Len(l) THEN l[i] ELSE p
      BY <1>0, <1>1
    <3>5. a = l \o <<p>>
      BY <3>2, <3>3, <3>4, ConcatEmptySeq
    <3>6. QED BY <3>4, <3>5, <2>2, <1>0
  <2>3. QED BY <2>1, <2>2
<1> HIDE DEF a, p
<1>5. ASSUME NEW i \in 1 .. n - 1 PROVE l[i].t < t
  <2>1. i \in 1 .. Len(l) /\ Len(l) \in 1 .. Len(l) /\ l # <<>>
    BY <1>0
  <2>2. i = Len(l) \/ l[i].t < l[Len(l)].t
    BY <2>1 DEF Increasing
  <2>3. QED BY <2>1, <2>2, <1>0
<1>6. Increasing(a)
  <2>1. ASSUME NEW i \in 1 .. n, NEW j \in 1 .. n, i < j
        PROVE  a[i].t < a[j].t
    <3>1. i \in 1 .. n - 1 /\ i \in 1 .. Len(l)
      BY <2>1, <1>0, <1>3
    <3>2. CASE j = n
      BY <3>1, <3>2, <1>1, <1>4, <1>5
    <3>3. CASE j # n
      <4>1. j \in 1 .. n - 1 /\ j \in 1 .. Len(l)
        BY <2>1, <3>3, <1>0, <1>3
      <4>2. l[i].t < l[j].t
        BY <3>1, <4>1, <2>1 DEF Increasing
      <4>3. QED BY <3>1, <4>1, <4>2, <1>4
    <3>4. QED BY <3>2, <3>3
  <2>2. QED BY <2>1, <1>4 DEF Increasing
<1>7. QED BY <1>3, <1>4, <1>5, <1>6 DEF a, p

\* A point interpolated between stored points is made of samples.
LEMMA InterpolatedType ==
  ASSUME NEW l \in Seq(Point), Len(l) > 0, NEW u \in Int
  PROVE  [t |-> u, from |-> interpolate_value_in_interval(l, 1, u)] \in Point
<1>1. \A i \in 1 .. Len(l) : l[i].from \in SUBSET Sample
  <2>1. \A q \in Point : q.from \in SUBSET Sample
    BY DEF Point
  <2>2. QED BY <2>1, PointFacts
<1>2. Len(l) \in Nat
  BY PointFacts
<1>3. interpolate_value_in_interval(l, 1, u) \in SUBSET Sample
  <2>1. CASE 1 >= Len(l)
    BY <2>1, <1>1, <1>2 DEF interpolate_value_in_interval
  <2>2. CASE ~(1 >= Len(l))
    <3>1. l[1].from \in SUBSET Sample /\ l[2].from \in SUBSET Sample
      BY <1>1, <1>2, <2>2
    <3>2. interpolate_value_in_interval(l, 1, u) \in
            {l[1].from, l[2].from, l[1].from \cup l[2].from}
      BY <2>2 DEF interpolate_value_in_interval
    <3>3. QED BY <3>1, <3>2
  <2>3. QED BY <2>1, <2>2
<1>4. QED BY <1>3 DEF Point

\* Moving the start of the window keeps what is after it and only that, and
\* puts a point at the start itself.
LEMMA ShiftOldest ==
  ASSUME NEW l \in Seq(Point), Increasing(l), Len(l) > 0, NEW start \in Int,
         start <= l[Len(l)].t
  PROVE  LET s == shift_oldest(l, start)
         IN /\ s \in Seq(Point)
            /\ Len(s) > 0
            /\ s[1].t = start
            /\ Increasing(s)
            /\ s[Len(s)].t = l[Len(l)].t
            /\ \A i \in 2 .. Len(s) : \E j \in 1 .. Len(l) :
                 s[i] = l[j] /\ l[j].t > start
            /\ \A j \in 1 .. Len(l) : l[j].t > start =>
                 \E i \in 2 .. Len(s) : s[i] = l[j]
<1> DEFINE idx == find_braketing_position(l, start)
           n == Len(l)
           kept == SubSeq(l, idx + 1, n)
           p == [t |-> start, from |-> interpolate_value_in_interval(l, 1, start)]
           s == shift_oldest(l, start)
<1>0. n \in Nat /\ n > 0 /\ \A i \in 1 .. n : l[i] \in Point /\ l[i].t \in Int
  BY PointFacts
<1>1. IsBracket(l, start, idx)
  BY BracketIs
<1>2. /\ idx \in 0 .. n - 1
      /\ \A i \in 1 .. idx : l[i].t < start
      /\ \A i \in idx + 1 .. n : l[i].t >= start
  BY <1>0, <1>1 DEF IsBracket
<1>3. p \in Point /\ p.t = start
  BY InterpolatedType
<1>4. s = IF kept[1].t = start THEN kept ELSE <<p>> \o kept
  BY DEF shift_oldest, Cons
<1> HIDE DEF idx, s, p, kept
<1>5. /\ kept \in Seq(Point) /\ Len(kept) = n - idx /\ Len(kept) > 0
      /\ \A i \in 1 .. n - idx : kept[i] = l[i + idx] /\ i + idx \in idx + 1 .. n
  <2>1. idx + 1 \in Int /\ n \in Int /\ \A i \in idx + 1 .. n : l[i] \in Point
    BY <1>0, <1>2
  <2>2. /\ kept \in Seq(Point)
        /\ Len(kept) = IF idx + 1 <= n THEN n - (idx + 1) + 1 ELSE 0
        /\ \A i \in 1 .. n - (idx + 1) + 1 : kept[i] = l[idx + 1 + i - 1]
    BY <2>1, SubSeqProperties DEF kept
  <2> HIDE DEF n
  <2>3. QED BY <2>2, <1>0, <1>2
<1> HIDE DEF n
<1>5a. ASSUME NEW i \in 1 .. n - idx
      PROVE  /\ i + idx \in 1 .. n /\ kept[i].t = l[i + idx].t
             /\ kept[i].t \in Int /\ kept[i].t >= start
  <2>1. i + idx \in 1 .. n /\ i + idx \in idx + 1 .. n /\ kept[i] = l[i + idx]
    BY <1>0, <1>2, <1>5
  <2>2. QED BY <2>1, <1>0, <1>2
<1>6. ASSUME NEW i \in 1 .. n - idx, NEW j \in 1 .. n - idx, i < j
      PROVE  kept[i].t < kept[j].t
  <2>1. i + idx < j + idx
    BY <1>6, <1>0, <1>2
  <2>2. l[i + idx].t < l[j + idx].t
    BY <2>1, <1>5a DEF Increasing, n
  <2>3. QED BY <2>2, <1>5a
<1>7. CASE kept[1].t = start
  <2>1. s = kept
    BY <1>4, <1>7
  <2>2. ASSUME NEW i \in 2 .. Len(s)
        PROVE  \E j \in 1 .. n : s[i] = l[j] /\ l[j].t > start
    <3>1. 1 \in 1 .. n - idx /\ i \in 1 .. n - idx /\ 1 < i
      BY <2>1, <1>5
    <3>2. kept[1].t < kept[i].t
      BY <3>1, <1>6
    <3>3. s[i] = l[i + idx] /\ i + idx \in 1 .. n /\ l[i + idx].t > start
      BY <2>1, <3>1, <3>2, <1>5, <1>7, <1>5a
    <3>4. QED BY <3>3
  <2>3. ASSUME NEW j \in 1 .. n, l[j].t > start
        PROVE  \E i \in 2 .. Len(s) : s[i] = l[j]
    <3>1. j - idx \in 1 .. n - idx /\ (j - idx) + idx = j
      BY <1>0, <1>2, <2>3
    <3>2. kept[j - idx] = l[j]
      BY <3>1, <1>5
    <3>3. j - idx # 1
      BY <3>2, <2>3, <1>7, <1>0
    <3>4. QED BY <3>1, <3>2, <3>3, <2>1, <1>5, <1>0, <1>2
  <2>4. Increasing(s)
    BY <2>1, <1>5, <1>6 DEF Increasing
  <2>5. s[Len(s)].t = l[n].t
    BY <2>1, <1>5, <1>0, <1>2
  <2>6. QED BY <2>1, <2>2, <2>3, <2>4, <2>5, <1>5, <1>7 DEF s, n
<1>8. CASE kept[1].t # start
  <2>1. s = <<p>> \o kept
    BY <1>4, <1>8
  <2>2. /\ s \in Seq(Point) /\ Len(s) = n - idx + 1
        /\ s[1] = p /\ \A i \in 2 .. n - idx + 1 : s[i] = kept[i - 1]
    <3>1. <<p>> \in Seq(Point) /\ Len(<<p>>) = 1 /\ <<p>>[1] = p
      BY <1>3
    <3>2. /\ s \in Seq(Point) /\ Len(s) = 1 + (n - idx)
          /\ \A i \in 1 .. 1 + (n - idx) :
               s[i] = IF i <= 1 THEN <<p>>[i] ELSE kept[i - 1]
      BY <3>1, <2>1, <1>5, ConcatProperties
    <3>3. QED BY <3>1, <3>2, <1>0, <1>2
  <2>3. \A i \in 1 .. n - idx : kept[i].t > start /\ kept[i].t \in Int
    <3>1. kept[1].t > start /\ kept[1].t \in Int
      <4>1. 1 \in 1 .. n - idx
        BY <1>0, <1>2
      <4>2. QED BY <4>1, <1>8, <1>5a
    <3>2. \A i \in 1 .. n - idx : kept[i].t \in Int
      BY <1>5a
    <3>3. ASSUME NEW i \in 1 .. n - idx PROVE kept[i].t > start
      <4>1. CASE i = 1
        BY <4>1, <3>1
      <4>2. CASE i # 1
        <5>1. 1 \in 1 .. n - idx /\ 1 < i
          BY <4>2, <1>0, <1>2
        <5>2. kept[1].t < kept[i].t
          BY <5>1, <1>6
        <5>3. QED BY <5>2, <3>1, <3>2
      <4>3. QED BY <4>1, <4>2
    <3>4. QED BY <3>2, <3>3
  <2>4. ASSUME NEW i \in 2 .. Len(s)
        PROVE  \E j \in 1 .. n : s[i] = l[j] /\ l[j].t > start
    <3>1. i - 1 \in 1 .. n - idx /\ s[i] = kept[i - 1]
      BY <2>2, <1>0, <1>2
    <3>2. (i - 1) + idx \in 1 .. n /\ kept[i - 1] = l[(i - 1) + idx]
      BY <3>1, <1>0, <1>2, <1>5
    <3>3. QED BY <3>1, <3>2, <2>3
  <2>5. ASSUME NEW j \in 1 .. n, l[j].t > start
        PROVE  \E i \in 2 .. Len(s) : s[i] = l[j]
    <3>1. j - idx \in 1 .. n - idx /\ (j - idx) + idx = j
      BY <1>0, <1>2, <2>5
    <3>2. j - idx + 1 \in 2 .. Len(s) /\ (j - idx + 1) - 1 = j - idx
      BY <3>1, <2>2, <1>0, <1>2, SMTT(40)
    <3>3. s[j - idx + 1] = l[j]
      BY <3>1, <3>2, <2>2, <1>5
    <3>4. QED BY <3>2, <3>3
  <2>6. ASSUME NEW i \in 1 .. Len(s), NEW j \in 1 .. Len(s), i < j
        PROVE  s[i].t < s[j].t
    <3>1. j \in 2 .. n - idx + 1 /\ j - 1 \in 1 .. n - idx /\ s[j] = kept[j - 1]
      BY <2>2, <2>6, <1>0, <1>2
    <3>2. CASE i = 1
      BY <3>1, <3>2, <2>2, <2>3, <1>3
    <3>3. CASE i # 1
      <4>1. i - 1 \in 1 .. n - idx /\ i - 1 < j - 1 /\ s[i] = kept[i - 1]
        BY <3>3, <2>2, <2>6, <1>0, <1>2
      <4>2. QED BY <4>1, <3>1, <1>6
    <3>4. QED BY <3>2, <3>3
  <2>7. s[Len(s)].t = l[n].t
    <3>1. n - idx \in 1 .. n - idx /\ Len(s) \in 2 .. n - idx + 1
          /\ Len(s) - 1 = n - idx
      BY <2>2, <1>0, <1>2
    <3>2. QED BY <3>1, <2>2, <1>5, <1>0, <1>2, SMTT(40)
  <2>8. s[1].t = start /\ Len(s) > 0
    BY <2>2, <1>0, <1>2, <1>3
  <2>9. QED BY <2>2, <2>4, <2>5, <2>6, <2>7, <2>8 DEF s, n, Increasing
<1>9. QED BY <1>7, <1>8

-----------------------------------------------------------------------------
(* The inductive invariant *)

\* A window is as long as Tmax at most, and as long as that once a sample fell
\* out of it; apart from its front it stores the samples after its start.
Shape(l, samples) ==
  /\ Increasing(l)
  /\ l[Len(l)].t - l[1].t <= Tmax
  /\ \A r, s \in samples : r.t = s.t => r = s
  /\ \A s \in samples : s.t <= l[Len(l)].t
  /\ \E s \in samples : s.t = l[Len(l)].t
  /\ \E m \in samples :
       /\ \A s \in samples : m.t <= s.t
       /\ m.t <= l[1].t
       /\ m.t = l[1].t \/ l[Len(l)].t - l[1].t = Tmax
  /\ \A i \in 2 .. Len(l) : \E s \in samples :
       s.t > l[1].t /\ l[i] = NewPoint(s.t, s.v)
  /\ \A s \in samples : s.t > l[1].t =>
       \E i \in 2 .. Len(l) : l[i] = NewPoint(s.t, s.v)

IInv ==
  /\ TypeOK
  /\ IsEmpty => log = {}
  /\ ~IsEmpty => L[1].t = oldest_recorded_instant /\ Shape(L, log)

LEMMA SampleFacts ==
  \A s \in Sample : s.t \in Int /\ s.v \in Values /\ s = [t |-> s.t, v |-> s.v]
BY DEF Sample

\* Adding a sample keeps the shape, but for the length of the window.
LEMMA AddedShape ==
  ASSUME IInv, NEW t \in Int, NEW v \in Values, ~IsEmpty => t >= L[Len(L)].t
  PROVE  LET a == add_value_to_history(L, t, v)
             new == {s \in log : s.t # t} \cup {[t |-> t, v |-> v]}
             n == Len(a)
         IN /\ a \in Seq(Point) /\ n \in Nat /\ n > 0 /\ a[n].t = t
            /\ Increasing(a)
            /\ a[1].t = update_oldest_recorded_instant(t)
            /\ new \in SUBSET Sample
            /\ \A r, s \in new : r.t = s.t => r = s
            /\ \A s \in new : s.t <= t
            /\ \E m \in new :
                 /\ \A s \in new : m.t <= s.t
                 /\ m.t <= a[1].t
                 /\ m.t = a[1].t \/ t - a[1].t >= Tmax
            /\ \A i \in 2 .. n : \E s \in new : a[i] = NewPoint(s.t, s.v)
            /\ \A s \in new : s.t > a[1].t =>
                 \E i \in 2 .. n : a[i] = NewPoint(s.t, s.v)
<1> DEFINE a == add_value_to_history(L, t, v)
           k == IF L # <<>> /\ L[Len(L)].t = t THEN Len(L) ELSE Len(L) + 1
           added == [t |-> t, v |-> v]
           new == {s \in log : s.t # t} \cup {added}
<1>0. /\ L \in Seq(Point) /\ Len(L) \in Nat /\ log \in SUBSET Sample
      /\ \A i \in 1 .. Len(L) : L[i].t \in Int
      /\ \A s \in log : s.t \in Int /\ s.v \in Values
      /\ L # <<>> => Len(L) > 0
  BY PointFacts, SampleFacts DEF IInv, TypeOK
<1>1. Increasing(L) /\ (L # <<>> => L[Len(L)].t <= t)
  BY <1>0 DEF IInv, Shape, IsEmpty, Increasing
<1>2. /\ a \in Seq(Point) /\ Len(a) = k /\ k > 0 /\ a[k] = NewPoint(t, v)
      /\ \A i \in 1 .. k - 1 : a[i] = L[i] /\ L[i].t < t
      /\ Increasing(a)
  BY <1>0, <1>1, AddValue
<1>3. added \in Sample /\ added.t = t /\ added.v = v /\ k \in Nat
      /\ NewPoint(t, v).t = t
  BY <1>0, NewPointType DEF Sample
<1> HIDE DEF a, added
<1>4. /\ new \in SUBSET Sample
      /\ \A s \in new : s = added \/ (s \in log /\ s.t # t)
      /\ \A s \in log : s.t # t => s \in new
      /\ added \in new
  BY <1>0, <1>3
<1> HIDE DEF new
<1>5. CASE IsEmpty
  <2>1. L = <<>> /\ log = {} /\ k = 1
    BY <1>5, <1>0 DEF IInv, IsEmpty
  <2>2. new = {added}
    BY <2>1 DEF new
  <2>3. a[1].t = t /\ update_oldest_recorded_instant(t) = t
    BY <1>2, <1>3, <2>1, <1>5 DEF update_oldest_recorded_instant
  <2>4. QED BY <2>1, <2>2, <2>3, <1>2, <1>3, <1>4 DEF a, new, added
<1>6. CASE ~IsEmpty
  <2>1. Shape(L, log) /\ L # <<>> /\ Len(L) > 0 /\ L[1].t = oldest_recorded_instant
    BY <1>6, <1>0 DEF IInv, IsEmpty
  <2>2. a[1].t = L[1].t /\ L[1].t <= t /\ L[1].t \in Int
    <3>1. 1 \in 1 .. Len(L) /\ Len(L) \in 1 .. Len(L)
      BY <2>1, <1>0
    <3>2. L[1].t <= L[Len(L)].t
      BY <3>1, <1>0, <1>1 DEF Increasing
    <3>3. CASE k = 1
      BY <3>3, <2>1, <1>0, <1>2, <1>3
    <3>4. CASE k # 1
      BY <3>1, <3>2, <3>4, <2>1, <1>0, <1>1, <1>2, <1>3
    <3>5. QED BY <3>3, <3>4
  <2>3. update_oldest_recorded_instant(t) = a[1].t
    BY <2>1, <2>2, <1>6 DEF update_oldest_recorded_instant
  <2>4. \A s \in new : s.t <= t /\ s.t \in Int
    BY <1>0, <1>1, <1>3, <1>4, <2>1 DEF Shape
  <2>5. \A r, s \in new : r.t = s.t => r = s
    BY <1>3, <1>4, <2>1 DEF Shape
  <2>6. \E m \in new :
          /\ \A s \in new : m.t <= s.t
          /\ m.t <= a[1].t
          /\ m.t = a[1].t \/ t - a[1].t >= Tmax
    <3>1. PICK m \in log :
            /\ \A s \in log : m.t <= s.t
            /\ m.t <= L[1].t
            /\ m.t = L[1].t \/ L[Len(L)].t - L[1].t = Tmax
      BY <2>1 DEF Shape
    <3>2. m.t \in Int /\ Tmax \in Nat /\ L[Len(L)].t \in Int
      BY <1>0, <2>1, TmaxAssumption
    <3>3. CASE m.t = t
      BY <3>1, <3>2, <3>3, <2>2, <2>4, <1>0, <1>1, <1>3, <1>4
    <3>4. CASE m.t # t
      BY <3>1, <3>2, <3>4, <2>2, <2>1, <1>0, <1>1, <1>3, <1>4
    <3>5. QED BY <3>3, <3>4
  <2>7. ASSUME NEW i \in 2 .. k PROVE \E s \in new : a[i] = NewPoint(s.t, s.v)
    <3>1. CASE i = k
      BY <3>1, <1>2, <1>3, <1>4
    <3>2. CASE i # k
      <4>1. i \in 1 .. k - 1 /\ i \in 2 .. Len(L) /\ a[i] = L[i] /\ L[i].t < t
        BY <3>2, <1>0, <1>2, <1>3
      <4>2. PICK s \in log : L[i] = NewPoint(s.t, s.v)
        BY <4>1, <2>1 DEF Shape
      <4>3. s.t = L[i].t /\ s.t # t
        BY <4>1, <4>2, <1>0 DEF NewPoint
      <4>4. QED BY <4>1, <4>2, <4>3, <1>4
    <3>3. QED BY <3>1, <3>2
  <2>8. ASSUME NEW s \in new, s.t > a[1].t
        PROVE  \E i \in 2 .. k : a[i] = NewPoint(s.t, s.v)
    <3>1. CASE s = added
      <4>1. k # 1
        BY <3>1, <2>8, <1>2, <1>3, <2>2
      <4>2. k \in 2 .. k
        <5> k \in Nat /\ k > 0
          BY <1>2, <1>3
        <5> HIDE DEF k
        <5>1. QED BY <4>1
      <4>3. QED BY <4>2, <3>1, <1>2, <1>3
    <3>2. CASE s # added
      <4>1. s \in log /\ s.t # t
        BY <3>2, <1>4
      <4>2. PICK i \in 2 .. Len(L) : L[i] = NewPoint(s.t, s.v)
        BY <4>1, <2>1, <2>2, <2>8 DEF Shape
      <4>3. i \in 1 .. Len(L) /\ L[i].t = s.t
        BY <4>2, <1>0 DEF NewPoint
      <4>4. i \in 1 .. k - 1
        BY <4>1, <4>3, <1>0, <1>3
      <4>5. QED BY <4>2, <4>4, <1>2
    <3>3. QED BY <3>1, <3>2
  <2>9. QED BY <2>2, <2>3, <2>4, <2>5, <2>6, <2>7, <2>8, <1>2, <1>3, <1>4
           DEF a, new, added
<1>7. QED BY <1>5, <1>6

\* A record keeps the invariant: what was added, cut at the new start when the
\* window is longer than Tmax.
LEMMA RecordInv ==
  ASSUME IInv, NEW t \in Int, NEW v \in Values, record(t, v)
  PROVE  IInv'
<1> DEFINE a == add_value_to_history(L, t, v)
           new == {s \in log : s.t # t} \cup {[t |-> t, v |-> v]}
           n == Len(a)
           oldest == update_oldest_recorded_instant(t)
           start == t - Tmax
           s0 == shift_oldest(a, start)
<1>1. ~IsEmpty => t >= L[Len(L)].t
  BY DEF record, Last
<1>2. /\ a \in Seq(Point) /\ n \in Nat /\ n > 0 /\ a[n].t = t
      /\ Increasing(a)
      /\ a[1].t = oldest
      /\ new \in SUBSET Sample
      /\ \A r, s \in new : r.t = s.t => r = s
      /\ \A s \in new : s.t <= t
      /\ \E m \in new :
           /\ \A s \in new : m.t <= s.t
           /\ m.t <= a[1].t
           /\ m.t = a[1].t \/ t - a[1].t >= Tmax
      /\ \A i \in 2 .. n : \E s \in new : a[i] = NewPoint(s.t, s.v)
      /\ \A s \in new : s.t > a[1].t =>
           \E i \in 2 .. n : a[i] = NewPoint(s.t, s.v)
  BY <1>1, AddedShape
<1>3. \E s \in new : s.t = t
  <2>1. [t |-> t, v |-> v] \in new /\ [t |-> t, v |-> v].t = t
    OBVIOUS
  <2> HIDE DEF new
  <2>2. QED BY <2>1
<1>4. /\ L' = IF t - oldest >= Tmax THEN s0 ELSE a
      /\ oldest_recorded_instant' = IF t - oldest >= Tmax THEN start ELSE oldest
      /\ log' = new
  BY <1>2 DEF record, Last
<1> HIDE DEF a, new, s0, oldest
<1>5. /\ Tmax \in Nat /\ start \in Int /\ \A i \in 1 .. n : a[i].t \in Int
      /\ \A s \in new : s.t \in Int
      /\ start <= t
  BY TmaxAssumption, <1>2, PointFacts, SampleFacts
<1>6. \A i \in 2 .. n : a[1].t < a[i].t
  BY <1>2 DEF Increasing
<1>7. a[1].t \in Int /\ a[1].t <= t
  <2>1. 1 \in 1 .. n /\ n \in 1 .. n
    BY <1>2
  <2>2. n = 1 \/ a[1].t < a[n].t
    <3> n \in Nat /\ n > 0
      BY <1>2
    <3> HIDE DEF n
    <3>1. n = 1 \/ n \in 2 .. n
      OBVIOUS
    <3>2. QED BY <3>1, <1>6
  <2>3. QED BY <2>1, <2>2, <1>2, <1>5
<1>8. CASE t - oldest >= Tmax
  <2>1. L' = s0 /\ oldest_recorded_instant' = start
    BY <1>4, <1>8
  <2>2. /\ s0 \in Seq(Point) /\ Len(s0) > 0 /\ s0[1].t = start
        /\ Increasing(s0) /\ s0[Len(s0)].t = t
        /\ \A i \in 2 .. Len(s0) : \E j \in 1 .. n : s0[i] = a[j] /\ a[j].t > start
        /\ \A j \in 1 .. n : a[j].t > start => \E i \in 2 .. Len(s0) : s0[i] = a[j]
    BY <1>2, <1>5, ShiftOldest DEF s0
  <2>3. a[1].t <= start
    BY <1>2, <1>5, <1>7, <1>8
  <2>4. ASSUME NEW i \in 2 .. Len(s0)
        PROVE  \E s \in new : s.t > start /\ s0[i] = NewPoint(s.t, s.v)
    <3>1. PICK j \in 1 .. n : s0[i] = a[j] /\ a[j].t > start
      BY <2>2
    <3>2. j \in 2 .. n
      BY <3>1, <2>3, <1>2, <1>5, <1>7
    <3>3. PICK s \in new : a[j] = NewPoint(s.t, s.v)
      BY <3>2, <1>2
    <3>4. s.t = a[j].t
      BY <3>3 DEF NewPoint
    <3>5. QED BY <3>1, <3>3, <3>4
  <2>5. ASSUME NEW s \in new, s.t > start
        PROVE  \E i \in 2 .. Len(s0) : s0[i] = NewPoint(s.t, s.v)
    <3>1. s.t > a[1].t
      BY <2>3, <2>5, <1>5, <1>7
    <3>2. PICK j \in 2 .. n : a[j] = NewPoint(s.t, s.v)
      BY <3>1, <1>2
    <3>3. j \in 1 .. n /\ a[j].t > start
      BY <3>2, <2>5, <1>2 DEF NewPoint
    <3>4. QED BY <3>2, <3>3, <2>2
  <2>6. \E m \in new : /\ \A s \in new : m.t <= s.t
                       /\ m.t <= start
    BY <1>2, <1>5, <1>7, <2>3
  <2>7. t - start = Tmax
    BY <1>2, <1>5, <1>7
  <2> HIDE DEF start
  <2>8. Shape(s0, new)
    <3>1. s0[1].t = start /\ s0[Len(s0)].t = t /\ t - start <= Tmax
      BY <2>2, <2>7, <1>5
    <3>2. \E m \in new : /\ \A s \in new : m.t <= s.t
                         /\ m.t <= s0[1].t
                         /\ m.t = s0[1].t \/ s0[Len(s0)].t - s0[1].t = Tmax
      BY <3>1, <2>6, <2>7
    <3>3. \A i \in 2 .. Len(s0) : \E s \in new :
            s.t > s0[1].t /\ s0[i] = NewPoint(s.t, s.v)
      BY <3>1, <2>4
    <3>4. \A s \in new : s.t > s0[1].t =>
            \E i \in 2 .. Len(s0) : s0[i] = NewPoint(s.t, s.v)
      BY <3>1, <2>5
    <3>5. (\A s \in new : s.t <= s0[Len(s0)].t) /\ \E s \in new : s.t = s0[Len(s0)].t
      BY <3>1, <1>2, <1>3
    <3>6. s0[Len(s0)].t - s0[1].t <= Tmax
      BY <3>1
    <3>7. Increasing(s0) /\ \A r, s \in new : r.t = s.t => r = s
      BY <2>2, <1>2
    <3>8. QED BY <3>2, <3>3, <3>4, <3>5, <3>6, <3>7 DEF Shape
  <2>9. s0 # <<>>
    BY <2>2
  <2>10. QED BY <2>1, <2>2, <2>8, <2>9, <1>2, <1>4, <1>5 DEF IInv, TypeOK, IsEmpty
<1>9. CASE ~(t - oldest >= Tmax)
  <2>1. L' = a /\ oldest_recorded_instant' = oldest
    BY <1>4, <1>9
  <2>2. t - a[1].t <= Tmax
    BY <1>2, <1>5, <1>7, <1>9
  <2>3. ASSUME NEW i \in 2 .. n
        PROVE  \E s \in new : s.t > a[1].t /\ a[i] = NewPoint(s.t, s.v)
    <3>1. PICK s \in new : a[i] = NewPoint(s.t, s.v)
      BY <1>2
    <3>2. s.t = a[i].t
      BY <3>1 DEF NewPoint
    <3>3. QED BY <3>1, <3>2, <1>5, <1>6
  <2>4. \E m \in new : /\ \A s \in new : m.t <= s.t
                       /\ m.t <= a[1].t
                       /\ m.t = a[1].t
    BY <1>2, <1>5, <1>7, <1>9
  <2>5. Shape(a, new)
    BY <2>2, <2>3, <2>4, <1>2, <1>3 DEF Shape
  <2>6. a # <<>> /\ oldest \in Int
    BY <1>2, <1>7
  <2>7. QED BY <2>1, <2>5, <2>6, <1>2, <1>4 DEF IInv, TypeOK, IsEmpty
<1>10. QED BY <1>8, <1>9

LEMMA ResetInv == IInv /\ reset => IInv'
<1>1. <<>> \in Seq(Point)
  OBVIOUS
<1>2. QED BY <1>1 DEF IInv, TypeOK, reset, IsEmpty

LEMMA Invariance == Spec => []IInv
<1>1. Init => IInv
  <2>1. <<>> \in Seq(Point)
    OBVIOUS
  <2>2. QED BY <2>1 DEF Init, IInv, TypeOK, IsEmpty
<1>2. IInv /\ [Next]_vars => IInv'
  <2> SUFFICES ASSUME IInv, [Next]_vars PROVE IInv'
    OBVIOUS
  <2>1. ASSUME NEW t \in Instants, NEW v \in Values, record(t, v) PROVE IInv'
    BY <2>1, RecordInv, InstantsAssumption
  <2>2. CASE reset
    BY <2>2, ResetInv
  <2>3. CASE UNCHANGED vars
    BY <2>3 DEF IInv, TypeOK, IsEmpty, vars
  <2>4. QED BY <2>1, <2>2, <2>3 DEF Next
<1>3. QED BY <1>1, <1>2, PTL DEF Spec

-----------------------------------------------------------------------------
(* The theorems *)

\* Whatever is recorded, points are dated and made of recorded samples.
THEOREM PointsAreSamples == Spec => []TypeOK
<1>1. IInv => TypeOK
  BY DEF IInv
<1>2. QED BY <1>1, Invariance, PTL

\* Whatever is recorded, and whenever, the stored dates strictly increase, so
\* bisections find their bracket and no interval has length zero.
THEOREM DatesIncrease == Spec => []StrictlyIncreasing
<1>1. IInv => StrictlyIncreasing
  <2>1. Increasing(<<>>)
    BY DEF Increasing
  <2>2. QED BY <2>1 DEF IInv, Shape, StrictlyIncreasing, IsEmpty
<1>2. QED BY <1>1, Invariance, PTL

\* The history forgets what is older than Tmax, exactly that, and keeps the
\* last value of every date after the start of its window.
THEOREM NothingIsLost == Spec => []NoSampleLost
<1>1. IInv => NoSampleLost
  <2> SUFFICES ASSUME IInv, ~IsEmpty
               PROVE  {L[i] : i \in 2 .. Len(L)}
                        = {[t |-> s.t, from |-> {s}] :
                             s \in {x \in log : x.t > L[1].t}}
    BY DEF NoSampleLost
  <2>1. \A s \in log : NewPoint(s.t, s.v) = [t |-> s.t, from |-> {s}]
    BY SampleFacts DEF IInv, TypeOK, NewPoint
  <2>2. /\ \A i \in 2 .. Len(L) : \E s \in log :
              s.t > L[1].t /\ L[i] = NewPoint(s.t, s.v)
        /\ \A s \in log : s.t > L[1].t =>
              \E i \in 2 .. Len(L) : L[i] = NewPoint(s.t, s.v)
    BY DEF IInv, Shape
  <2> DEFINE stored == {L[i] : i \in 2 .. Len(L)}
             recent == {x \in log : x.t > L[1].t}
             expected == {[t |-> s.t, from |-> {s}] : s \in recent}
  <2>3. ASSUME NEW p \in stored PROVE p \in expected
    <3>1. PICK i \in 2 .. Len(L) : p = L[i]
      OBVIOUS
    <3>2. PICK s \in log : s.t > L[1].t /\ L[i] = NewPoint(s.t, s.v)
      BY <2>2
    <3>3. s \in recent /\ p = [t |-> s.t, from |-> {s}]
      BY <2>1, <3>1, <3>2
    <3>4. QED BY <3>3
  <2>4. ASSUME NEW p \in expected PROVE p \in stored
    <3>1. PICK s \in recent : p = [t |-> s.t, from |-> {s}]
      OBVIOUS
    <3>2. PICK i \in 2 .. Len(L) : L[i] = NewPoint(s.t, s.v)
      BY <2>2
    <3>3. p = L[i]
      BY <2>1, <3>1, <3>2
    <3>4. QED BY <3>3
  <2>5. QED BY <2>3, <2>4
<1>2. QED BY <1>1, Invariance, PTL

\* The window starts at the first record and, from the moment the records span
\* Tmax, exactly Tmax before the last of them.
THEOREM WindowIsExact == Spec => []WindowStart
<1>1. IInv => WindowStart
  <2> SUFFICES ASSUME IInv, ~IsEmpty PROVE WindowStart
    BY DEF WindowStart
  <2> DEFINE dates == {s.t : s \in log}
             first == Min(dates)
             now == Max(dates)
  <2>0. /\ Shape(L, log) /\ L[1].t = oldest_recorded_instant
        /\ \A s \in log : s.t \in Int
        /\ L[1].t \in Int /\ L[Len(L)].t \in Int /\ Tmax \in Nat
    <3>1. L \in Seq(Point) /\ L # <<>> /\ log \in SUBSET Sample
      BY DEF IInv, TypeOK, IsEmpty
    <3>2. Len(L) \in Nat /\ Len(L) > 0 /\ \A i \in 1 .. Len(L) : L[i].t \in Int
      BY <3>1, PointFacts
    <3>3. 1 \in 1 .. Len(L) /\ Len(L) \in 1 .. Len(L)
      BY <3>2
    <3>4. QED BY <3>1, <3>2, <3>3, SampleFacts, TmaxAssumption DEF IInv
  <2>1. PICK m \in log : /\ \A s \in log : m.t <= s.t
                         /\ m.t <= L[1].t
                         /\ m.t = L[1].t \/ L[Len(L)].t - L[1].t = Tmax
    BY <2>0 DEF Shape
  <2>2. first = m.t
    <3>1. m.t \in dates /\ \A y \in dates : m.t <= y /\ y \in Int
      BY <2>0, <2>1
    <3> HIDE DEF dates
    <3>2. QED BY <3>1 DEF Min
  <2>3. now = L[Len(L)].t
    <3>1. L[Len(L)].t \in dates /\ \A y \in dates : y <= L[Len(L)].t /\ y \in Int
      BY <2>0 DEF Shape
    <3> HIDE DEF dates
    <3>2. QED BY <3>1 DEF Max
  <2>4. L[Len(L)].t - L[1].t <= Tmax
    BY <2>0 DEF Shape
  <2> HIDE DEF first, now
  <2>5. L[1].t = IF now - first >= Tmax THEN now - Tmax ELSE first
    BY <2>0, <2>1, <2>2, <2>3, <2>4
  <2>6. QED BY <2>0, <2>3, <2>5 DEF WindowStart, first, now, Last
<1>2. QED BY <1>1, Invariance, PTL

-----------------------------------------------------------------------------
(* Averages *)

Trapeze == [from : Int, to : Int]

\* From a date on, the intervals between the points after it follow each other.
LEMMA TrapezesFollow ==
  ASSUME NEW l \in Seq(Point), Increasing(l), NEW u \in Int,
         NEW k \in 0 .. Len(l) - 1, IsBracket(l, u, k)
  PROVE  LET parts == <<[from |-> u, to |-> l[k + 1].t]>>
                        \o [i \in 1 .. Len(l) - k - 1 |->
                              [from |-> l[k + i].t, to |-> l[k + i + 1].t]]
         IN /\ Len(parts) = Len(l) - k
            /\ parts[1].from = u
            /\ parts[Len(parts)].to = l[Len(l)].t
            /\ \A i \in 1 .. Len(parts) :
                 /\ parts[i].from <= parts[i].to
                 /\ i > 1 => parts[i].from = parts[i - 1].to
<1> DEFINE n == Len(l)
           first == [from |-> u, to |-> l[k + 1].t]
           rest == [i \in 1 .. n - k - 1 |->
                      [from |-> l[k + i].t, to |-> l[k + i + 1].t]]
           parts == <<first>> \o rest
<1>1. n \in Nat /\ k \in Int /\ \A i \in 1 .. n : l[i].t \in Int
  BY PointFacts
<1>2. u <= l[k + 1].t
  <2>1. k + 1 \in k + 1 .. n
    BY <1>1
  <2>2. QED BY <2>1 DEF IsBracket
<1>3. first \in Trapeze /\ first.from = u /\ first.to = l[k + 1].t
  BY <1>1 DEF Trapeze
<1> HIDE DEF first
<1>4. ASSUME NEW i \in 1 .. n - k - 1
      PROVE  /\ rest[i] \in Trapeze
             /\ rest[i].from = l[k + i].t /\ rest[i].to = l[k + i + 1].t
             /\ rest[i].from <= rest[i].to
  <2>1. k + i \in 1 .. n /\ k + i + 1 \in 1 .. n /\ k + i < k + i + 1
    BY <1>1
  <2>2. rest[i] = [from |-> l[k + i].t, to |-> l[k + i + 1].t]
    OBVIOUS
  <2>3. l[k + i].t < l[k + i + 1].t /\ l[k + i].t \in Int /\ l[k + i + 1].t \in Int
    BY <2>1, <1>1 DEF Increasing
  <2> HIDE DEF rest
  <2>4. QED BY <2>2, <2>3 DEF Trapeze
<1>5. rest \in Seq(Trapeze) /\ Len(rest) = n - k - 1
  <2> DEFINE m == n - k - 1
  <2>1. m \in Nat
    BY <1>1
  <2>2. rest \in [1 .. m -> Trapeze]
    <3>1. DOMAIN rest = 1 .. m /\ rest = [i \in 1 .. m |-> rest[i]]
      OBVIOUS
    <3> HIDE DEF rest
    <3>2. QED BY <3>1, <1>4
  <2> HIDE DEF rest, m
  <2>3. QED BY <2>1, <2>2 DEF m
<1> HIDE DEF rest
<1>6. /\ Len(parts) = n - k
      /\ \A i \in 1 .. n - k : parts[i] = IF i = 1 THEN first ELSE rest[i - 1]
  <2>1. <<first>> \in Seq(Trapeze) /\ Len(<<first>>) = 1 /\ <<first>>[1] = first
    BY <1>3
  <2>2. /\ Len(parts) = 1 + (n - k - 1)
        /\ \A i \in 1 .. 1 + (n - k - 1) :
             parts[i] = IF i <= 1 THEN <<first>>[i] ELSE rest[i - 1]
    BY <2>1, <1>5, ConcatProperties
  <2> HIDE DEF parts
  <2>3. QED BY <2>1, <2>2, <1>1
<1> HIDE DEF parts
<1>7. parts[1].from = u
  <2>1. 1 \in 1 .. n - k
    BY <1>1
  <2>2. QED BY <2>1, <1>3, <1>6
<1>8. parts[n - k].to = l[n].t
  <2>1. n - k \in 1 .. n - k
    BY <1>1
  <2>2. CASE n - k = 1
    BY <2>1, <2>2, <1>1, <1>3, <1>6
  <2>3. CASE n - k # 1
    <3>1. n - k - 1 \in 1 .. n - k - 1 /\ k + (n - k - 1) + 1 = n
      BY <2>3, <1>1
    <3>2. QED BY <3>1, <2>1, <2>3, <1>4, <1>6
  <2>4. QED BY <2>2, <2>3
<1>9. ASSUME NEW i \in 1 .. n - k
      PROVE  /\ parts[i].from <= parts[i].to
             /\ i > 1 => parts[i].from = parts[i - 1].to
  <2>1. CASE i = 1
    BY <2>1, <1>2, <1>3, <1>6
  <2>2. CASE i = 2
    <3>1. 1 \in 1 .. n - k - 1 /\ 1 \in 1 .. n - k /\ i - 1 = 1
      BY <2>2, <1>1
    <3>2. QED BY <3>1, <2>2, <1>3, <1>4, <1>6
  <2>3. CASE i > 2
    <3>1. /\ i - 1 \in 1 .. n - k - 1 /\ i - 2 \in 1 .. n - k - 1
          /\ i - 1 \in 1 .. n - k /\ (i - 1) - 1 = i - 2
          /\ k + (i - 2) + 1 = k + (i - 1)
      BY <2>3, <1>1
    <3>2. parts[i] = rest[i - 1] /\ parts[i - 1] = rest[i - 2]
      <4>1. parts[i] = rest[i - 1]
        BY <2>3, <1>6
      <4>2. parts[i - 1] = rest[(i - 1) - 1]
        <5>1. i - 1 # 1
          BY <2>3, <1>1
        <5>2. QED BY <5>1, <3>1, <1>6
      <4>3. QED BY <4>1, <4>2, <3>1
    <3>3. QED BY <3>1, <3>2, <1>4
  <2>4. QED BY <2>1, <2>2, <2>3
<1>10. QED BY <1>6, <1>7, <1>8, <1>9 DEF parts, first, rest, n

\* average(T) integrates over T, or over all that is stored when that is less,
\* and over every part of it once.
THEOREM AveragesTile == Spec => []AverageTilesTheWindow
<1>1. IInv => AverageTilesTheWindow
  <2> SUFFICES ASSUME IInv, Len(L) > 1, NEW T \in 1 .. Tmax + 1
               PROVE  LET parts == AverageIntervals(T)
                      IN /\ parts[1].from = get_current_time - Min({T, get_duration})
                         /\ parts[Len(parts)].to = get_current_time
                         /\ \A i \in 1 .. Len(parts) :
                              /\ parts[i].from <= parts[i].to
                              /\ i > 1 => parts[i].from = parts[i - 1].to
    BY DEF AverageTilesTheWindow
  <2> DEFINE n == Len(L)
             length == IF T < get_duration THEN T ELSE get_duration
             u == get_current_time - length
             k == find_braketing_position(L, u)
  <2>1. /\ L \in Seq(Point) /\ L # <<>> /\ Increasing(L) /\ n \in Nat /\ n > 1
        /\ \A i \in 1 .. n : L[i].t \in Int
    <3>1. L \in Seq(Point) /\ L # <<>>
      BY DEF IInv, TypeOK
    <3>2. QED BY <3>1, PointFacts DEF IInv, IsEmpty, Shape
  <2>2. /\ get_current_time = L[n].t /\ get_duration = L[n].t - L[1].t
        /\ L[n].t \in Int /\ L[1].t \in Int /\ L[1].t < L[n].t
    <3>1. 1 \in 1 .. n /\ n \in 1 .. n /\ 1 < n
      BY <2>1
    <3>2. QED BY <3>1, <2>1 DEF Increasing, get_current_time, get_duration, IsEmpty, Last
  <2>3. T \in Int /\ T > 0 /\ get_duration \in Int /\ get_duration > 0
    BY <2>2, TmaxAssumption
  <2>4. length \in Int /\ length > 0
    BY <2>3
  <2>5. length = Min({T, get_duration})
    BY <2>3 DEF Min
  <2> HIDE DEF length
  <2>6. u \in Int /\ u < L[n].t
    BY <2>2, <2>4
  <2> HIDE DEF u
  <2>7. IsBracket(L, u, k)
    BY <2>1, <2>6, BracketIs
  <2>8. k \in 0 .. n - 1
    <3>1. k \in 0 .. n /\ (k = n => L[n].t < u)
      BY <2>1, <2>7 DEF IsBracket
    <3>2. QED BY <3>1, <2>1, <2>2, <2>6
  <2> HIDE DEF k
  <2>9. AverageIntervals(T) =
          <<[from |-> u, to |-> L[k + 1].t]>>
            \o [i \in 1 .. n - k - 1 |->
                  [from |-> L[k + i].t, to |-> L[k + i + 1].t]]
    BY DEF AverageIntervals, k, u, length
  <2> DEFINE parts == AverageIntervals(T)
             intervals ==
               <<[from |-> u, to |-> L[k + 1].t]>>
                 \o [i \in 1 .. Len(L) - k - 1 |->
                       [from |-> L[k + i].t, to |-> L[k + i + 1].t]]
  <2>10. /\ parts[1].from = u /\ parts[Len(parts)].to = L[n].t
         /\ \A i \in 1 .. Len(parts) :
              /\ parts[i].from <= parts[i].to
              /\ i > 1 => parts[i].from = parts[i - 1].to
    <3>1. /\ Len(intervals) = Len(L) - k
          /\ intervals[1].from = u
          /\ intervals[Len(intervals)].to = L[Len(L)].t
          /\ \A i \in 1 .. Len(intervals) :
               /\ intervals[i].from <= intervals[i].to
               /\ i > 1 => intervals[i].from = intervals[i - 1].to
      <4>1. k \in 0 .. Len(L) - 1
        BY <2>8
      <4>2. QED BY <4>1, <2>1, <2>6, <2>7, TrapezesFollow, ZenonT(60)
    <3>2. parts = intervals
      BY <2>9
    <3> HIDE DEF parts, intervals
    <3>3. QED BY <3>1, <3>2
  <2> HIDE DEF parts
  <2>11. u = get_current_time - Min({T, get_duration})
    BY <2>5 DEF u
  <2>12. QED BY <2>2, <2>10, <2>11 DEF parts
<1>2. QED BY <1>1, Invariance, PTL

-----------------------------------------------------------------------------
(* Queries on a grid *)

\* A multiple of d less than d away from 0 is 0.
LEMMA NoMultipleBetween ==
  ASSUME NEW d \in Nat, d > 0, NEW k \in Int, NEW m \in 0 .. d - 1, d * k = m
  PROVE  m = 0
<1>1. CASE k <= 0
  <2>1. d * k <= 0
    BY <1>1
  <2>2. QED BY <2>1
<1>2. CASE k >= 1
  <2>1. d * k >= d
    BY <1>2
  <2>2. QED BY <2>1
<1>3. QED BY <1>1, <1>2

LEMMA DifferenceOfMultiples ==
  ASSUME NEW d \in Nat, d > 0, NEW a \in Int, NEW b \in Int, a % d = 0, b % d = 0
  PROVE  (a - b) % d = 0
<1> DEFINE p == a \div d
           q == b \div d
           r == (a - b) \div d
           m == (a - b) % d
<1>1. a = d * p /\ b = d * q /\ p \in Int /\ q \in Int
  OBVIOUS
<1>2. a - b = d * r + m /\ r \in Int /\ m \in 0 .. d - 1
  OBVIOUS
<1> HIDE DEF p, q, r, m
<1>3. d * (p - q - r) = m
  <2>1. d * (p - q - r) = d * p - d * q - d * r
    BY <1>1, <1>2
  <2>2. QED BY <1>1, <1>2, <2>1
<1>4. p - q - r \in Int
  BY <1>1, <1>2
<1>5. m = 0
  BY <1>2, <1>3, <1>4, NoMultipleBetween
<1>6. QED BY <1>5 DEF m

\* The dates are those from f to l in steps of d, which divides Tmax.
IsGrid(dates, d, f, l) ==
  /\ d \in 1 .. Tmax /\ Tmax % d = 0
  /\ f \in dates /\ l \in dates
  /\ dates = {t \in f .. l : (t - f) % d = 0}

Dates(samples) == {s.t : s \in samples}

LEMMA GridIs ==
  ASSUME NEW samples \in SUBSET Sample, NEW m \in samples, NEW n \in samples,
         \A s \in samples : m.t <= s.t /\ s.t <= n.t
  PROVE  LET dates == Dates(samples)
         IN (\E d \in 1 .. Tmax :
               /\ Tmax % d = 0
               /\ dates = {t \in Min(dates) .. Max(dates) : (t - Min(dates)) % d = 0})
            <=> \E d \in 1 .. Tmax : IsGrid(dates, d, m.t, n.t)
<1> DEFINE dates == Dates(samples)
<1>1. /\ m.t \in dates /\ n.t \in dates
      /\ \A y \in dates : y \in Int /\ m.t <= y /\ y <= n.t
  BY SampleFacts DEF Dates
<1> HIDE DEF dates
<1>2. Min(dates) = m.t /\ Max(dates) = n.t
  <2>1. Min(dates) = m.t
    BY <1>1 DEF Min
  <2>2. Max(dates) = n.t
    BY <1>1 DEF Max
  <2>3. QED BY <2>1, <2>2
<1>3. QED BY <1>1, <1>2 DEF IsGrid, dates

\* Without its last date a grid is a grid.
LEMMA ShorterGrid ==
  ASSUME NEW dates \in SUBSET Int, NEW d, NEW f, NEW l, IsGrid(dates, d, f, l),
         NEW earlier \in SUBSET Int, NEW last \in earlier,
         dates = earlier \cup {l}, \A t \in earlier : t <= last, last < l
  PROVE  IsGrid(earlier, d, f, last)
<1>1. /\ d \in 1 .. Tmax /\ Tmax % d = 0 /\ f \in Int /\ l \in Int /\ last \in Int
      /\ \A t \in Int : t \in dates <=> f <= t /\ t <= l /\ (t - f) % d = 0
  BY DEF IsGrid
<1>2. \A t \in Int : t \in earlier <=> t \in dates /\ t <= last
  OBVIOUS
<1>3. \A t \in Int : t \in earlier <=> f <= t /\ t <= last /\ (t - f) % d = 0
  BY <1>1, <1>2
<1>4. f <= last
  BY <1>1, <1>3
<1>5. f \in earlier
  <2>1. f \in dates
    BY DEF IsGrid
  <2>2. QED BY <1>1, <1>2, <1>4, <2>1
<1>6. earlier = {t \in f .. last : (t - f) % d = 0}
  <2> DEFINE grid == {t \in f .. last : (t - f) % d = 0}
  <2>1. \A t \in Int : t \in grid <=> f <= t /\ t <= last /\ (t - f) % d = 0
    BY <1>1
  <2>2. \A t \in grid : t \in Int
    BY <1>1
  <2> HIDE DEF grid
  <2>3. \A t : t \in grid <=> t \in earlier
    BY <1>3, <2>1, <2>2
  <2>4. QED BY <2>3 DEF grid
<1>7. QED BY <1>1, <1>5, <1>6 DEF IsGrid

\* The date Tmax before the last one is on the grid, when it is not before the
\* first one.
LEMMA StartIsOnTheGrid ==
  ASSUME NEW dates \in SUBSET Int, NEW d, NEW f, NEW l, IsGrid(dates, d, f, l),
         f <= l - Tmax
  PROVE  l - Tmax \in dates
<1>1. /\ d \in Nat /\ d > 0 /\ Tmax % d = 0 /\ f \in Int /\ l \in Int /\ Tmax \in Nat
      /\ (l - f) % d = 0
      /\ \A t \in Int : t \in dates <=> f <= t /\ t <= l /\ (t - f) % d = 0
  BY TmaxAssumption DEF IsGrid
<1>2. ((l - f) - Tmax) % d = 0
  <2> DEFINE a == l - f
  <2>1. /\ a \in Int /\ Tmax \in Int /\ d \in Nat /\ d > 0
        /\ a % d = 0 /\ Tmax % d = 0
    BY <1>1
  <2> HIDE DEF a
  <2>2. (a - Tmax) % d = 0
    BY <2>1, DifferenceOfMultiples
  <2>3. QED BY <2>2 DEF a
<1>3. (l - f) - Tmax = (l - Tmax) - f /\ l - Tmax \in Int /\ l - Tmax <= l
  BY <1>1
<1>4. ((l - Tmax) - f) % d = 0
  BY <1>2, <1>3
<1>5. QED BY <1>1, <1>3, <1>4

\* A window that starts at a point of the list starts with that point.
LEMMA ShiftToAPoint ==
  ASSUME NEW l \in Seq(Point), Increasing(l), NEW j \in 1 .. Len(l)
  PROVE  shift_oldest(l, l[j].t)[1] = l[j]
<1> DEFINE start == l[j].t
           idx == find_braketing_position(l, start)
           kept == SubSeq(l, idx + 1, Len(l))
<1>1. Len(l) \in Nat /\ \A i \in 1 .. Len(l) : l[i] \in Point /\ l[i].t \in Int
  BY PointFacts
<1>2. IsBracket(l, start, idx)
  <2>1. start \in Int
    BY <1>1
  <2> HIDE DEF start
  <2>2. QED BY <2>1, BracketIs
<1> HIDE DEF idx, kept
<1>3. idx + 1 = j
  <2>1. /\ idx \in 0 .. Len(l) /\ \A i \in 1 .. idx : l[i].t < l[j].t
        /\ \A i \in idx + 1 .. Len(l) : l[i].t >= l[j].t
    BY <1>2 DEF IsBracket
  <2>2. ~(j <= idx)
    BY <1>1, <2>1
  <2>3. ~(idx + 1 < j)
    <3>1. ASSUME idx + 1 < j PROVE FALSE
      <4>1. idx + 1 \in 1 .. Len(l) /\ idx + 1 \in idx + 1 .. Len(l)
        BY <1>1, <2>1, <3>1
      <4>2. l[idx + 1].t < l[j].t /\ l[idx + 1].t >= l[j].t
        BY <2>1, <3>1, <4>1 DEF Increasing
      <4>3. QED BY <1>1, <4>1, <4>2
    <3>2. QED BY <3>1
  <2>4. QED BY <1>1, <2>1, <2>2, <2>3
<1>4. kept[1] = l[j]
  <2>1. idx + 1 \in Int /\ Len(l) \in Int /\ \A i \in idx + 1 .. Len(l) : l[i] \in Point
    BY <1>1, <1>3
  <2>2. \A i \in 1 .. Len(l) - (idx + 1) + 1 : kept[i] = l[idx + 1 + i - 1]
    BY <2>1, SubSeqProperties DEF kept
  <2>3. 1 \in 1 .. Len(l) - (idx + 1) + 1 /\ idx + 1 + 1 - 1 = j
    BY <1>1, <1>3
  <2>4. QED BY <2>2, <2>3
<1>5. kept[1].t = start
  BY <1>4
<1>6. shift_oldest(l, start) = kept
  BY <1>5 DEF shift_oldest, idx, kept
<1>7. QED BY <1>4, <1>6

FrontIsASample == ~IsEmpty /\ OnAGrid => \E s \in log : L[1] = NewPoint(s.t, s.v)

\* Dates that are on a grid were so before the last of them was recorded.
LEMMA GridBefore ==
  ASSUME IInv, ~IsEmpty, NEW t \in Int, NEW v \in Values, record(t, v), OnAGrid'
  PROVE  OnAGrid
<1> DEFINE added == [t |-> t, v |-> v]
           new == {s \in log : s.t # t} \cup {added}
           last == L[Len(L)].t
<1>1. /\ log \in SUBSET Sample /\ \A s \in log : s.t \in Int /\ s.v \in Values
      /\ \A s \in log : s.t <= last
      /\ \E s \in log : s.t = last
      /\ \E m \in log : \A s \in log : m.t <= s.t
      /\ last <= t /\ last \in Int
  <2>1. L \in Seq(Point) /\ L # <<>> /\ log \in SUBSET Sample /\ Shape(L, log)
    BY DEF IInv, TypeOK, IsEmpty
  <2>2. last \in Int
    BY <2>1, PointFacts, EmptySeq
  <2>3. last <= t
    BY <2>2 DEF record, Last
  <2>4. QED BY <2>1, <2>2, <2>3, SampleFacts DEF Shape
<1>2. log' = new
  BY DEF record
<1>3. added \in Sample /\ added.t = t
  BY DEF Sample
<1> HIDE DEF added, last
<1>4. /\ new \in SUBSET Sample /\ added \in new /\ \A s \in new : s.t \in Int /\ s.t <= t
      /\ \A s \in log : s.t # t => s \in new
      /\ \A s \in new : s = added \/ (s \in log /\ s.t # t)
  BY <1>1, <1>3
<1> HIDE DEF new
<1>5. Dates(new) = Dates(log) \cup {t}
  <2>1. \A s \in log : s.t = t \/ s.t \in Dates(new)
    BY <1>4 DEF Dates
  <2>2. \A s \in new : s.t = t \/ s.t \in Dates(log)
    BY <1>3, <1>4 DEF Dates
  <2>3. t \in Dates(new)
    BY <1>3, <1>4 DEF Dates
  <2>4. QED BY <2>1, <2>2, <2>3 DEF Dates
<1>6. CASE last = t
  <2>1. t \in Dates(log)
    BY <1>1, <1>6 DEF Dates
  <2>2. Dates(new) = Dates(log)
    BY <1>5, <2>1
  <2>3. QED BY <1>2, <2>2 DEF OnAGrid, Dates
<1>7. CASE last # t
  <2>1. last < t
    BY <1>1, <1>7
  <2>2. \A s \in log : s \in new
    BY <1>1, <1>4, <2>1
  <2>3. PICK m \in log : \A s \in log : m.t <= s.t
    BY <1>1
  <2>4. m \in new /\ \A s \in new : m.t <= s.t /\ s.t <= added.t
    BY <1>1, <1>3, <1>4, <2>1, <2>2, <2>3
  <2>5. \E d \in 1 .. Tmax : /\ Tmax % d = 0
            /\ Dates(new) = {u \in Min(Dates(new)) .. Max(Dates(new)) :
                               (u - Min(Dates(new))) % d = 0}
    BY <1>2 DEF OnAGrid, Dates
  <2>6. PICK d \in 1 .. Tmax : IsGrid(Dates(new), d, m.t, t)
    BY <1>3, <1>4, <2>4, <2>5, GridIs
  <2>7. IsGrid(Dates(log), d, m.t, last)
    <3>1. Dates(new) \in SUBSET Int /\ Dates(log) \in SUBSET Int
      BY <1>1, <1>4 DEF Dates
    <3>2. last \in Dates(log) /\ \A u \in Dates(log) : u <= last
      BY <1>1 DEF Dates
    <3>3. QED BY <1>5, <2>1, <2>6, <3>1, <3>2, ShorterGrid
  <2>8. PICK n \in log : n.t = last
    BY <1>1
  <2>9. \A s \in log : m.t <= s.t /\ s.t <= n.t
    BY <1>1, <2>3, <2>8
  <2>10. \E d1 \in 1 .. Tmax : IsGrid(Dates(log), d1, m.t, n.t)
    BY <2>7, <2>8
  <2>11. QED BY <1>1, <2>9, <2>10, GridIs DEF OnAGrid, Dates
<1>8. QED BY <1>6, <1>7

\* Adding a sample leaves a sample at the front.
LEMMA AddedFront ==
  ASSUME IInv, FrontIsASample, NEW t \in Int, NEW v \in Values, record(t, v),
         OnAGrid'
  PROVE  \E s \in log' : add_value_to_history(L, t, v)[1] = NewPoint(s.t, s.v)
<1> DEFINE a == add_value_to_history(L, t, v)
           k == IF L # <<>> /\ L[Len(L)].t = t THEN Len(L) ELSE Len(L) + 1
           added == [t |-> t, v |-> v]
<1>0. /\ L \in Seq(Point) /\ Len(L) \in Nat
      /\ L # <<>> => Len(L) > 0
  BY PointFacts DEF IInv, TypeOK
<1>1. Increasing(L) /\ (L # <<>> => L[Len(L)].t <= t)
  <2>1. Increasing(L)
    <3>1. Increasing(<<>>)
      BY DEF Increasing
    <3>2. QED BY <3>1 DEF IInv, Shape, IsEmpty
  <2>2. L # <<>> => t >= L[Len(L)].t
    BY DEF record, Last, IsEmpty
  <2>3. L # <<>> => L[Len(L)].t \in Int
    BY <1>0, PointFacts
  <2>4. QED BY <2>1, <2>2, <2>3
<1>2. /\ Len(a) = k /\ k > 0 /\ a[k] = NewPoint(t, v)
      /\ \A i \in 1 .. k - 1 : a[i] = L[i] /\ L[i].t < t
  BY <1>0, <1>1, AddValue
<1>3. added.t = t /\ added.v = v
  OBVIOUS
<1>4. log' = {s \in log : s.t # t} \cup {added}
  BY DEF record
<1> HIDE DEF a, added
<1>5. added \in log' /\ \A s \in log : s.t # t => s \in log'
  BY <1>4
<1>6. CASE k = 1
  BY <1>2, <1>3, <1>5, <1>6 DEF a
<1>7. CASE k # 1
  <2>1. 1 \in 1 .. k - 1 /\ ~IsEmpty
    <3>1. k \in Nat
      BY <1>0
    <3>2. L = <<>> => k = 1
      BY <1>0
    <3> HIDE DEF k
    <3>3. QED BY <1>2, <1>7, <3>1, <3>2 DEF IsEmpty
  <2>2. PICK s \in log : L[1] = NewPoint(s.t, s.v)
    BY <2>1, GridBefore DEF FrontIsASample
  <2>3. a[1] = L[1] /\ s.t # t
    <3>1. a[1] = L[1] /\ L[1].t < t
      BY <1>2, <2>1
    <3>2. s.t = L[1].t
      BY <2>2 DEF NewPoint
    <3>3. L[1].t # t
      BY <3>1, <2>1, <1>0, PointFacts, EmptySeq DEF IsEmpty
    <3>4. QED BY <3>1, <3>2, <3>3
  <2>4. QED BY <1>5, <2>2, <2>3 DEF a
<1>8. QED BY <1>6, <1>7

\* On a grid the date at which a full window starts is one of its points.
LEMMA RecordFront ==
  ASSUME IInv, FrontIsASample, NEW t \in Int, NEW v \in Values, record(t, v)
  PROVE  FrontIsASample'
<1> SUFFICES ASSUME OnAGrid' PROVE \E s \in log' : L'[1] = NewPoint(s.t, s.v)
  BY DEF FrontIsASample
<1> DEFINE a == add_value_to_history(L, t, v)
           new == {s \in log : s.t # t} \cup {[t |-> t, v |-> v]}
           n == Len(a)
           oldest == update_oldest_recorded_instant(t)
           start == t - Tmax
<1>1. ~IsEmpty => t >= L[Len(L)].t
  BY DEF record, Last
<1>2. /\ a \in Seq(Point) /\ n \in Nat /\ n > 0 /\ a[n].t = t
      /\ Increasing(a)
      /\ a[1].t = oldest
      /\ new \in SUBSET Sample
      /\ \A s \in new : s.t <= t
      /\ \E m \in new : (\A s \in new : m.t <= s.t) /\ m.t <= a[1].t
      /\ \A i \in 2 .. n : \E s \in new : a[i] = NewPoint(s.t, s.v)
      /\ \A s \in new : s.t > a[1].t =>
           \E i \in 2 .. n : a[i] = NewPoint(s.t, s.v)
  BY <1>1, AddedShape
<1>3. \E s \in new : s.t = t
  <2>1. [t |-> t, v |-> v] \in new /\ [t |-> t, v |-> v].t = t
    OBVIOUS
  <2> HIDE DEF new
  <2>2. QED BY <2>1
<1>4. /\ L' = IF t - oldest >= Tmax THEN shift_oldest(a, start) ELSE a
      /\ log' = new
  BY <1>2 DEF record, Last
<1>5. \E s \in new : a[1] = NewPoint(s.t, s.v)
  BY <1>4, AddedFront
<1> HIDE DEF a, new, oldest
<1>6. /\ Tmax \in Nat /\ start \in Int /\ \A i \in 1 .. n : a[i].t \in Int
      /\ \A s \in new : s.t \in Int
      /\ a[1].t \in Int
  <2>1. 1 \in 1 .. n
    BY <1>2
  <2>2. (\A i \in 1 .. n : a[i].t \in Int) /\ \A s \in new : s.t \in Int
    BY <1>2, PointFacts, SampleFacts
  <2>3. QED BY <2>1, <2>2, TmaxAssumption
<1>7. CASE ~(t - oldest >= Tmax)
  BY <1>4, <1>5, <1>7
<1>8. CASE t - oldest >= Tmax
  <2>1. PICK m \in new : (\A s \in new : m.t <= s.t) /\ m.t <= a[1].t
    BY <1>2
  <2>2. PICK last \in new : last.t = t
    BY <1>3
  <2>3. \A s \in new : m.t <= s.t /\ s.t <= last.t
    BY <1>2, <2>1, <2>2
  <2>4. \E d \in 1 .. Tmax : /\ Tmax % d = 0
            /\ Dates(new) = {u \in Min(Dates(new)) .. Max(Dates(new)) :
                               (u - Min(Dates(new))) % d = 0}
    BY <1>4 DEF OnAGrid, Dates
  <2>5. PICK d \in 1 .. Tmax : IsGrid(Dates(new), d, m.t, last.t)
    BY <1>2, <2>3, <2>4, GridIs
  <2>6. start \in Dates(new)
    <3>1. Dates(new) \in SUBSET Int
      BY <1>6 DEF Dates
    <3>2. m.t <= last.t - Tmax
      BY <1>2, <1>6, <1>8, <2>1, <2>2
    <3>3. QED BY <2>2, <2>5, <3>1, <3>2, StartIsOnTheGrid
  <2>7. PICK r \in new : r.t = start
    BY <2>6 DEF Dates
  <2> HIDE DEF start
  <2>8. \E j \in 1 .. n : a[j].t = start
    <3>1. CASE r.t = a[1].t
      <4>1. 1 \in 1 .. n
        BY <1>2
      <4>2. QED BY <2>7, <3>1, <4>1
    <3>2. CASE r.t > a[1].t
      <4>1. PICK j \in 2 .. n : a[j] = NewPoint(r.t, r.v)
        BY <1>2, <3>2
      <4>2. j \in 1 .. n /\ a[j].t = r.t
        BY <4>1, <1>2 DEF NewPoint
      <4>3. QED BY <2>7, <4>2
    <3>3. a[1].t <= r.t
      BY <1>2, <1>6, <1>8, <2>7 DEF start
    <3>4. QED BY <1>6, <3>1, <3>2, <3>3
  <2>9. PICK j \in 1 .. n : a[j].t = start
    BY <2>8
  <2>10. L'[1] = a[j]
    <3>1. shift_oldest(a, a[j].t)[1] = a[j]
      BY <1>2, <2>9, ShiftToAPoint
    <3>2. QED BY <1>4, <1>8, <2>9, <3>1
  <2>11. \E s \in new : a[j] = NewPoint(s.t, s.v)
    <3>1. j = 1 \/ j \in 2 .. n
      BY <1>2, <2>9
    <3>2. QED BY <1>2, <1>5, <3>1
  <2>12. QED BY <1>4, <2>10, <2>11
<1>9. QED BY <1>7, <1>8

LEMMA FrontInvariance == Spec => [](IInv /\ FrontIsASample)
<1>1. Init => FrontIsASample
  BY DEF Init, FrontIsASample, IsEmpty
<1>2. IInv /\ FrontIsASample /\ [Next]_vars => FrontIsASample'
  <2> SUFFICES ASSUME IInv, FrontIsASample, [Next]_vars PROVE FrontIsASample'
    OBVIOUS
  <2>1. ASSUME NEW t \in Instants, NEW v \in Values, record(t, v)
        PROVE  FrontIsASample'
    BY <2>1, RecordFront, InstantsAssumption
  <2>2. CASE reset
    BY <2>2 DEF reset, FrontIsASample, IsEmpty
  <2>3. CASE UNCHANGED vars
    BY <2>3 DEF FrontIsASample, IsEmpty, OnAGrid, vars
  <2>4. QED BY <2>1, <2>2, <2>3 DEF Next
<1>3. QED BY <1>1, <1>2, Invariance, PTL DEF Spec

\* The samples around a date are the last one before it and the first one after.
LEMMA ReferenceIs ==
  ASSUME log \in SUBSET Sample, \A r, s \in log : r.t = s.t => r = s,
         NEW u \in Int, NEW A \in log, NEW B \in log, A.t <= u, u <= B.t,
         \A s \in log : s.t <= u => s.t <= A.t,
         \A s \in log : s.t >= u => s.t >= B.t
  PROVE  Reference(u) = {A, B}
<1> DEFINE before == {s \in log : s.t <= u}
           after == {s \in log : s.t >= u}
           left == {s \in before : \A r \in before : r.t <= s.t}
           right == {s \in after : \A r \in after : s.t <= r.t}
<1>1. \A s \in log : s.t \in Int
  BY SampleFacts
<1>2. left = {A}
  <2>1. A \in left
    OBVIOUS
  <2>2. ASSUME NEW s \in left PROVE s = A
    <3>1. s \in log /\ A.t <= s.t /\ s.t <= A.t
      BY <2>1
    <3>2. s.t = A.t
      BY <1>1, <3>1
    <3>3. QED BY <3>1, <3>2
  <2>3. QED BY <2>1, <2>2
<1>3. right = {B}
  <2>1. B \in right
    OBVIOUS
  <2>2. ASSUME NEW s \in right PROVE s = B
    <3>1. s \in log /\ B.t <= s.t /\ s.t <= B.t
      BY <2>1
    <3>2. s.t = B.t
      BY <1>1, <3>1
    <3>3. QED BY <3>1, <3>2
  <2>3. QED BY <2>1, <2>2
<1>4. Reference(u) = left \cup right
  BY DEF Reference
<1>5. QED BY <1>2, <1>3, <1>4

\* A window of samples answers with the samples around the date it is asked for.
LEMMA QueryIs ==
  ASSUME IInv, ~IsEmpty, NEW first \in log, L[1] = NewPoint(first.t, first.v),
         NEW u \in Int, L[1].t <= u, u <= L[Len(L)].t
  PROVE  interpolate_value_in_interval(L, find_braketing_position(L, u), u)
           = Reference(u)
<1> DEFINE n == Len(L)
           k == find_braketing_position(L, u)
<1>1. /\ L \in Seq(Point) /\ n \in Nat /\ n > 0 /\ Increasing(L)
      /\ \A i \in 1 .. n : L[i].t \in Int
      /\ log \in SUBSET Sample /\ \A s \in log : s.t \in Int
      /\ Shape(L, log)
  <2>1. L \in Seq(Point) /\ L # <<>> /\ log \in SUBSET Sample /\ Shape(L, log)
    BY DEF IInv, TypeOK, IsEmpty
  <2>2. QED BY <2>1, PointFacts, EmptySeq, SampleFacts DEF Shape
<1>2. IsBracket(L, u, k)
  BY <1>1, BracketIs
<1> HIDE DEF k
<1>3. /\ k \in 0 .. n - 1
      /\ \A i \in 1 .. k : L[i].t < u
      /\ \A i \in k + 1 .. n : L[i].t >= u
  <2>1. /\ k \in 0 .. n /\ \A i \in 1 .. k : L[i].t < u
        /\ \A i \in k + 1 .. n : L[i].t >= u
    BY <1>2 DEF IsBracket
  <2>2. k # n
    <3>1. k = n => n \in 1 .. k
      BY <1>1
    <3>2. n \in 1 .. n
      BY <1>1
    <3>3. QED BY <1>1, <2>1, <3>1, <3>2
  <2>3. QED BY <1>1, <2>1, <2>2
\* Every point is a sample, and every sample of the window a point.
<1>4. ASSUME NEW i \in 1 .. n
      PROVE  \E s \in log : L[i].t = s.t /\ L[i].from = {s}
  <2>1. \E s \in log : L[i] = NewPoint(s.t, s.v)
    <3>1. i = 1 \/ i \in 2 .. n
      BY <1>1
    <3>2. QED BY <3>1, <1>1 DEF Shape
  <2>2. PICK s \in log : L[i] = NewPoint(s.t, s.v)
    BY <2>1
  <2>3. s = [t |-> s.t, v |-> s.v]
    BY <1>1, SampleFacts
  <2>4. QED BY <2>2, <2>3 DEF NewPoint
<1>5. ASSUME NEW s \in log, s.t >= L[1].t
      PROVE  \E i \in 1 .. n : L[i].t = s.t
  <2>1. 1 \in 1 .. n
    BY <1>1
  <2>2. CASE s.t = L[1].t
    BY <2>1, <2>2
  <2>3. CASE s.t > L[1].t
    <3>1. PICK i \in 2 .. n : L[i] = NewPoint(s.t, s.v)
      BY <1>1, <2>3 DEF Shape
    <3>2. i \in 1 .. n /\ L[i].t = s.t
      BY <1>1, <3>1 DEF NewPoint
    <3>3. QED BY <3>2
  <2>4. QED BY <1>1, <1>5, <2>1, <2>2, <2>3
<1>6. k + 1 \in 1 .. n /\ k + 1 \in k + 1 .. n /\ n \in Nat
  BY <1>1, <1>3
<1>7. PICK B \in log : L[k + 1].t = B.t /\ L[k + 1].from = {B}
  BY <1>4, <1>6
<1>8. u <= B.t /\ B.t \in Int
  BY <1>1, <1>3, <1>6, <1>7
\* No point, hence no sample, is between the date and the point after it.
<1>9. ASSUME NEW s \in log, s.t >= u PROVE s.t >= B.t
  <2>1. s.t >= L[1].t /\ s.t \in Int
    <3>1. 1 \in 1 .. n
      BY <1>1
    <3>2. QED BY <1>1, <1>9, <3>1
  <2>2. PICK i \in 1 .. n : L[i].t = s.t
    BY <1>5, <2>1
  <2>3. i \in k + 1 .. n
    <3>1. ~(i \in 1 .. k)
      BY <1>3, <1>9, <2>1, <2>2
    <3>2. QED BY <1>1, <1>3, <2>2, <3>1
  <2>4. i = k + 1 \/ L[k + 1].t < L[i].t
    BY <1>1, <1>6, <2>2, <2>3 DEF Increasing
  <2>5. QED BY <1>7, <1>8, <2>1, <2>2, <2>4
<1>10. \A r, s \in log : r.t = s.t => r = s
  BY <1>1 DEF Shape
<1>11. CASE B.t = u
  <2>1. Reference(u) = {B, B}
    BY <1>1, <1>8, <1>9, <1>10, <1>11, ReferenceIs
  <2>2. interpolate_value_in_interval(L, k, u) = {B}
    <3>1. CASE k = 0
      BY <1>7, <3>1 DEF interpolate_value_in_interval
    <3>2. CASE k # 0
      <4>1. k \in 1 .. k /\ k < n
        BY <1>3, <1>6, <3>2
      <4>2. u # L[k].t
        <5>1. k \in 1 .. n
          BY <1>3, <1>6, <4>1
        <5>2. QED BY <1>1, <1>3, <4>1, <5>1
      <4>3. ~(k = 0 \/ k >= n)
        BY <1>3, <1>6, <4>1
      <4> HIDE DEF n
      <4>4. interpolate_value_in_interval(L, k, u) = L[k + 1].from
        BY <1>7, <1>11, <4>2, <4>3 DEF interpolate_value_in_interval, n
      <4>5. QED BY <1>7, <4>4
    <3>3. QED BY <3>1, <3>2
  <2>3. QED BY <2>1, <2>2 DEF k
<1>12. CASE B.t # u
  <2>1. k # 0
    BY <1>1, <1>6, <1>7, <1>8, <1>12
  <2>2. k \in 1 .. k /\ k \in 1 .. n /\ k < n
    BY <1>3, <1>6, <2>1
  <2>3. PICK A \in log : L[k].t = A.t /\ L[k].from = {A}
    BY <1>4, <2>2
  <2>4. A.t < u /\ A.t \in Int
    BY <1>1, <1>3, <2>2, <2>3
  <2>5. ASSUME NEW s \in log, s.t <= u PROVE s.t <= A.t
    <3>1. s.t \in Int /\ L[1].t \in Int /\ L[1].t <= A.t
      <4>1. 1 \in 1 .. n
        BY <1>1
      <4>2. k = 1 \/ L[1].t < L[k].t
        BY <1>1, <2>2, <4>1 DEF Increasing
      <4>3. QED BY <1>1, <2>3, <2>4, <4>1, <4>2
    <3>2. CASE s.t < L[1].t
      BY <2>4, <3>1, <3>2
    <3>3. CASE s.t >= L[1].t
      <4>1. PICK i \in 1 .. n : L[i].t = s.t
        BY <1>5, <3>3
      <4>2. i \in 1 .. k
        <5>1. ~(i > k + 1)
          <6>1. ASSUME i > k + 1 PROVE FALSE
            <7>1. L[k + 1].t < L[i].t
              BY <1>1, <1>6, <4>1, <6>1 DEF Increasing
            <7>2. QED BY <1>7, <1>8, <2>5, <3>1, <4>1, <7>1
          <6>2. QED BY <6>1
        <5>2. i # k + 1
          BY <1>7, <1>8, <1>12, <2>5, <3>1, <4>1
        <5>3. QED BY <1>3, <4>1, <5>1, <5>2
      <4>3. i = k \/ L[i].t < L[k].t
        BY <1>1, <2>2, <4>1, <4>2 DEF Increasing
      <4>4. QED BY <2>3, <2>4, <3>1, <4>1, <4>3
    <3>4. QED BY <3>1, <3>2, <3>3
  <2>6. Reference(u) = {A, B}
    <3>1. A.t <= u
      BY <2>4
    <3>2. \A s \in log : s.t <= u => s.t <= A.t
      BY <2>5
    <3>3. \A s \in log : s.t >= u => s.t >= B.t
      BY <1>9
    <3>4. log \in SUBSET Sample /\ u <= B.t
      BY <1>1, <1>8
    <3>5. QED BY <1>10, <3>1, <3>2, <3>3, <3>4, ReferenceIs
  <2>7. interpolate_value_in_interval(L, k, u) = L[k].from \cup L[k + 1].from
    <3>1. ~(k = 0 \/ k >= n) /\ u # L[k].t /\ u # L[k + 1].t
      BY <1>6, <1>7, <1>12, <2>1, <2>2, <2>3, <2>4
    <3> HIDE DEF n
    <3>2. QED BY <3>1 DEF interpolate_value_in_interval, n
  <2>8. QED BY <1>7, <2>3, <2>6, <2>7 DEF k
<1>13. QED BY <1>11, <1>12

\* With a fixed step that divides Tmax, operator()(tau) is the signal tau before
\* the last record: the samples around that date, whatever was recorded twice at
\* a date and whatever fell out of the window.
THEOREM QueriesAreFaithful == Spec => []QueryIsFaithfulOnAGrid
<1>1. IInv /\ FrontIsASample => QueryIsFaithfulOnAGrid
  <2> SUFFICES ASSUME IInv, FrontIsASample, ~IsEmpty, OnAGrid,
                      NEW tau \in 0 .. get_duration
               PROVE  ValueAt(tau) = Reference(get_current_time - tau)
    BY DEF QueryIsFaithfulOnAGrid, QueryIsFaithful
  <2> DEFINE n == Len(L)
             u == get_current_time - tau
  <2>1. /\ L[n].t \in Int /\ L[1].t \in Int /\ Tmax \in Nat
        /\ L[n].t - L[1].t <= Tmax
    <3>1. L \in Seq(Point) /\ L # <<>> /\ Shape(L, log)
      BY DEF IInv, TypeOK, IsEmpty
    <3>2. Len(L) \in Nat /\ Len(L) > 0
      BY <3>1, PointFacts, EmptySeq
    <3>3. 1 \in 1 .. n /\ n \in 1 .. n
      BY <3>2
    <3>4. QED BY <3>1, <3>3, PointFacts, TmaxAssumption DEF Shape
  <2>2. get_current_time = L[n].t /\ get_duration = L[n].t - L[1].t
    BY DEF get_current_time, get_duration, Last
  <2>3. tau \in Int /\ 0 <= tau /\ tau <= L[n].t - L[1].t
    BY <2>1, <2>2
  <2>4. u \in Int /\ L[1].t <= u /\ u <= L[n].t /\ ~(tau > Tmax)
    BY <2>1, <2>2, <2>3
  <2>5. PICK first \in log : L[1] = NewPoint(first.t, first.v)
    BY DEF FrontIsASample
  <2> HIDE DEF u
  <2>6. interpolate_value_in_interval(L, find_braketing_position(L, u), u)
          = Reference(u)
    BY <2>4, <2>5, QueryIs
  <2>7. ValueAt(tau) = get_value(tau)
    BY <2>4 DEF ValueAt
  <2>8. get_value(tau)
          = interpolate_value_in_interval(L, find_braketing_position(L, u), u)
    BY DEF get_value, u
  <2>9. QED BY <2>6, <2>7, <2>8 DEF u
<1>2. QED BY <1>1, FrontInvariance, PTL
=============================================================================
