------------------------ MODULE CSVControllerProofs ------------------------
(* What the reader answers, for any file and any order of requests; then    *)
(* the controller on the scheduler, for any file, any step of the solver    *)
(* and any end, when no sum of dates is rounded.                            *)
EXTENDS CSVController, LeastNatural

-----------------------------------------------------------------------------
(* Greatest and least elements *)

LEMMA GreatestInt ==
  ASSUME NEW S \in SUBSET Int, S # {}, NEW b \in Int, \A x \in S : x <= b
  PROVE  Max(S) \in S /\ \A x \in S : x <= Max(S)
<1>1. \E x \in S : \A y \in S : x >= y
  BY GreatestBelow
<1>2. Max(S) \in S /\ \A y \in S : Max(S) >= y
  BY <1>1, Zenon DEF Max
<1>3. QED BY <1>2

LEMMA LeastInt ==
  ASSUME NEW S \in SUBSET Int, S # {}, NEW b \in Int, \A x \in S : b <= x
  PROVE  Min(S) \in S /\ \A x \in S : Min(S) <= x
<1>1. \E x \in S : \A y \in S : x <= y
  BY LeastAbove
<1>2. QED BY <1>1 DEF Min

\* The least element is recognised.
LEMMA MinIs ==
  ASSUME NEW S \in SUBSET Int, NEW m \in S, \A x \in S : m <= x
  PROVE  Min(S) = m
<1>1. Min(S) \in S /\ \A x \in S : Min(S) <= x
  BY DEF Min
<1>2. Min(S) \in Int /\ m \in Int /\ Min(S) <= m /\ m <= Min(S)
  BY <1>1
<1>3. QED BY <1>2

\* Dates that increase from each line to the next increase.
LEMMA FromLineToLine ==
  ASSUME NEW f \in Seq(Int), \A i \in 2 .. Len(f) : f[i - 1] < f[i],
         NEW i \in 1 .. Len(f), NEW j \in 1 .. Len(f), i < j
  PROVE  f[i] < f[j]
<1> DEFINE T == {m \in 1 .. Len(f) : i < m /\ ~(f[i] < f[m])}
<1>0. Len(f) \in Nat /\ \A k \in 1 .. Len(f) : f[k] \in Int
  OBVIOUS
<1>1. SUFFICES ASSUME T # {} PROVE FALSE
  OBVIOUS
<1>2. PICK m \in T : \A y \in T : m <= y
  <2>1. T \in SUBSET Nat
    BY <1>0
  <2>2. QED BY <2>1, <1>1, LeastNat
<1>3. m \in 2 .. Len(f) /\ m - 1 \in 1 .. Len(f) /\ ~(f[i] < f[m])
  BY <1>0
<1>4. f[m - 1] < f[m]
  BY <1>3
<1>5. CASE m - 1 = i
  BY <1>3, <1>4, <1>5
<1>6. CASE m - 1 # i
  <2>1. i < m - 1 /\ ~(m <= m - 1)
    BY <1>0, <1>3, <1>6
  <2>2. f[i] < f[m - 1]
    BY <2>1, <1>2, <1>3
  <2>3. QED BY <2>2, <1>0, <1>3, <1>4, SMTT(40)
<1>7. QED BY <1>5, <1>6

-----------------------------------------------------------------------------
(* The index *)

LEMMA IndexFacts ==
  ASSUME NEW f \in Seq(Int), NEW n \in 0 .. Len(f)
  PROVE  /\ DOMAIN Index(f, n) = {f[i] : i \in 1 .. n}
         /\ \A i \in 1 .. n :
              /\ Index(f, n)[f[i]] \in 1 .. n
              /\ f[Index(f, n)[f[i]]] = f[i]
              /\ Index(f, n)[f[i]] <= i
<1>1. DOMAIN Index(f, n) = {f[i] : i \in 1 .. n}
  BY DEF Index
<1>2. ASSUME NEW i \in 1 .. n
      PROVE  /\ Index(f, n)[f[i]] \in 1 .. n
             /\ f[Index(f, n)[f[i]]] = f[i]
             /\ Index(f, n)[f[i]] <= i
  <2> DEFINE S == {k \in 1 .. n : f[k] = f[i]}
  <2>1. S \in SUBSET Int /\ i \in S /\ \A k \in S : 1 <= k
    OBVIOUS
  <2>2. Min(S) \in S /\ \A k \in S : Min(S) <= k
    <3> HIDE DEF S
    <3>1. S # {} /\ 1 \in Int
      BY <2>1
    <3>2. QED BY <2>1, <3>1, LeastInt
  <2>3. Index(f, n)[f[i]] = Min(S)
    BY DEF Index
  <2>4. QED BY <2>1, <2>2, <2>3
<1>3. QED BY <1>1, <1>2

-----------------------------------------------------------------------------
(* The invariant *)

ReadToTheEnd == date2position = Index(file, Len(file))

\* Until a request reaches the first line, only that line is in the index and the
\* next date is its date, so that the stream is not taken for exhausted.
BeforeTheFirstLine ==
  /\ date2position = Index(file, 1) /\ Len(file) > 1
  /\ position \in {1, 2} /\ next.date = file[1]

IInv ==
  /\ file \in Files
  /\ position \in 1 .. Len(file) + 1
  /\ current \in DateValues /\ next \in DateValues
  /\ has_more_values \in BOOLEAN /\ thrown \in BOOLEAN
  /\ \E n \in 0 .. Len(file) : date2position = Index(file, n)
  /\ ~thrown => ReadToTheEnd \/ BeforeTheFirstLine
  /\ file = <<>> => eof
  /\ CurrentLineCoversTheDate /\ NextDateIsTheNextLine

LEMMA FileFacts ==
  ASSUME NEW f \in Files
  PROVE  /\ f \in Seq(Int) /\ Len(f) \in Nat
         /\ \A i \in 1 .. Len(f) : f[i] \in Int /\ -Infinity < f[i] /\ f[i] < Infinity
         /\ f # <<>> <=> Len(f) > 0
BY FilesAssumption

LEMMA LineType ==
  ASSUME NEW f \in Files, NEW p \in Nat \ {0}
  PROVE  read_next_line(f, p) \in DateValues
BY FileFacts, InfinityAssumption DEF read_next_line, DateValues, Empty

\* The two lines around a request, and where the stream is after them.
LEMMA ReadAroundType ==
  ASSUME NEW cur \in DateValues, NEW p \in Nat \ {0}, file \in Files,
         ReadAround(cur, p)
  PROVE  /\ current' = cur /\ next' \in DateValues
         /\ has_more_values' \in BOOLEAN
         /\ position' \in 1 .. Len(file) + 1
<1> DEFINE nxt == read_next_line(file, p)
<1>1. nxt \in DateValues /\ Len(file) \in Nat
  BY LineType, FileFacts
<1>2. fix_next_date_on_end_of_file(cur, nxt) \in DateValues
  <2> HIDE DEF nxt
  <2>1. nxt.date \in Int /\ cur.date \in Int /\ nxt.line \in Int
    BY <1>1 DEF DateValues
  <2>2. QED BY <1>1, <2>1 DEF fix_next_date_on_end_of_file, DateValues
<1>3. Min({p, Len(file)}) = IF p <= Len(file) THEN p ELSE Len(file)
  <2> DEFINE S == {p, Len(file)}
             m == IF p <= Len(file) THEN p ELSE Len(file)
  <2>1. S \in SUBSET Int /\ m \in S /\ \A y \in S : m <= y
    BY <1>1
  <2> HIDE DEF m
  <2>2. Min(S) = m
    <3> HIDE DEF S
    <3>1. QED BY <2>1, MinIs
  <2>3. QED BY <2>2 DEF m
<1>4. QED BY <1>1, <1>2, <1>3 DEF ReadAround

\* The line found in the index is the first of the last date not after t.
LEMMA CoveringLine ==
  ASSUME NEW f \in Files, NEW n \in 0 .. Len(f), NEW t \in Int,
         Covering(Index(f, n), t) # {}
  PROVE  LET p == Index(f, n)[Max(Covering(Index(f, n), t))]
         IN /\ p \in 1 .. n /\ f[p] <= t
            /\ \A i \in 1 .. n : f[i] <= t =>
                 f[i] < f[p] \/ (f[i] = f[p] /\ p <= i)
<1> DEFINE S == Covering(Index(f, n), t)
           p == Index(f, n)[Max(S)]
<1>1. f \in Seq(Int) /\ Len(f) \in Nat /\ \A i \in 1 .. n : f[i] \in Int
  BY FileFacts
<1>2. S = {d \in {f[i] : i \in 1 .. n} : d <= t}
  BY <1>1, IndexFacts DEF Covering
<1>3. S \in SUBSET Int /\ S # {} /\ \A d \in S : d <= t
  BY <1>1, <1>2
<1>4. Max(S) \in S /\ \A d \in S : d <= Max(S)
  <2> HIDE DEF S
  <2>1. QED BY <1>3, GreatestInt
<1>5. PICK k \in 1 .. n : Max(S) = f[k]
  BY <1>2, <1>4
<1>6. \A i \in 1 .. n :
        /\ Index(f, n)[f[i]] \in 1 .. n
        /\ f[Index(f, n)[f[i]]] = f[i]
        /\ Index(f, n)[f[i]] <= i
  BY <1>1, IndexFacts
<1>7. p \in 1 .. n /\ f[p] = Max(S)
  BY <1>5, <1>6
<1>8. ASSUME NEW i \in 1 .. n, f[i] <= t
      PROVE  f[i] < f[p] \/ (f[i] = f[p] /\ p <= i)
  <2>1. f[i] \in S
    BY <1>2, <1>8
  <2>2. f[i] <= Max(S) /\ Max(S) \in Int /\ f[i] \in Int
    BY <2>1, <1>1, <1>3, <1>4
  <2>3. CASE f[i] = Max(S)
    BY <2>3, <1>6, <1>7
  <2>4. CASE f[i] # Max(S)
    <3>1. f[i] < Max(S)
      BY <2>2, <2>4
    <3>2. QED BY <3>1, <1>7
  <2>5. QED BY <2>3, <2>4
<1>9. f[p] <= t
  BY <1>3, <1>4, <1>7
<1>10. QED BY <1>7, <1>8, <1>9

\* What is in the index when the current line is looked for: the whole file, unless
\* the request is before its first line.
LEMMA IndexRead ==
  ASSUME IInv, NEW t \in Int, get_values(t)
  PROVE  \E n \in 0 .. Len(file) :
           /\ date2position' = Index(file, n)
           /\ n # Len(file) => n = 1 /\ t < file[1]
<1> DEFINE index == IF Pending(t) = {} THEN date2position ELSE Index(file, Len(file))
<1>1. Len(file) \in Nat /\ \A i \in 1 .. Len(file) : file[i] \in Int
  BY FileFacts DEF IInv
<1>2. date2position' = index
  BY DEF get_values
<1>3. CASE Pending(t) # {} \/ ReadToTheEnd
  BY <1>1, <1>2, <1>3 DEF ReadToTheEnd
<1>4. CASE Pending(t) = {} /\ BeforeTheFirstLine
  <2>1. position \in position .. Len(file) /\ 1 \in 0 .. Len(file)
        /\ file[1] \in Int
    BY <1>1, <1>4 DEF BeforeTheFirstLine
  <2>2. ~(t >= next.date)
    BY <1>4, <2>1 DEF Pending
  <2>3. t < file[1]
    BY <1>4, <2>1, <2>2 DEF BeforeTheFirstLine
  <2>4. QED BY <1>2, <1>4, <2>1, <2>3 DEF BeforeTheFirstLine
<1>5. ~thrown
  BY DEF get_values
<1>6. QED BY <1>3, <1>4, <1>5 DEF IInv

\* An answer before the first line: the commands are set to zero and the next date
\* is the first of the file.
LEMMA AnswerBefore ==
  ASSUME IInv, NEW t \in Int, get_values(t),
         NEW n \in 0 .. Len(file), date2position' = Index(file, n), n > 0,
         n # Len(file) => n = 1 /\ t < file[1],
         Covering(Index(file, n), t) = {}
  PROVE  IInv'
<1>1. /\ file \in Files /\ file \in Seq(Int) /\ Len(file) \in Nat \ {0}
      /\ \A i \in 1 .. Len(file) : file[i] \in Int
      /\ 1 \in 1 .. Len(file) /\ file # <<>>
  <2>1. file \in Files
    BY DEF IInv
  <2>2. QED BY <2>1, FileFacts
<1>2. DOMAIN Index(file, n) = {file[i] : i \in 1 .. n}
  BY <1>1, IndexFacts
<1>3. DOMAIN Index(file, n) # {}
  <2>1. 1 \in 1 .. n
    BY <1>1
  <2>2. QED BY <2>1, <1>2
<1>4. /\ ReadAround(zero, 1) /\ requested' = t /\ file' = file /\ ~thrown /\ ~thrown'
      /\ date2position' = Index(file, n)
  BY <1>3 DEF get_values
<1>5. zero \in DateValues
  BY InfinityAssumption DEF zero, DateValues, Zero
<1>6. /\ current' = zero /\ next' \in DateValues /\ has_more_values' \in BOOLEAN
      /\ position' \in 1 .. Len(file) + 1
  BY <1>1, <1>4, <1>5, ReadAroundType
<1>7. next' = [date |-> file[1], line |-> 1] /\ has_more_values' = TRUE
  <2> DEFINE nxt == read_next_line(file, 1)
  <2>1. nxt = [date |-> file[1], line |-> 1] /\ nxt.line # Empty
    BY <1>1 DEF read_next_line, Empty
  <2>2. next' = fix_next_date_on_end_of_file(zero, nxt)
        /\ has_more_values' = (nxt.line # Empty)
    BY <1>4 DEF ReadAround
  <2> HIDE DEF nxt
  <2>3. QED BY <2>1, <2>2 DEF fix_next_date_on_end_of_file
<1>8. position' = 2
  <2>1. Min({1, Len(file)}) = 1
    <3> DEFINE S == {1, Len(file)}
    <3>1. S \in SUBSET Int /\ 1 \in S /\ \A y \in S : 1 <= y
      BY <1>1
    <3> HIDE DEF S
    <3>2. Min(S) = 1
      BY <3>1, MinIs
    <3>3. QED BY <3>2 DEF S
  <2>2. QED BY <2>1, <1>4 DEF ReadAround
<1>9. \A i \in 1 .. n : t < file[i]
  <2>1. SUFFICES ASSUME NEW i \in 1 .. n PROVE t < file[i]
    OBVIOUS
  <2>2. file[i] \in DOMAIN Index(file, n) /\ file[i] \in Int
    BY <1>1, <1>2
  <2>3. ~(file[i] <= t)
    BY <2>2 DEF Covering
  <2>4. QED BY <2>2, <2>3
<1>10. ASSUME \A i \in 1 .. Len(file) : file[1] <= file[i], NEW i \in 1 .. Len(file)
       PROVE  t < file[i]
  BY <1>1, <1>9, <1>10
<1>11. CurrentLineCoversTheDate'
  <2> DEFINE past == {i \in 1 .. Len(file') : file'[i] <= requested'}
  <2> SUFFICES ASSUME \A i \in 1 .. Len(file') : file'[1] <= file'[i]
               PROVE  past = {} /\ current'.line = Zero
    BY DEF CurrentLineCoversTheDate
  <2>1. past = {}
    BY <1>1, <1>4, <1>10
  <2>2. QED BY <2>1, <1>6 DEF zero
<1>12. NextDateIsTheNextLine'
  <2> DEFINE future == {file'[i] : i \in {j \in 1 .. Len(file') : file'[j] > requested'}}
  <2> SUFFICES ASSUME \A i \in 2 .. Len(file') : file'[i - 1] < file'[i]
               PROVE  /\ eof' <=> future = {}
                      /\ next'.date = IF future = {} THEN current'.date ELSE Min(future)
    BY DEF NextDateIsTheNextLine
  <2>1. \A i \in 1 .. Len(file) : file[1] <= file[i]
    <3>1. \A i \in 2 .. Len(file) : file[i - 1] < file[i]
      BY <1>4
    <3>2. ASSUME NEW i \in 1 .. Len(file), i # 1 PROVE file[1] < file[i]
      <4>1. 1 < i
        BY <1>1, <3>2
      <4>2. QED BY <4>1, <3>1, <1>1, FromLineToLine
    <3>3. QED BY <3>2, <1>1
  <2>2. future = {file[i] : i \in 1 .. Len(file)}
    BY <2>1, <1>1, <1>4, <1>10
  <2>3. Min(future) = file[1]
    <3>1. future \in SUBSET Int /\ file[1] \in future /\ \A y \in future : file[1] <= y
      BY <2>1, <2>2, <1>1
    <3> HIDE DEF future
    <3>2. QED BY <3>1, MinIs
  <2>4. QED BY <2>2, <2>3, <1>1, <1>7 DEF eof
<1>13. ReadToTheEnd' \/ BeforeTheFirstLine'
  BY <1>1, <1>4, <1>7, <1>8 DEF ReadToTheEnd, BeforeTheFirstLine
<1>14. thrown' \in BOOLEAN /\ \E m \in 0 .. Len(file') : date2position' = Index(file', m)
  BY <1>4 DEF IInv, get_values
<1>15. QED BY <1>1, <1>4, <1>5, <1>6, <1>11, <1>12, <1>13, <1>14 DEF IInv

\* An answer from a line on.
LEMMA AnswerFromALine ==
  ASSUME IInv, NEW t \in Int, get_values(t),
         date2position' = Index(file, Len(file)),
         Covering(Index(file, Len(file)), t) # {}
  PROVE  IInv'
<1> DEFINE n == Len(file)
           index == Index(file, n)
           p == index[Max(Covering(index, t))]
           cur == read_next_line(file, p)
<1>1. /\ file \in Files /\ file \in Seq(Int) /\ n \in Nat
      /\ \A i \in 1 .. n : file[i] \in Int
  <2>1. file \in Files
    BY DEF IInv
  <2>2. QED BY <2>1, FileFacts
<1>2. /\ p \in 1 .. n /\ file[p] <= t
      /\ \A i \in 1 .. n : file[i] <= t =>
           file[i] < file[p] \/ (file[i] = file[p] /\ p <= i)
  <2>1. n \in 0 .. n
    BY <1>1
  <2>2. QED BY <1>1, <2>1, CoveringLine
<1>3. DOMAIN index # {}
  BY DEF Covering
<1>4. /\ ReadAround(cur, p + 1) /\ requested' = t /\ file' = file /\ ~thrown
      /\ thrown' = thrown
  BY <1>3 DEF get_values
<1> HIDE DEF p
<1>5. cur = [date |-> file[p], line |-> p] /\ cur \in DateValues
  BY <1>1, <1>2 DEF read_next_line, DateValues
<1>6. p + 1 \in Nat \ {0}
  BY <1>1, <1>2
<1> HIDE DEF cur
<1>7. /\ current' = cur /\ next' \in DateValues /\ has_more_values' \in BOOLEAN
      /\ position' \in 1 .. Len(file) + 1
  BY <1>1, <1>4, <1>5, <1>6, ReadAroundType
<1>8. /\ p < n => next'.date = file[p + 1] /\ ~eof'
      /\ p = n => next'.date = file[p] /\ eof'
  <2> DEFINE nxt == read_next_line(file, p + 1)
  <2>1. nxt = IF p < n THEN [date |-> file[p + 1], line |-> p + 1]
                       ELSE [date |-> Infinity, line |-> Empty]
    BY <1>1, <1>2 DEF read_next_line
  <2>2. next' = fix_next_date_on_end_of_file(cur, nxt)
        /\ has_more_values' = (nxt.line # Empty)
    BY <1>4 DEF ReadAround
  <2> HIDE DEF nxt
  <2>3. ASSUME p < n PROVE next'.date = file[p + 1] /\ ~eof'
    <3>1. nxt.line = p + 1 /\ p + 1 # Empty /\ nxt.date = file[p + 1]
      BY <2>1, <2>3, <1>1, <1>2 DEF Empty
    <3>2. next' = nxt
      BY <2>2, <3>1 DEF fix_next_date_on_end_of_file
    <3>3. QED BY <2>2, <3>1, <3>2 DEF eof
  <2>4. ASSUME p = n PROVE next'.date = file[p] /\ eof'
    <3>1. nxt = [date |-> Infinity, line |-> Empty] /\ cur.date = file[p]
      BY <2>1, <2>4, <1>1, <1>5
    <3>2. next' = [nxt EXCEPT !.date = cur.date]
      BY <2>2, <3>1 DEF fix_next_date_on_end_of_file
    <3>3. QED BY <2>2, <3>1, <3>2 DEF eof
  <2>5. QED BY <2>3, <2>4
<1>9. CurrentLineCoversTheDate'
  <2> DEFINE past == {i \in 1 .. Len(file') : file'[i] <= requested'}
  <2>1. p \in past
    BY <1>2, <1>4
  <2>2. current'.line = p
    BY <1>5, <1>7
  <2>3. \A i \in past : file[i] < file[p] \/ (file[i] = file[p] /\ p <= i)
    BY <1>2, <1>4
  <2>4. /\ past # {} /\ current'.line \in past
        /\ \A i \in past : \/ file'[i] < file'[current'.line]
                           \/ file'[i] = file'[current'.line] /\ current'.line <= i
    BY <2>1, <2>2, <2>3, <1>4
  <2>5. QED BY <2>4 DEF CurrentLineCoversTheDate
<1>10. NextDateIsTheNextLine'
  <2> DEFINE future == {file'[i] : i \in {j \in 1 .. Len(file') : file'[j] > requested'}}
  <2> SUFFICES ASSUME \A i \in 2 .. Len(file') : file'[i - 1] < file'[i]
               PROVE  /\ eof' <=> future = {}
                      /\ next'.date = IF future = {} THEN current'.date ELSE Min(future)
    BY DEF NextDateIsTheNextLine
  <2>1. \A i, j \in 1 .. n : i < j => file[i] < file[j]
    <3>1. \A i \in 2 .. Len(file) : file[i - 1] < file[i]
      BY <1>4
    <3>2. QED BY <3>1, <1>1, FromLineToLine
  <2>2. ASSUME NEW i \in 1 .. n PROVE file[i] > t <=> i > p
    <3>1. CASE i > p
      <4>1. file[p] < file[i]
        BY <2>1, <3>1, <1>2
      <4>2. ~(file[i] <= t)
        BY <4>1, <1>1, <1>2
      <4>3. QED BY <4>2, <3>1, <1>1
    <3>2. CASE ~(i > p)
      <4>1. i = p \/ file[i] < file[p]
        BY <2>1, <3>2, <1>1, <1>2
      <4>2. QED BY <4>1, <3>2, <1>1, <1>2
    <3>3. QED BY <3>1, <3>2
  <2>3. future = {file[i] : i \in p + 1 .. n}
    <3>1. future = {file[i] : i \in {j \in 1 .. n : file[j] > t}}
      BY <1>4
    <3>2. {j \in 1 .. n : file[j] > t} = p + 1 .. n
      BY <2>2, <1>1, <1>2
    <3>3. QED BY <3>1, <3>2
  <2> HIDE DEF future
  <2>4. CASE p < n
    <3>1. /\ file[p + 1] \in future /\ future \in SUBSET Int
          /\ \A y \in future : file[p + 1] <= y
      <4>1. p + 1 \in p + 1 .. n /\ p + 1 \in 1 .. n
            /\ \A i \in p + 1 .. n : i \in 1 .. n /\ (i = p + 1 \/ p + 1 < i)
        BY <2>4, <1>1, <1>2
      <4>2. QED BY <4>1, <2>1, <2>3, <1>1
    <3>2. Min(future) = file[p + 1]
      BY <3>1, MinIs
    <3>3. QED BY <3>1, <3>2, <2>4, <1>8
  <2>5. CASE p = n
    <3>1. future = {}
      BY <2>3, <2>5, <1>1
    <3>2. QED BY <3>1, <2>5, <1>5, <1>7, <1>8
  <2>6. QED BY <2>4, <2>5, <1>1, <1>2
<1>11. ReadToTheEnd'
  BY <1>4 DEF ReadToTheEnd
<1>12. /\ thrown' \in BOOLEAN /\ file' # <<>>
       /\ \E m \in 0 .. Len(file') : date2position' = Index(file', m)
  <2>1. Len(file) \in 0 .. Len(file) /\ file # <<>>
    BY <1>1, <1>2
  <2>2. QED BY <2>1, <1>4 DEF IInv
<1>13. QED BY <1>1, <1>4, <1>5, <1>7, <1>9, <1>10, <1>11, <1>12 DEF IInv

\* An answer from an empty file.
LEMMA AnswerFromNothing ==
  ASSUME IInv, NEW t, get_values(t), file = <<>>
  PROVE  IInv'
<1>1. file \in Files /\ file \in Seq(Int) /\ Len(file) = 0
  <2>1. file \in Files
    BY DEF IInv
  <2>2. QED BY <2>1, FileFacts
<1>2. DOMAIN Index(file, 0) = {}
  <2>1. 0 \in 0 .. Len(file)
    BY <1>1
  <2>2. 1 .. 0 = {}
    OBVIOUS
  <2>3. DOMAIN Index(file, 0) = {file[i] : i \in 1 .. 0}
    BY <2>1, <1>1, IndexFacts
  <2>4. QED BY <2>2, <2>3
<1>3. date2position' = Index(file, 0)
  <2>1. ~thrown
    BY DEF get_values
  <2>2. ReadToTheEnd
    BY <2>1, <1>1 DEF IInv, BeforeTheFirstLine
  <2>3. date2position' = IF Pending(t) = {} THEN date2position ELSE Index(file, Len(file))
    BY DEF get_values
  <2>4. QED BY <2>2, <2>3, <1>1 DEF ReadToTheEnd
<1>4. /\ ReadAround(read_next_line(file, position), position + 1)
      /\ file' = file /\ thrown' = thrown
  BY <1>2, <1>3 DEF get_values
<1>5. position \in Nat \ {0} /\ position + 1 \in Nat \ {0} /\ position + 1 > 0
  BY <1>1 DEF IInv
<1>6. /\ current' \in DateValues /\ next' \in DateValues
      /\ has_more_values' \in BOOLEAN /\ position' \in 1 .. Len(file) + 1
  BY <1>1, <1>4, <1>5, LineType, ReadAroundType
<1>7. CurrentLineCoversTheDate' /\ NextDateIsTheNextLine'
  BY <1>1, <1>4 DEF CurrentLineCoversTheDate, NextDateIsTheNextLine
<1>8. eof'
  <2>1. read_next_line(file, position + 1).line = Empty
    BY <1>1, <1>5 DEF read_next_line
  <2>2. QED BY <2>1, <1>4 DEF ReadAround, eof
<1>9. ReadToTheEnd' /\ 0 \in 0 .. Len(file')
  BY <1>1, <1>3, <1>4 DEF ReadToTheEnd
<1>10. thrown' \in BOOLEAN /\ date2position' = Index(file', 0)
  BY <1>3, <1>4 DEF IInv
<1>11. QED BY <1>1, <1>4, <1>6, <1>7, <1>8, <1>9, <1>10 DEF IInv

LEMMA GetValuesInv ==
  ASSUME IInv, NEW t \in Int, get_values(t)
  PROVE  IInv'
<1>1. PICK n \in 0 .. Len(file) : /\ date2position' = Index(file, n)
                                  /\ n # Len(file) => n = 1 /\ t < file[1]
  BY IndexRead
<1>2. file \in Files /\ file \in Seq(Int) /\ Len(file) \in Nat
  BY FileFacts DEF IInv
<1>3. CASE n = 0
  <2>1. file = <<>>
    BY <1>1, <1>2, <1>3, FileFacts
  <2>2. QED BY <2>1, AnswerFromNothing
<1>4. CASE n > 0 /\ Covering(Index(file, n), t) = {}
  BY <1>1, <1>4, AnswerBefore
<1>5. CASE n > 0 /\ Covering(Index(file, n), t) # {}
  <2>1. n = Len(file)
    <3>1. SUFFICES ASSUME n # Len(file) PROVE FALSE
      OBVIOUS
    <3>2. n = 1 /\ t < file[1] /\ file[1] \in Int
      BY <3>1, <1>1, <1>2
    <3>3. DOMAIN Index(file, 1) = {file[1]}
      <4>1. DOMAIN Index(file, n) = {file[i] : i \in 1 .. n}
        BY <1>2, IndexFacts
      <4>2. QED BY <4>1, <3>2
    <3>4. QED BY <3>2, <3>3, <1>5 DEF Covering
  <2>2. QED BY <2>1, <1>1, <1>5, AnswerFromALine
<1>6. QED BY <1>2, <1>3, <1>4, <1>5

LEMMA RefuseInv ==
  ASSUME IInv, NEW t, refuse(t)
  PROVE  IInv'
<1>1. file \in Files /\ Len(file) \in Nat
  BY FileFacts DEF IInv
<1>2. PICK i \in Pending(t) : date2position' = Index(file, i - 1) /\ position' = i + 1
  BY DEF refuse
<1>3. position \in Nat \ {0} /\ i \in position .. Len(file)
  BY <1>1 DEF IInv, Pending
<1>4. i - 1 \in 0 .. Len(file) /\ i + 1 \in 1 .. Len(file) + 1
  BY <1>1, <1>3
<1>5. /\ file' = file /\ thrown' = TRUE /\ has_more_values' = TRUE
      /\ current' = current /\ next' = next
  BY DEF refuse
<1>6. CurrentLineCoversTheDate' /\ NextDateIsTheNextLine'
  BY <1>5 DEF CurrentLineCoversTheDate, NextDateIsTheNextLine, Answered
<1>7. file # <<>>
  BY <1>1, <1>3, FileFacts
<1>8. QED BY <1>2, <1>4, <1>5, <1>6, <1>7 DEF IInv

LEMMA InitInv == Init => IInv
<1> SUFFICES ASSUME Init PROVE IInv
  OBVIOUS
<1>1. /\ file \in Files /\ Len(file) \in Nat /\ position = 1
      /\ \A i \in 1 .. Len(file) : file[i] \in Int
  BY FileFacts DEF Init
<1>2. current \in DateValues /\ next \in DateValues
  BY <1>1, LineType, InfinityAssumption DEF Init, zero, Zero, DateValues
<1>3. Min({1, Len(file)}) = IF Len(file) = 0 THEN 0 ELSE 1
  <2> DEFINE S == {1, Len(file)}
             m == IF Len(file) = 0 THEN 0 ELSE 1
  <2>1. S \in SUBSET Int /\ m \in S /\ \A y \in S : m <= y
    BY <1>1
  <2> HIDE DEF m
  <2>2. Min(S) = m
    <3> HIDE DEF S
    <3>1. QED BY <2>1, MinIs
  <2>3. QED BY <2>2 DEF m
<1>4. date2position = Index(file, IF Len(file) = 0 THEN 0 ELSE 1)
  BY <1>3 DEF Init
<1>5. ReadToTheEnd \/ BeforeTheFirstLine
  <2>1. CASE Len(file) < 2
    BY <2>1, <1>1, <1>4 DEF ReadToTheEnd
  <2>2. CASE Len(file) >= 2
    <3>1. next.date = file[1]
      BY <2>2, <1>1 DEF Init, read_next_line
    <3>2. QED BY <2>2, <3>1, <1>1, <1>4 DEF BeforeTheFirstLine
  <2>3. QED BY <2>1, <2>2, <1>1
<1>6. CurrentLineCoversTheDate /\ NextDateIsTheNextLine
  BY InfinityAssumption DEF CurrentLineCoversTheDate, NextDateIsTheNextLine, Answered, Init
<1>7. has_more_values \in BOOLEAN /\ thrown \in BOOLEAN
  <2>1. has_more_values = (Len(file) > 0) /\ thrown = FALSE
    BY DEF Init
  <2>2. (Len(file) > 0) \in BOOLEAN
    OBVIOUS
  <2>3. QED BY <2>1, <2>2
<1>8. (IF Len(file) = 0 THEN 0 ELSE 1) \in 0 .. Len(file) /\ position \in 1 .. Len(file) + 1
  BY <1>1
<1>9. file = <<>> => eof
  <2>1. has_more_values = (Len(file) > 0)
    BY DEF Init
  <2>2. file = <<>> => ~(Len(file) > 0)
    BY <1>1, FileFacts
  <2>3. QED BY <2>1, <2>2 DEF eof
<1>10. QED BY <1>1, <1>2, <1>4, <1>5, <1>6, <1>7, <1>8, <1>9 DEF IInv

LEMMA Unchanged ==
  ASSUME IInv, UNCHANGED vars
  PROVE  IInv'
BY DEF IInv, vars, ReadToTheEnd, BeforeTheFirstLine, Answered, eof,
   CurrentLineCoversTheDate, NextDateIsTheNextLine

LEMMA Invariance == Spec => []IInv
<1>1. IInv /\ [Next]_vars => IInv'
  <2> SUFFICES ASSUME IInv, [Next]_vars PROVE IInv'
    OBVIOUS
  <2>1. ASSUME NEW t \in Dates, get_values(t) PROVE IInv'
    BY <2>1, GetValuesInv, DatesAssumption
  <2>2. ASSUME NEW t \in Dates, refuse(t) PROVE IInv'
    BY <2>2, RefuseInv, DatesAssumption
  <2>3. CASE UNCHANGED vars
    BY <2>3, Unchanged
  <2>4. QED BY <2>1, <2>2, <2>3 DEF Next
<1>2. QED BY <1>1, InitInv, PTL DEF Spec

-----------------------------------------------------------------------------
(* The theorems *)

\* The stream stays within the file and the index points at lines with its dates,
\* also where a line was refused.
THEOREM IndexPointsAtItsDates == Spec => []TypeOK
<1>1. IInv => TypeOK
  <2> SUFFICES ASSUME IInv PROVE TypeOK
    OBVIOUS
  <2>1. PICK n \in 0 .. Len(file) : date2position = Index(file, n)
    BY DEF IInv
  <2>2. file \in Files /\ file \in Seq(Int)
    BY FileFacts DEF IInv
  <2>3. \A d \in DOMAIN date2position : file[date2position[d]] = d
    <3>1. /\ DOMAIN Index(file, n) = {file[i] : i \in 1 .. n}
          /\ \A i \in 1 .. n : file[Index(file, n)[file[i]]] = file[i]
      BY <2>2, IndexFacts
    <3>2. QED BY <2>1, <3>1
  <2>4. QED BY <2>3 DEF IInv, TypeOK
<1>2. QED BY <1>1, Invariance, PTL

\* Whatever was asked before, for any file, the commands are those of the first
\* line of the last date not after the one that is asked for.
THEOREM AnswersCover == Spec => []CurrentLineCoversTheDate
<1>1. IInv => CurrentLineCoversTheDate
  BY DEF IInv
<1>2. QED BY <1>1, Invariance, PTL

\* Whatever was asked before, for any file with increasing dates, the reader
\* announces the first date after the one asked for, and its end when there is none.
THEOREM AnnouncesTheNextLine == Spec => []NextDateIsTheNextLine
<1>1. IInv => NextDateIsTheNextLine
  BY DEF IInv
<1>2. QED BY <1>1, Invariance, PTL

-----------------------------------------------------------------------------
(* The controller *)

ExactArithmetic == \A x \in Int : fl(x) = x

LEMMA ExactShift ==
  ASSUME ExactArithmetic, NEW x \in Int, NEW y \in Int, NEW z \in Int
  PROVE  fl(fl(x - y) + z) = x - y + z
<1> DEFINE d == x - y
<1>1. d \in Int /\ d + z \in Int
  OBVIOUS
<1> HIDE DEF d
<1>2. fl(d) = d
  BY <1>1 DEF ExactArithmetic
<1>3. fl(fl(d) + z) = d + z
  BY <1>1, <1>2 DEF ExactArithmetic
<1>4. QED BY <1>3 DEF d

\* What holds between two calls: the lines up to the command's have come, and the
\* controller sleeps no longer than until the next one.
Sleeps ==
  got_tstart /\ ~thrown /\ Increasing /\ file # <<>> =>
    /\ command \in 0 .. Len(file)
    /\ \A i \in 1 .. command : EffectiveDate(i) <= now
    /\ \A i \in command + 1 .. Len(file) : scheduled <= EffectiveDate(i)

\* The scheduler does not run past a call, and the first one is made at the start.
Scheduling ==
  /\ shift_time_column \in BOOLEAN /\ got_tstart \in BOOLEAN
  /\ now \in Int /\ now < Infinity /\ scheduled \in Int
  /\ IF got_tstart THEN tstart \in Starts /\ tstart <= now
                   ELSE now \in Starts /\ scheduled = now
  /\ ~thrown => now <= scheduled

ControllerInv == IInv /\ Scheduling /\ Sleeps /\ CalledAgainWhileValuesRemain

-----------------------------------------------------------------------------
(* Dates of the simulation and dates of the file *)

\* A file that is not empty has a first date in the index, and when it is in order
\* that is the first of the file.
InitialDateIsKnown ==
  IInv /\ ~thrown /\ file # <<>> =>
    /\ get_initial_date \in Int /\ -Infinity < get_initial_date
    /\ Increasing => get_initial_date = file[1]

LEMMA InitialDate == InitialDateIsKnown
<1> SUFFICES ASSUME IInv, ~thrown, file # <<>>
             PROVE  /\ get_initial_date \in Int /\ -Infinity < get_initial_date
                    /\ Increasing => get_initial_date = file[1]
  BY DEF InitialDateIsKnown
<1>1. /\ file \in Files /\ file \in Seq(Int) /\ Len(file) \in Nat \ {0}
      /\ \A i \in 1 .. Len(file) : file[i] \in Int /\ -Infinity < file[i]
  <2>1. file \in Files
    BY DEF IInv
  <2>2. QED BY <2>1, FileFacts
<1>2. PICK n \in 1 .. Len(file) : date2position = Index(file, n)
  <2>1. CASE ReadToTheEnd
    <3>1. Len(file) \in 1 .. Len(file)
      BY <1>1
    <3>2. QED BY <3>1, <2>1 DEF ReadToTheEnd
  <2>2. CASE BeforeTheFirstLine
    <3>1. 1 \in 1 .. Len(file)
      BY <1>1
    <3>2. QED BY <3>1, <2>2 DEF BeforeTheFirstLine
  <2>3. QED BY <2>1, <2>2 DEF IInv
<1> DEFINE dates == DOMAIN date2position
<1>3. dates = {file[i] : i \in 1 .. n} /\ 1 \in 1 .. n
  <2>1. n \in 0 .. Len(file) /\ 1 \in 1 .. n
    BY <1>1
  <2>2. QED BY <2>1, <1>1, <1>2, IndexFacts
<1>4. dates \in SUBSET Int /\ file[1] \in dates /\ \A d \in dates : -Infinity < d
  BY <1>1, <1>3
<1>5. get_initial_date \in dates
  <2>1. -Infinity \in Int /\ dates # {} /\ \A d \in dates : -Infinity <= d
    BY <1>4, InfinityAssumption
  <2> HIDE DEF dates
  <2>2. Min(dates) \in dates
    BY <2>1, <1>4, LeastInt
  <2>3. QED BY <2>2 DEF dates, get_initial_date
<1>6. ASSUME Increasing PROVE get_initial_date = file[1]
  <2>1. \A i \in 1 .. n : file[1] <= file[i]
    <3>1. ASSUME NEW i \in 1 .. n, i # 1 PROVE file[1] < file[i]
      <4>1. 1 \in 1 .. Len(file) /\ i \in 1 .. Len(file) /\ 1 < i
        BY <3>1, <1>1
      <4>2. \A j \in 2 .. Len(file) : file[j - 1] < file[j]
        BY <1>6 DEF Increasing
      <4>3. QED BY <4>1, <4>2, <1>1, FromLineToLine
    <3>2. QED BY <3>1, <1>1
  <2>2. \A d \in dates : file[1] <= d
    BY <2>1, <1>3
  <2> HIDE DEF dates
  <2>3. Min(dates) = file[1]
    BY <2>2, <1>4, MinIs
  <2>4. QED BY <2>3 DEF dates, get_initial_date
<1>7. QED BY <1>4, <1>5, <1>6

LEMMA InitialDateAfter == InitialDateIsKnown'
BY InitialDate, PTL

-----------------------------------------------------------------------------
(* The steps *)

\* The dates of a call: of its first one, and the one it looks up.
LEMMA CallDates ==
  ASSUME ExactArithmetic, ControllerInv, callback
  PROVE  /\ UNCHANGED <<file, shift_time_column, now, thrown>> /\ ~thrown
         /\ got_tstart' = TRUE /\ tstart' \in Starts /\ tstart' <= now
         /\ tstart' \in Int /\ -Infinity < tstart' /\ now \in Int /\ now < Infinity
         /\ get_values(shift_time_if_necessary(now, tstart'))
<1>1. /\ UNCHANGED <<file, shift_time_column, now, thrown>> /\ ~thrown
      /\ got_tstart' = TRUE /\ tstart' = IF got_tstart THEN tstart ELSE now
      /\ get_values(shift_time_if_necessary(now, tstart'))
  BY DEF callback, get_values, initialize_tstart_on_first_call
<1>2. tstart' \in Starts /\ tstart' <= now /\ now \in Int /\ now < Infinity
  BY <1>1, StartsAssumption DEF ControllerInv, Scheduling
<1>3. tstart' \in Int /\ -Infinity < tstart'
  BY <1>2, StartsAssumption
<1>4. QED BY <1>1, <1>2, <1>3

\* The date looked up in a file that has lines is that of the simulation, counted
\* from the first of the file when the time column is shifted.
LEMMA AskedDate ==
  ASSUME ExactArithmetic, ControllerInv, callback, file # <<>>
  PROVE  /\ requested' = IF shift_time_column THEN now - tstart' + get_initial_date
                         ELSE now
         /\ requested' \in Int /\ -Infinity < requested' /\ IInv'
<1>1. get_initial_date \in Int /\ -Infinity < get_initial_date
  BY CallDates, InitialDate DEF InitialDateIsKnown, ControllerInv
<1> DEFINE asked == shift_time_if_necessary(now, tstart')
<1>2. asked = IF shift_time_column THEN now - tstart' + get_initial_date ELSE now
  <2>1. fl(fl(now - tstart') + get_initial_date) = now - tstart' + get_initial_date
    BY <1>1, CallDates, ExactShift
  <2>2. QED BY <2>1 DEF shift_time_if_necessary
<1>3. asked \in Int /\ -Infinity < asked
  BY <1>1, <1>2, CallDates, InfinityAssumption
<1>4. get_values(asked) /\ IInv
  BY CallDates DEF ControllerInv
<1>5. requested' = asked
  BY <1>4 DEF get_values
<1> HIDE DEF asked
<1>6. IInv'
  BY <1>3, <1>4, GetValuesInv
<1>7. QED BY <1>2, <1>3, <1>5, <1>6

\* The date of the next call.
LEMMA NextCall ==
  ASSUME ExactArithmetic, ControllerInv, callback
  PROVE  LET date == get_date_of_next_update(now)'
         IN /\ IInv' /\ date \in Int
            /\ eof' => date = now
            /\ ~eof' => /\ file # <<>>
                        /\ date = IF shift_time_column
                                  THEN next'.date - get_initial_date' + tstart'
                                  ELSE next'.date
            /\ scheduled' = IF date > now THEN date ELSE Infinity
<1> DEFINE date == get_date_of_next_update(now)'
<1>1. scheduled' = IF date > now THEN date ELSE Infinity
  BY DEF callback
<1>2. IInv'
  <2>1. CASE file = <<>>
    BY <2>1, CallDates, AnswerFromNothing DEF ControllerInv
  <2>2. QED BY <2>1, AskedDate
<1>3. CASE eof'
  BY <1>1, <1>2, <1>3, CallDates DEF get_date_of_next_update
<1>4. CASE ~eof'
  <2>1. file # <<>> /\ file' = file
    BY <1>2, <1>4, CallDates DEF IInv
  <2>2. get_initial_date' \in Int /\ next'.date \in Int
    <3>1. ~thrown' /\ file' # <<>>
      BY <2>1, CallDates
    <3>2. next' \in DateValues
      BY <1>2 DEF IInv
    <3>3. QED BY <1>2, <3>1, <3>2, InitialDateAfter DEF InitialDateIsKnown, DateValues
  <2>3. fl(fl(next'.date - get_initial_date') + tstart')
          = next'.date - get_initial_date' + tstart'
    BY <2>2, CallDates, ExactShift
  <2>4. date = IF shift_time_column THEN next'.date - get_initial_date' + tstart'
               ELSE next'.date
    BY <1>4, <2>3, CallDates DEF get_date_of_next_update
  <2>5. QED BY <1>1, <1>2, <1>4, <2>1, <2>2, <2>4, CallDates
<1>5. QED BY <1>3, <1>4

\* The line that the reader finds for a call is the last whose date has come.
LEMMA LineFound ==
  ASSUME ExactArithmetic, ControllerInv, callback, Increasing, file # <<>>
  PROVE  /\ current'.line \in 0 .. Len(file)
         /\ \A i \in 1 .. Len(file) : file[i] <= requested' <=> i <= current'.line
<1> DEFINE n == Len(file)
           past == {i \in 1 .. n : file[i] <= requested'}
           c == current'.line
<1>1. /\ file \in Files /\ file \in Seq(Int) /\ n \in Nat
      /\ \A i \in 1 .. n : file[i] \in Int
  <2>1. file \in Files
    BY DEF ControllerInv, IInv
  <2>2. QED BY <2>1, FileFacts
<1>2. \A i, j \in 1 .. n : i < j => file[i] < file[j]
  <2>1. \A i \in 2 .. Len(file) : file[i - 1] < file[i]
    BY DEF Increasing
  <2>2. QED BY <2>1, <1>1, FromLineToLine
<1>3. requested' \in Int /\ Answered' /\ file' = file
  BY AskedDate, CallDates DEF Answered
<1>4. IF past = {} THEN c = Zero
      ELSE /\ c \in past
           /\ \A i \in past : \/ file[i] < file[c]
                              \/ file[i] = file[c] /\ c <= i
  <2>1. \A i \in 1 .. n : file[1] <= file[i]
    <3>1. ASSUME NEW i \in 1 .. n, i # 1 PROVE file[1] < file[i]
      <4>1. 1 \in 1 .. n /\ 1 < i
        BY <3>1, <1>1
      <4>2. QED BY <4>1, <1>2
    <3>2. QED BY <3>1, <1>1
  <2>2. CurrentLineCoversTheDate'
    BY AskedDate DEF IInv
  <2>3. QED BY <2>1, <2>2, <1>3 DEF CurrentLineCoversTheDate
<1> HIDE DEF c
<1>5. CASE past = {}
  <2>1. c = 0
    BY <1>4, <1>5 DEF Zero
  <2>2. \A i \in 1 .. n : ~(file[i] <= requested') /\ ~(i <= 0)
    BY <1>5, <1>1
  <2>3. QED BY <2>1, <2>2, <1>1 DEF c
<1>6. CASE past # {}
  <2>1. c \in 1 .. n /\ file[c] <= requested'
    BY <1>4, <1>6
  <2>2. ASSUME NEW i \in 1 .. n PROVE file[i] <= requested' <=> i <= c
    <3>1. ASSUME i <= c PROVE file[i] <= requested'
      <4>1. i = c \/ file[i] < file[c]
        BY <3>1, <2>1, <1>1, <1>2
      <4>2. QED BY <4>1, <2>1, <1>1, <1>3
    <3>2. ASSUME file[i] <= requested', ~(i <= c) PROVE FALSE
      <4>1. file[c] < file[i]
        BY <3>2, <2>1, <1>1, <1>2
      <4>2. i \in past
        BY <3>2
      <4>3. file[i] < file[c] \/ file[i] = file[c]
        BY <4>2, <1>4, <1>6
      <4>4. QED BY <4>1, <4>3, <2>1, <1>1
    <3>3. QED BY <3>1, <3>2
  <2>3. QED BY <2>1, <2>2, <1>1 DEF c
<1>7. QED BY <1>5, <1>6

\* A line's date has come in the simulation when it has come in the file.
LEMMA EffectiveDates ==
  ASSUME ExactArithmetic, ControllerInv, callback, Increasing, file # <<>>,
         NEW i \in 1 .. Len(file)
  PROVE  /\ EffectiveDate(i)' = IF shift_time_column THEN file[i] - file[1] + tstart'
                                ELSE file[i]
         /\ EffectiveDate(i)' \in Int /\ EffectiveDate(i)' < Infinity
         /\ EffectiveDate(i)' <= now <=> file[i] <= requested'
<1>1. /\ file \in Files /\ Len(file) \in Nat /\ 1 \in 1 .. Len(file)
      /\ \A k \in 1 .. Len(file) : file[k] \in Int /\ file[k] < Infinity
  <2>1. file \in Files
    BY DEF ControllerInv, IInv
  <2>2. QED BY <2>1, FileFacts
<1>2. EffectiveDate(i)' = IF shift_time_column THEN file[i] - file[1] + tstart'
                          ELSE file[i]
  BY CallDates DEF EffectiveDate
<1>3. file[i] - file[1] + tstart' < Infinity
  BY <1>1, CallDates, ShiftAssumption
<1>4. get_initial_date = file[1]
  BY CallDates, InitialDate DEF InitialDateIsKnown, ControllerInv
<1>5. requested' = IF shift_time_column THEN now - tstart' + file[1] ELSE now
  BY <1>4, AskedDate
<1>6. file[i] \in Int /\ file[1] \in Int /\ file[i] < Infinity
  BY <1>1
<1>7. tstart' \in Int /\ now \in Int
  BY CallDates
<1>8. QED BY <1>2, <1>3, <1>5, <1>6, <1>7

\* What a call leaves for the time until the next one.
LEMMA AfterACall ==
  ASSUME ExactArithmetic, ControllerInv, callback
  PROVE  Sleeps' /\ CalledAgainWhileValuesRemain'
<1> DEFINE n == Len(file)
           c == current'.line
           date == get_date_of_next_update(now)'
<1>1. CASE file = <<>>
  <2>1. eof' /\ file' = <<>>
    BY <1>1, CallDates, NextCall DEF IInv
  <2>2. QED BY <2>1 DEF Sleeps, CalledAgainWhileValuesRemain
<1>2. CASE ~Increasing
  BY <1>2, CallDates DEF Sleeps, CalledAgainWhileValuesRemain, Increasing
<1>3. CASE file # <<>> /\ Increasing
  <2>1. /\ file \in Files /\ n \in Nat
        /\ \A i \in 1 .. n : file[i] \in Int
    <3>1. file \in Files
      BY DEF ControllerInv, IInv
    <3>2. QED BY <3>1, FileFacts
  <2>2. c \in 0 .. n /\ \A i \in 1 .. n : file[i] <= requested' <=> i <= c
    BY <1>3, LineFound
  <2>3. command' = c
    <3>1. c # Empty
      BY <2>1, <2>2 DEF Empty
    <3>2. QED BY <3>1 DEF callback
  <2> HIDE DEF c
  <2>4. \A i \in 1 .. n : /\ EffectiveDate(i)' = IF shift_time_column
                                                  THEN file[i] - file[1] + tstart'
                                                  ELSE file[i]
                          /\ EffectiveDate(i)' \in Int /\ EffectiveDate(i)' < Infinity
                          /\ EffectiveDate(i)' <= now <=> file[i] <= requested'
    BY <1>3, EffectiveDates
  <2>5. requested' \in Int /\ Answered' /\ file' = file /\ NextDateIsTheNextLine'
    BY <1>3, AskedDate, CallDates DEF Answered, IInv
  <2> DEFINE future == {file[i] : i \in {j \in 1 .. n : file[j] > requested'}}
  <2>6. eof' <=> future = {}
    <3>1. \A i \in 2 .. Len(file) : file[i - 1] < file[i]
      BY <1>3 DEF Increasing
    <3>2. QED BY <3>1, <2>5, <1>3 DEF NextDateIsTheNextLine
  <2>7. future # {} => next'.date = Min(future)
    <3>1. \A i \in 2 .. Len(file) : file[i - 1] < file[i]
      BY <1>3 DEF Increasing
    <3>2. QED BY <3>1, <2>5, <1>3 DEF NextDateIsTheNextLine
  <2>8. \A i \in 1 .. c : EffectiveDate(i)' <= now
    BY <2>1, <2>2, <2>4
  <2>9. CASE eof'
    <3>1. \A i \in c + 1 .. n : FALSE
      <4>1. SUFFICES ASSUME NEW i \in c + 1 .. n PROVE FALSE
        OBVIOUS
      <4>2. i \in 1 .. n /\ ~(i <= c)
        BY <2>1, <2>2
      <4>3. file[i] > requested'
        BY <4>2, <2>1, <2>2, <2>5
      <4>4. file[i] \in future
        BY <4>2, <4>3
      <4>5. QED BY <4>4, <2>6, <2>9
    <3>2. QED BY <3>1, <2>2, <2>3, <2>5, <2>8, <2>9, CallDates
               DEF Sleeps, CalledAgainWhileValuesRemain
  <2>10. CASE ~eof'
    <3>1. Min(future) \in future /\ \A d \in future : Min(future) <= d
      <4>1. future \in SUBSET Int /\ future # {} /\ \A d \in future : requested' <= d
        BY <2>1, <2>5, <2>6, <2>10
      <4> HIDE DEF future
      <4>2. QED BY <4>1, <2>5, LeastInt
    <3>2. PICK k \in 1 .. n : file[k] > requested' /\ next'.date = file[k]
      <4>1. next'.date = Min(future)
        BY <2>6, <2>7, <2>10
      <4>2. QED BY <3>1, <4>1
    <3>3. \A i \in c + 1 .. n : i \in 1 .. n /\ file[k] <= file[i]
      <4>1. SUFFICES ASSUME NEW i \in c + 1 .. n PROVE i \in 1 .. n /\ file[k] <= file[i]
        OBVIOUS
      <4>2. i \in 1 .. n /\ ~(i <= c)
        BY <2>1, <2>2
      <4>3. file[i] > requested'
        BY <4>2, <2>1, <2>2, <2>5
      <4>4. file[i] \in future
        BY <4>2, <4>3
      <4>5. next'.date = Min(future)
        BY <2>6, <2>7, <2>10
      <4>6. QED BY <4>2, <4>4, <4>5, <3>1, <3>2
    <3> HIDE DEF future
    <3>4. date = EffectiveDate(k)'
      <4>1. Increasing' /\ ~thrown' /\ file' # <<>> /\ IInv'
        BY <1>3, <2>5, CallDates, AskedDate DEF Increasing
      <4>2. get_initial_date' = file[1]
        BY <4>1, <2>5, InitialDateAfter DEF InitialDateIsKnown
      <4>3. QED BY <4>2, <3>2, <2>4, <2>10, NextCall
    <3> HIDE DEF date
    <3>5. date > now /\ date < Infinity /\ date \in Int
      <4>1. ~(file[k] <= requested')
        BY <3>2, <2>1, <2>5
      <4>2. QED BY <4>1, <3>4, <2>4, CallDates
    <3>6. scheduled' = date
      BY <3>5, NextCall DEF date
    <3>7. \A i \in c + 1 .. n : scheduled' <= EffectiveDate(i)'
      <4>1. SUFFICES ASSUME NEW i \in c + 1 .. n PROVE date <= EffectiveDate(i)'
        BY <3>6
      <4>2. i \in 1 .. n /\ 1 \in 1 .. n /\ file[k] <= file[i]
        BY <3>3, <2>1
      <4>3. QED BY <4>2, <3>4, <2>1, <2>4, CallDates, SMTT(40)
    <3>8. scheduled' # Infinity
      BY <3>5, <3>6, InfinityAssumption
    <3>9. QED BY <3>7, <3>8, <2>2, <2>3, <2>5, <2>8, CallDates
               DEF Sleeps, CalledAgainWhileValuesRemain
  <2>11. QED BY <2>9, <2>10
<1>4. QED BY <1>1, <1>2, <1>3

LEMMA CallbackInv ==
  ASSUME ExactArithmetic, ControllerInv, callback
  PROVE  ControllerInv'
<1> DEFINE date == get_date_of_next_update(now)'
<1>1. date \in Int /\ scheduled' = IF date > now THEN date ELSE Infinity
  BY NextCall
<1> HIDE DEF date
<1>2. scheduled' \in Int /\ now <= scheduled'
  BY <1>1, CallDates, InfinityAssumption
<1>3. Scheduling'
  BY <1>2, CallDates DEF Scheduling, ControllerInv
<1>4. QED BY <1>3, NextCall, AfterACall DEF ControllerInv

LEMMA ThrowsInv ==
  ASSUME ControllerInv, callback_throws
  PROVE  ControllerInv'
<1>1. /\ UNCHANGED <<shift_time_column, now, scheduled, command>> /\ got_tstart' = TRUE
      /\ tstart' = IF got_tstart THEN tstart ELSE now
  BY DEF callback_throws, initialize_tstart_on_first_call
<1>2. thrown' = TRUE
  BY DEF callback_throws, refuse
<1>3. IInv'
  <2>1. CASE NoInitialDate
    <3>1. UNCHANGED <<file, position, current, next, has_more_values, date2position,
                      requested>>
      BY <2>1 DEF callback_throws
    <3>2. CurrentLineCoversTheDate' /\ NextDateIsTheNextLine'
      BY <1>2 DEF CurrentLineCoversTheDate, NextDateIsTheNextLine, Answered
    <3>3. QED BY <3>1, <3>2, <1>2 DEF ControllerInv, IInv, eof
  <2>2. CASE ~NoInitialDate
    <3>1. refuse(shift_time_if_necessary(now, tstart'))
      BY <2>2 DEF callback_throws
    <3>2. QED BY <3>1, RefuseInv DEF ControllerInv
  <2>3. QED BY <2>1, <2>2
<1>4. tstart' \in Starts /\ tstart' <= now /\ Scheduling
  BY <1>1, StartsAssumption DEF ControllerInv, Scheduling
<1>5. Scheduling'
  BY <1>1, <1>2, <1>4 DEF Scheduling
<1>6. Sleeps' /\ CalledAgainWhileValuesRemain'
  BY <1>2 DEF Sleeps, CalledAgainWhileValuesRemain
<1>7. QED BY <1>3, <1>5, <1>6 DEF ControllerInv

LEMMA AdvanceInv ==
  ASSUME ControllerInv, advance
  PROVE  ControllerInv'
<1>1. PICK t \in now + 1 .. Tend : t <= scheduled /\ now' = t
  BY DEF advance
<1>2. UNCHANGED <<vars, shift_time_column, tstart, got_tstart, scheduled, command>>
      /\ ~thrown
  BY DEF advance
<1>3. /\ now \in Int /\ now' \in Int /\ now < now' /\ now' <= scheduled
      /\ now' < Infinity /\ got_tstart
  BY <1>1, <1>2, StartsAssumption, InfinityAssumption DEF ControllerInv, Scheduling
<1>4. IInv'
  BY <1>2, Unchanged DEF ControllerInv
<1>5. Scheduling'
  <2>1. tstart \in Starts /\ tstart <= now /\ tstart \in Int
    BY <1>3, StartsAssumption DEF ControllerInv, Scheduling
  <2>2. tstart <= now'
    BY <2>1, <1>3
  <2>3. QED BY <2>1, <2>2, <1>2, <1>3 DEF ControllerInv, Scheduling, vars
<1>6. Sleeps'
  <2> SUFFICES ASSUME got_tstart, Increasing, file # <<>>
               PROVE  /\ command \in 0 .. Len(file)
                      /\ \A i \in 1 .. command : EffectiveDate(i)' <= now'
                      /\ \A i \in command + 1 .. Len(file) : scheduled <= EffectiveDate(i)'
    BY <1>2 DEF Sleeps, vars, Increasing
  <2>1. /\ file \in Files /\ Len(file) \in Nat /\ 1 \in 1 .. Len(file)
        /\ \A k \in 1 .. Len(file) : file[k] \in Int
    <3>1. file \in Files
      BY DEF ControllerInv, IInv
    <3>2. QED BY <3>1, FileFacts
  <2>2. /\ command \in 0 .. Len(file)
        /\ \A i \in 1 .. command : EffectiveDate(i) <= now
        /\ \A i \in command + 1 .. Len(file) : scheduled <= EffectiveDate(i)
    BY <1>2 DEF ControllerInv, Sleeps
  <2>3. \A i \in 1 .. Len(file) : EffectiveDate(i)' = EffectiveDate(i)
    BY <1>2 DEF EffectiveDate, vars
  <2>4. tstart \in Int
    BY <1>3, StartsAssumption DEF ControllerInv, Scheduling
  <2>5. \A i \in 1 .. Len(file) : EffectiveDate(i) \in Int
    BY <2>1, <2>4 DEF EffectiveDate
  <2>6. /\ \A i \in 1 .. command : i \in 1 .. Len(file)
        /\ \A i \in command + 1 .. Len(file) : i \in 1 .. Len(file)
    BY <2>1, <2>2
  <2>7. QED BY <2>2, <2>3, <2>5, <2>6, <1>3
<1>7. CalledAgainWhileValuesRemain'
  BY <1>2 DEF ControllerInv, CalledAgainWhileValuesRemain, vars, Increasing, eof
<1>8. QED BY <1>4, <1>5, <1>6, <1>7 DEF ControllerInv

LEMMA ControllerInvariance ==
  ASSUME ExactArithmetic
  PROVE  ControllerSpec => []ControllerInv
<1>1. ControllerInit => ControllerInv
  <2> SUFFICES ASSUME ControllerInit PROVE ControllerInv
    OBVIOUS
  <2>1. IInv
    BY InitInv DEF ControllerInit
  <2>2. Scheduling
    <3>1. /\ shift_time_column \in BOOLEAN /\ now \in Starts
          /\ ~got_tstart /\ got_tstart \in BOOLEAN /\ scheduled = now
      BY DEF ControllerInit
    <3>2. now \in Int /\ now < Infinity
      BY <3>1, StartsAssumption
    <3>3. QED BY <3>1, <3>2 DEF Scheduling
  <2>3. Sleeps /\ CalledAgainWhileValuesRemain
    BY DEF ControllerInit, Sleeps, CalledAgainWhileValuesRemain
  <2>4. QED BY <2>1, <2>2, <2>3 DEF ControllerInv
<1>2. ControllerInv /\ [ControllerNext]_<<vars, controller>> => ControllerInv'
  <2> SUFFICES ASSUME ControllerInv, [ControllerNext]_<<vars, controller>>
               PROVE  ControllerInv'
    OBVIOUS
  <2>1. CASE callback
    BY <2>1, CallbackInv
  <2>2. CASE callback_throws
    BY <2>2, ThrowsInv
  <2>3. CASE advance
    BY <2>3, AdvanceInv
  <2>4. CASE UNCHANGED <<vars, controller>>
    <3>1. IInv'
      BY <2>4, Unchanged DEF ControllerInv
    <3>2. Scheduling' /\ Sleeps' /\ CalledAgainWhileValuesRemain'
      BY <2>4 DEF ControllerInv, Scheduling, Sleeps, CalledAgainWhileValuesRemain,
         EffectiveDate, Increasing, eof, vars, controller
    <3>3. QED BY <3>1, <3>2 DEF ControllerInv
  <2>5. QED BY <2>1, <2>2, <2>3, <2>4 DEF ControllerNext
<1>3. QED BY <1>1, <1>2, PTL DEF ControllerSpec

-----------------------------------------------------------------------------
(* The theorems *)

\* Without rounding, whatever steps the solver takes, the commands are those of the
\* last line whose date has come, and no line is applied early, late or twice.
THEOREM CommandsFollow ==
  ASSUME ExactArithmetic
  PROVE  ControllerSpec => []CommandsFollowTheFile
<1>1. ControllerInv => CommandsFollowTheFile
  <2> SUFFICES ASSUME ControllerInv, got_tstart, ~thrown, Increasing,
                      scheduled # now, file # <<>>
               PROVE  command = Max({0} \cup {i \in 1 .. Len(file) : EffectiveDate(i) <= now})
    BY DEF CommandsFollowTheFile
  <2> DEFINE n == Len(file)
             come == {0} \cup {i \in 1 .. n : EffectiveDate(i) <= now}
  <2>1. /\ file \in Files /\ n \in Nat /\ 1 \in 1 .. n
        /\ \A i \in 1 .. n : file[i] \in Int
    <3>1. file \in Files
      BY DEF ControllerInv, IInv
    <3>2. QED BY <3>1, FileFacts
  <2>2. /\ command \in 0 .. n
        /\ \A i \in 1 .. command : EffectiveDate(i) <= now
        /\ \A i \in command + 1 .. n : scheduled <= EffectiveDate(i)
    BY DEF ControllerInv, Sleeps
  <2>3. now \in Int /\ scheduled \in Int /\ now < scheduled /\ tstart \in Int
    <3>1. now \in Int /\ scheduled \in Int /\ now <= scheduled /\ tstart \in Starts
      BY DEF ControllerInv, Scheduling
    <3>2. QED BY <3>1, StartsAssumption
  <2>4. \A i \in 1 .. n : EffectiveDate(i) \in Int
    BY <2>1, <2>3 DEF EffectiveDate
  <2>5. command \in come
    <3>1. command = 0 \/ command \in 1 .. command
      BY <2>1, <2>2
    <3>2. QED BY <3>1, <2>1, <2>2
  <2>6. ASSUME NEW i \in come PROVE i <= command
    <3>1. SUFFICES ASSUME i \in 1 .. n, EffectiveDate(i) <= now, ~(i <= command)
                   PROVE  FALSE
      BY <2>1, <2>2
    <3>2. i \in command + 1 .. n
      BY <3>1, <2>1, <2>2
    <3>3. QED BY <3>1, <3>2, <2>2, <2>3, <2>4
  <2>7. come \in SUBSET Int /\ command \in Int
    BY <2>1, <2>2
  <2> HIDE DEF come
  <2>8. Max(come) \in come /\ \A i \in come : i <= Max(come)
    BY <2>5, <2>6, <2>7, GreatestInt
  <2>9. command = Max(come)
    <3>1. Max(come) \in Int /\ Max(come) <= command /\ command <= Max(come)
      BY <2>5, <2>6, <2>7, <2>8
    <3>2. QED BY <3>1, <2>7
  <2>10. QED BY <2>9 DEF come
<1>2. QED BY <1>1, ControllerInvariance, PTL

\* Without rounding, the controller goes to sleep for good only at the end of the
\* file. With it, it may not (the run csv_controller_rounded).
THEOREM CalledAgain ==
  ASSUME ExactArithmetic
  PROVE  ControllerSpec => []CalledAgainWhileValuesRemain
<1>1. ControllerInv => CalledAgainWhileValuesRemain
  BY DEF ControllerInv
<1>2. QED BY <1>1, ControllerInvariance, PTL
=============================================================================
