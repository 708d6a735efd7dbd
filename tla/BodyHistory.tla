---------------------------- MODULE BodyHistory ----------------------------
(***************************************************************************)
(* What the servers of xdyn do with the past of a body: each request brings *)
(* the states up to now, oldest first, which replace what the body had. A   *)
(* history maps the dates it holds to states; the dates of a request and of *)
(* the steps computed from it span less than the length Tmax of a history   *)
(* (what a full window does is in module History). Dates that are equal up  *)
(* to rounding are equal here.                                              *)
(***************************************************************************)
EXTENDS Integers, Sequences

Final(seq) == seq[Len(seq)]
AllButLast(seq) == SubSeq(seq, 1, Len(seq) - 1)

\* A seeded fault: a date that is there keeps its value.
Record_First(h, t, x) == [d \in DOMAIN h \cup {t} |-> IF d \in DOMAIN h THEN h[d] ELSE x]

\* History::record for one sample, and for a sequence of them: a sample at a
\* recorded date replaces the one there.
Record(h, t, x) == [d \in DOMAIN h \cup {t} |-> IF d = t THEN x ELSE h[d]]
Recording(samples) ==
  [d \in {samples[i].t : i \in 1 .. Len(samples)} |->
     samples[CHOOSE i \in 1 .. Len(samples) :
               /\ samples[i].t = d
               /\ \A j \in i + 1 .. Len(samples) : samples[j].t # d].x]
GoesBack(samples) ==
  \E j \in 1 .. Len(samples) : \E i \in 1 .. j - 1 : samples[j].t < samples[i].t

\* Commands of a request on top of the ones that are set.
Updated(old, new) ==
  [n \in DOMAIN old \cup DOMAIN new |-> IF n \in DOMAIN new THEN new[n] ELSE old[n]]
=============================================================================
