---------------------------- MODULE AlignedMerge ----------------------------
(***************************************************************************)
(* What a gate promises, without forwarders, buffers or replay: a merge of *)
(* its inputs in which checkpoint k is taken on all live inputs in one     *)
(* step.  at[i] elements of input i have passed, and log is what went out. *)
(***************************************************************************)
EXTENDS InputStreams, FiniteSets, FiniteSetsExt

VARIABLES stream, at, log

vars == <<stream, at, log>>

passedKind(i, n, kind) == {m \in 1..n : stream[i][m].kind = kind}

ended(i, n) == passedKind(i, n, "eos") # {}

(* The last watermark among the first n elements of input i. *)
timeOf(i, n) == Max({stream[i][m].val : m \in passedKind(i, n, "watermark")} \cup {MinTime})

(* The time below which no live input will send another record. *)
low(a) == Min({timeOf(i, a[i]) : i \in {j \in Inputs : ~ended(j, a[j])}} \cup {MaxTime})

lastTime == Max({log[m].val : m \in {k \in 1..Len(log) : log[k].kind = "watermark"}} \cup {MinTime})

next(i, n) == stream[i][n + 1]

After(i) == [at EXCEPT ![i] = @ + 1]

(* What passing one more element of input i sends downstream. *)
Output(i) ==
  LET e == next(i, at[i])
      rise == IF low(After(i)) > lastTime THEN <<Own("watermark", low(After(i)))>> ELSE << >>
      over == /\ \A j \in Inputs : ended(j, After(i)[j])
              /\ ~ended(i, at[i])
  IN IF e.kind = "record"
     THEN <<[input |-> i, pos |-> at[i] + 1, kind |-> "record", val |-> e.val]>>
     ELSE rise \o (IF over THEN <<Own("eos", 0)>> ELSE << >>)

Live(a) == {i \in Inputs : ~ended(i, a[i])}

(* Every live input has reached barrier k. *)
AtCut(a, k) ==
  /\ Live(a) # {}
  /\ \A i \in Live(a) : /\ a[i] < Len(stream[i])
                       /\ next(i, a[i]).kind = "barrier"
                       /\ next(i, a[i]).val = k

Beyond(a) == [i \in Inputs |-> IF i \in Live(a) THEN a[i] + 1 ELSE a[i]]

-----------------------------------------------------------------------------
Init ==
  /\ stream \in [Inputs -> Streams]
  /\ at = [i \in Inputs |-> 0]
  /\ log = << >>

Pass(i) ==
  /\ at[i] < Len(stream[i])
  /\ next(i, at[i]).kind # "barrier"
  /\ at' = After(i)
  /\ log' = log \o Output(i)
  /\ UNCHANGED stream

Cut(k) ==
  /\ AtCut(at, k)
  /\ at' = Beyond(at)
  /\ log' = Append(log, Own("barrier", k))
  /\ UNCHANGED stream

(* The end of input i was all that checkpoint k was waiting for. *)
EndThenCut(i, k) ==
  /\ at[i] < Len(stream[i])
  /\ next(i, at[i]).kind = "eos"
  /\ AtCut(After(i), k)
  /\ at' = Beyond(After(i))
  /\ log' = Append(log \o Output(i), Own("barrier", k))
  /\ UNCHANGED stream

Next ==
  \/ \E i \in Inputs : Pass(i)
  \/ \E k \in {stream[i][at[i] + 1].val : i \in {j \in Inputs : at[j] < Len(stream[j])}} :
       Cut(k) \/ \E i \in Inputs : EndThenCut(i, k)

Spec == Init /\ [][Next]_vars
=============================================================================
