------------------------- MODULE AlignedMergeProofs -------------------------
(***************************************************************************)
(* Proofs about AlignedMerge: for every number of inputs and whatever      *)
(* well-formed streams they carry, what a merge that takes every barrier   *)
(* on all live inputs at once sends downstream is in the order of every    *)
(* input, is cut consistently by every barrier, makes no record late and   *)
(* is well-formed itself.                                                  *)
(*                                                                         *)
(* A step passes one element, or a cut, and may send two elements for it.  *)
(* So the invariant is an operator of the positions a and the log l, and   *)
(* each thing a step does has a lemma: what is passed, what is sent.       *)
(***************************************************************************)
EXTENDS AlignedMerge, DataLemmas

isAt(i, m, kind) == stream[i][m].kind = kind

(* Positions of the records of input i among the first n of l. *)
recordsOf(l, i, n) ==
  {l[b].pos : b \in {c \in 1..n : l[c].kind = "record" /\ l[c].input = i}}

recordsBefore(i, n) == {m \in 1..n-1 : isAt(i, m, "record")}

Well(a, l) ==
  /\ a \in [Inputs -> Nat] /\ \A i \in Inputs : a[i] <= Len(stream[i])
  /\ l \in Seq(Tagged(NumInputs))
  /\ \A n \in 1..Len(l) :
       /\ l[n].kind = "record" => l[n].input \in Inputs
       /\ l[n].kind # "record" => l[n] = Own(l[n].kind, l[n].val)

(* What has gone out of every input is what it sent, in that order. *)
InOrder(a, l) ==
  /\ \A n \in 1..Len(l) :
       l[n].kind = "record" => recordsOf(l, l[n].input, n - 1) = recordsBefore(l[n].input, l[n].pos)
  /\ \A i \in Inputs : recordsOf(l, i, Len(l)) = recordsBefore(i, a[i] + 1)

(* Barrier k of input i is at position n, or input i ended without one. *)
CutAt(i, k, l, n) ==
  \/ \E m \in 1..Len(stream[i]) :
       /\ isAt(i, m, "barrier") /\ stream[i][m].val = k
       /\ recordsOf(l, i, n) = recordsBefore(i, m)
  \/ /\ \A m \in 1..Len(stream[i]) : isAt(i, m, "barrier") => stream[i][m].val # k
     /\ \E m \in 1..Len(stream[i]) : isAt(i, m, "eos")
     /\ recordsOf(l, i, n) = recordsBefore(i, Len(stream[i]) + 1)

Cuts(l) ==
  \A n \in 1..Len(l) : l[n].kind = "barrier" => \A i \in Inputs : CutAt(i, l[n].val, l, n)

(* The checkpoints up to k have been taken, on every live input. *)
UpTo(a, l, k) ==
  /\ k >= RestoredID
  /\ \A n \in 1..Len(l) : l[n].kind = "barrier" => l[n].val > RestoredID /\ l[n].val <= k
  /\ \A v \in RestoredID+1..k : \E n \in 1..Len(l) : l[n].kind = "barrier" /\ l[n].val = v
  /\ \A i \in Inputs : \A m \in 1..a[i] : isAt(i, m, "barrier") => stream[i][m].val <= k
  /\ \A i \in Inputs : ~ended(i, a[i]) =>
       \A v \in RestoredID+1..k : \E m \in 1..a[i] : isAt(i, m, "barrier") /\ stream[i][m].val = v

(* Barriers go out in order, and whatever comes before barrier k, all the  *)
(* smaller ones do.                                                        *)
Numbered(l) ==
  \A n \in 1..Len(l) : l[n].kind = "barrier" =>
    /\ \A m \in 1..n-1 : l[m].kind = "barrier" => l[m].val < l[n].val
    /\ \A v \in RestoredID+1..l[n].val-1 : \E m \in 1..n-1 : l[m].kind = "barrier" /\ l[m].val = v

(* Input i has said that time w is over. *)
PastTime(a, i, w) ==
  ended(i, a[i]) \/ \E m \in 1..a[i] : isAt(i, m, "watermark") /\ stream[i][m].val >= w

Timely(a, l) ==
  \A n \in 1..Len(l) : l[n].kind = "watermark" =>
    /\ l[n].val \in Times /\ l[n].val > MinTime
    /\ \A m \in 1..n-1 : l[m].kind = "watermark" => l[m].val < l[n].val
    /\ \A i \in Inputs : PastTime(a, i, l[n].val)

NotLate(l) ==
  \A n, m \in 1..Len(l) :
    n < m /\ l[n].kind = "watermark" /\ l[m].kind = "record" =>
      \E p \in 1..l[m].pos-1 :
        isAt(l[m].input, p, "watermark") /\ stream[l[m].input][p].val >= l[n].val

EndsLast(a, l) ==
  \A n \in 1..Len(l) : l[n].kind = "eos" =>
    /\ n = Len(l)
    /\ \A i \in Inputs : ended(i, a[i])
    /\ \E m \in 1..n-1 : l[m] = Own("watermark", MaxTime)

Good(a, l) ==
  /\ Well(a, l)
  /\ InOrder(a, l)
  /\ Cuts(l)
  /\ \E k \in Nat : UpTo(a, l, k)
  /\ Numbered(l)
  /\ Timely(a, l)
  /\ NotLate(l)
  /\ EndsLast(a, l)

-----------------------------------------------------------------------------
(* The streams.                                                            *)

LEMMA EndedIff ==
  ASSUME NEW i, NEW n
  PROVE  ended(i, n) <=> \E m \in 1..n : isAt(i, m, "eos")
BY DEF ended, passedKind, isAt

LEMMA StreamElements ==
  ASSUME stream \in [Inputs -> Streams], NEW i \in Inputs
  PROVE  /\ stream[i] \in Seq(Element) /\ Len(stream[i]) \in Nat /\ WellFormed(stream[i])
         /\ \A m \in 1..Len(stream[i]) : stream[i][m] \in Element
BY StreamsAssumption

(* The next element is no record and no barrier: what counts records and   *)
(* barriers does not see it.                                               *)
LEMMA PassAdvances ==
  ASSUME stream \in [Inputs -> Streams], NEW a, NEW l, Good(a, l),
         NEW i \in Inputs, a[i] < Len(stream[i]),
         ~isAt(i, a[i] + 1, "record"), ~isAt(i, a[i] + 1, "barrier")
  PROVE  Good([a EXCEPT ![i] = @ + 1], l)
<1>. DEFINE b == [a EXCEPT ![i] = @ + 1]
<1>1. /\ a \in [Inputs -> Nat] /\ \A j \in Inputs : a[j] <= Len(stream[j])
      /\ l \in Seq(Tagged(NumInputs)) /\ Len(stream[i]) \in Nat
  BY StreamElements DEF Good, Well
<1>2. b \in [Inputs -> Nat] /\ b[i] = a[i] + 1 /\ \A j \in Inputs : j # i => b[j] = a[j]
  BY <1>1
<1>. HIDE DEF b
<1>3. Well(b, l)
  BY <1>1, <1>2, SMTT(30) DEF Good, Well
<1>4. InOrder(b, l)
  <2>1. recordsBefore(i, b[i] + 1) = recordsBefore(i, a[i] + 1)
    BY <1>1, <1>2 DEF recordsBefore
  <2>. QED
    BY <1>2, <2>1 DEF Good, InOrder
<1>5. \A j \in Inputs : /\ \A m \in 1..a[j] : m \in 1..b[j]
                        /\ \A m \in 1..b[j] : m \in 1..a[j] \/ (j = i /\ m = a[i] + 1)
  BY <1>1, <1>2
<1>6. \A j \in Inputs : ended(j, a[j]) => ended(j, b[j])
  BY <1>5, EndedIff
<1>7. \E k \in Nat : UpTo(b, l, k)
  <2>1. PICK k \in Nat : UpTo(a, l, k)
    BY DEF Good
  <2>2. \A j \in Inputs : \A m \in 1..b[j] : isAt(j, m, "barrier") => m \in 1..a[j]
    BY <1>5
  <2>3. UpTo(b, l, k)
    BY <1>5, <1>6, <2>1, <2>2 DEF UpTo
  <2>. QED
    BY <2>3
<1>8. Timely(b, l)
  BY <1>5, <1>6 DEF Good, Timely, PastTime
<1>9. EndsLast(b, l)
  BY <1>6 DEF Good, EndsLast
<1>. QED
  BY <1>3, <1>4, <1>7, <1>8, <1>9 DEF Good, b

-----------------------------------------------------------------------------
(* What is sent.                                                           *)

(* One more element at the end of a log. *)
LEMMA OneMore ==
  ASSUME NEW T, NEW l \in Seq(T), NEW e \in T
  PROVE  /\ Append(l, e) \in Seq(T) /\ Len(l) \in Nat /\ Len(Append(l, e)) = Len(l) + 1
         /\ \A n \in 1..Len(l) : n \in 1..Len(Append(l, e)) /\ Append(l, e)[n] = l[n]
         /\ Append(l, e)[Len(l) + 1] = e
         /\ \A n \in 1..Len(Append(l, e)) : n \in 1..Len(l) \/ n = Len(l) + 1
OBVIOUS

LEMMA OneMoreRecords ==
  ASSUME NEW l \in Seq(Tagged(NumInputs)), NEW e \in Tagged(NumInputs), NEW i
  PROVE  /\ \A n \in 0..Len(l) : recordsOf(Append(l, e), i, n) = recordsOf(l, i, n)
         /\ recordsOf(Append(l, e), i, Len(l) + 1)
              = recordsOf(l, i, Len(l)) \cup (IF e.kind = "record" /\ e.input = i THEN {e.pos} ELSE {})
<1>. DEFINE h == Append(l, e)
<1>1. /\ Len(l) \in Nat /\ h[Len(l) + 1] = e
      /\ \A n \in 1..Len(l) : h[n] = l[n]
  BY OneMore
<1>. HIDE DEF h
<1>2. ASSUME NEW n \in 0..Len(l) PROVE recordsOf(h, i, n) = recordsOf(l, i, n)
  <2>1. \A c \in 1..n : h[c] = l[c]
    BY <1>1
  <2>. QED
    BY <2>1 DEF recordsOf
<1>3. recordsOf(h, i, Len(l) + 1)
        = recordsOf(h, i, Len(l)) \cup (IF e.kind = "record" /\ e.input = i THEN {e.pos} ELSE {})
  <2>1. \A c : c \in 1..Len(l)+1 <=> c \in 1..Len(l) \/ c = Len(l) + 1
    BY <1>1
  <2>. QED
    BY <1>1, <2>1 DEF recordsOf
<1>4. Len(l) \in 0..Len(l)
  BY <1>1
<1>. QED
  BY <1>2, <1>3, <1>4 DEF h

LEMMA NoMoreRecords ==
  ASSUME NEW l \in Seq(Tagged(NumInputs)), NEW e \in Tagged(NumInputs), e.kind # "record", NEW i
  PROVE  /\ \A n \in 0..Len(l) : recordsOf(Append(l, e), i, n) = recordsOf(l, i, n)
         /\ recordsOf(Append(l, e), i, Len(l) + 1) = recordsOf(l, i, Len(l))
<1>1. (IF e.kind = "record" /\ e.input = i THEN {e.pos} ELSE {}) = {}
  OBVIOUS
<1>2. recordsOf(Append(l, e), i, Len(l) + 1) = recordsOf(l, i, Len(l)) \cup {}
  BY <1>1, OneMoreRecords, ZenonT(60)
<1>. QED
  BY <1>2, OneMoreRecords, ZenonT(60)

(* Elements that are no barrier at the end of a log leave its numbering. *)
LEMMA NumberedKept ==
  ASSUME NEW l, Len(l) \in Nat, Numbered(l), NEW h,
         \A n \in 1..Len(l) : h[n] = l[n],
         \A n \in 1..Len(h) : h[n].kind = "barrier" => n \in 1..Len(l)
  PROVE  Numbered(h)
<1>1. SUFFICES ASSUME NEW n \in 1..Len(h), h[n].kind = "barrier"
               PROVE  /\ \A m \in 1..n-1 : h[m].kind = "barrier" => h[m].val < h[n].val
                      /\ \A v \in RestoredID+1..h[n].val-1 :
                           \E m \in 1..n-1 : h[m].kind = "barrier" /\ h[m].val = v
  BY DEF Numbered
<1>2. n \in 1..Len(l)
  BY <1>1
<1>3. h[n] = l[n] /\ \A m \in 1..n-1 : h[m] = l[m]
  BY <1>2
<1>4. /\ \A m \in 1..n-1 : l[m].kind = "barrier" => l[m].val < l[n].val
      /\ \A v \in RestoredID+1..l[n].val-1 :
           \E m \in 1..n-1 : l[m].kind = "barrier" /\ l[m].val = v
  BY <1>1, <1>2, <1>3, Zenon DEF Numbered
<1>. QED
  BY <1>3, <1>4, Zenon

(* Elements that are no watermark leave what time is over. *)
LEMMA TimelyKept ==
  ASSUME NEW a, NEW l, Len(l) \in Nat, Timely(a, l), NEW b, NEW h,
         \A n \in 1..Len(l) : h[n] = l[n],
         \A n \in 1..Len(h) : h[n].kind = "watermark" => n \in 1..Len(l),
         \A j \in Inputs : \A w : PastTime(a, j, w) => PastTime(b, j, w)
  PROVE  Timely(b, h)
<1>1. SUFFICES ASSUME NEW n \in 1..Len(h), h[n].kind = "watermark"
               PROVE  /\ h[n].val \in Times /\ h[n].val > MinTime
                      /\ \A m \in 1..n-1 : h[m].kind = "watermark" => h[m].val < h[n].val
                      /\ \A i \in Inputs : PastTime(b, i, h[n].val)
  BY DEF Timely
<1>2. n \in 1..Len(l)
  BY <1>1
<1>3. h[n] = l[n] /\ \A m \in 1..n-1 : h[m] = l[m]
  BY <1>2
<1>4. /\ l[n].val \in Times /\ l[n].val > MinTime
      /\ \A m \in 1..n-1 : l[m].kind = "watermark" => l[m].val < l[n].val
      /\ \A i \in Inputs : PastTime(a, i, l[n].val)
  BY <1>1, <1>2, <1>3, Zenon DEF Timely
<1>. QED
  BY <1>3, <1>4, Zenon

(* A log that gains no pair of a watermark and a later record. *)
LEMMA NotLateKept ==
  ASSUME NEW l, NotLate(l), NEW h,
         \A n \in 1..Len(l) : h[n] = l[n],
         \A n, m \in 1..Len(h) : n < m /\ h[n].kind = "watermark" /\ h[m].kind = "record" =>
           n \in 1..Len(l) /\ m \in 1..Len(l)
  PROVE  NotLate(h)
<1>1. SUFFICES ASSUME NEW n \in 1..Len(h), NEW m \in 1..Len(h), n < m,
                      h[n].kind = "watermark", h[m].kind = "record"
               PROVE  \E p \in 1..h[m].pos-1 :
                        isAt(h[m].input, p, "watermark") /\ stream[h[m].input][p].val >= h[n].val
  BY Zenon DEF NotLate
<1>2. n \in 1..Len(l) /\ m \in 1..Len(l)
  BY <1>1, Zenon
<1>3. h[n] = l[n] /\ h[m] = l[m]
  BY <1>2, Zenon
<1>4. \E p \in 1..l[m].pos-1 :
        isAt(l[m].input, p, "watermark") /\ stream[l[m].input][p].val >= l[n].val
  BY <1>1, <1>2, <1>3, ZenonT(60) DEF NotLate
<1>. QED
  BY <1>3, <1>4, Zenon

(* A watermark that every input is past, above all that went before. *)
LEMMA WatermarkKeeps ==
  ASSUME stream \in [Inputs -> Streams], NEW a, NEW l, Good(a, l),
         NEW w \in Times, w > MinTime,
         \A n \in 1..Len(l) : /\ l[n].kind # "eos"
                              /\ l[n].kind = "watermark" => l[n].val < w,
         \A i \in Inputs : PastTime(a, i, w)
  PROVE  Good(a, Append(l, Own("watermark", w)))
<1>. DEFINE e == Own("watermark", w)
            h == Append(l, e)
            L == Len(l)
<1>1. e \in Tagged(NumInputs) /\ e.kind = "watermark" /\ e.val = w /\ w \in Int
  BY InputsAssumption, TimesAssumption DEF Own, Tagged, Kinds, Times
<1>2. l \in Seq(Tagged(NumInputs))
  BY DEF Good, Well
<1>3. /\ h \in Seq(Tagged(NumInputs)) /\ L \in Nat /\ Len(h) = L + 1
      /\ \A n \in 1..L : n \in 1..Len(h) /\ h[n] = l[n]
      /\ h[L + 1] = e
      /\ \A n \in 1..Len(h) : n \in 1..L \/ n = L + 1
  BY <1>1, <1>2, OneMore
<1>. HIDE DEF e
<1>4. \A i : /\ \A n \in 0..L : recordsOf(h, i, n) = recordsOf(l, i, n)
             /\ recordsOf(h, i, L + 1) = recordsOf(l, i, L)
  <2>1. e.kind # "record"
    BY <1>1
  <2>. QED
    BY <1>1, <1>2, <2>1, NoMoreRecords
<1>5. \A n \in 1..L : l[n].kind # "eos"
  OBVIOUS
<1>0. e = Own(e.kind, e.val)
  BY <1>1 DEF e
<1>. HIDE DEF h, L
<1>6. Well(a, h)
  BY <1>0, <1>1, <1>3 DEF Good, Well, L
<1>7. InOrder(a, h)
  <2>1. \A n \in 1..L : n - 1 \in 0..L
    BY <1>3
  <2>. QED
    BY <1>1, <1>3, <1>4, <2>1 DEF Good, InOrder, L
<1>8. Cuts(h)
  <2>1. \A n \in 1..L : n \in 0..L
    BY <1>3
  <2>2. ASSUME NEW n \in 1..L, NEW i, NEW k, CutAt(i, k, l, n) PROVE CutAt(i, k, h, n)
    BY <1>4, <2>1, <2>2 DEF CutAt
  <2>3. \A n \in 1..L : l[n].kind = "barrier" => \A i \in Inputs : CutAt(i, l[n].val, l, n)
    BY DEF Good, Cuts, L
  <2>4. \A n \in 1..Len(h) : h[n].kind = "barrier" => n \in 1..L /\ h[n] = l[n]
    BY <1>1, <1>3
  <2>. QED
    BY <2>2, <2>3, <2>4 DEF Cuts
<1>9. \E k \in Nat : UpTo(a, h, k)
  <2>1. PICK k \in Nat : UpTo(a, l, k)
    BY DEF Good
  <2>2. UpTo(a, h, k)
    BY <1>1, <1>3, <2>1 DEF UpTo, L
  <2>. QED
    BY <2>2
<1>10. \A n \in 1..Len(h) : \A m \in 1..n-1 : m \in 1..L /\ (n \in 1..L => m \in 1..n-1)
  BY <1>3
<1>11. Numbered(h)
  <2>1. \A n \in 1..Len(h) : h[n].kind = "barrier" => n \in 1..L
    BY <1>1, <1>3
  <2>. QED
    BY <1>3, <2>1, NumberedKept DEF Good, L
<1>12. Timely(a, h)
  BY <1>1, <1>3, <1>10 DEF Good, Timely, L
<1>13. NotLate(h)
  <2>1. \A n, m \in 1..Len(h) : n < m /\ h[n].kind = "watermark" /\ h[m].kind = "record" =>
          n \in 1..L /\ m \in 1..L
    BY <1>1, <1>3
  <2>. QED
    BY <1>3, <2>1, NotLateKept DEF Good, L
<1>14. EndsLast(a, h)
  <2>1. \A n \in 1..Len(h) : h[n].kind # "eos"
    BY <1>1, <1>3, <1>5
  <2>. QED
    BY <2>1 DEF EndsLast
<1>. QED
  BY <1>6, <1>7, <1>8, <1>9, <1>11, <1>12, <1>13, <1>14 DEF Good, h, e

(* The end-of-stream, when every input has ended and time is over. *)
LEMMA EndKeeps ==
  ASSUME stream \in [Inputs -> Streams], NEW a, NEW l, Good(a, l),
         \A n \in 1..Len(l) : l[n].kind # "eos",
         \E n \in 1..Len(l) : l[n] = Own("watermark", MaxTime),
         \A i \in Inputs : ended(i, a[i])
  PROVE  Good(a, Append(l, Own("eos", 0)))
<1>. DEFINE e == Own("eos", 0)
            h == Append(l, e)
            L == Len(l)
<1>1. e \in Tagged(NumInputs) /\ e.kind = "eos" /\ e = Own(e.kind, e.val)
  BY InputsAssumption DEF Own, Tagged, Kinds
<1>2. l \in Seq(Tagged(NumInputs))
  BY DEF Good, Well
<1>3. /\ h \in Seq(Tagged(NumInputs)) /\ L \in Nat /\ Len(h) = L + 1
      /\ \A n \in 1..L : n \in 1..Len(h) /\ h[n] = l[n]
      /\ h[L + 1] = e
      /\ \A n \in 1..Len(h) : n \in 1..L \/ n = L + 1
  BY <1>1, <1>2, OneMore
<1>. HIDE DEF e
<1>4. \A i : /\ \A n \in 0..L : recordsOf(h, i, n) = recordsOf(l, i, n)
             /\ recordsOf(h, i, L + 1) = recordsOf(l, i, L)
  <2>1. e.kind # "record"
    BY <1>1
  <2>. QED
    BY <1>1, <1>2, <2>1, NoMoreRecords
<1>5. \A n \in 1..L : l[n].kind # "eos"
  OBVIOUS
<1>. HIDE DEF h, L
<1>6. Well(a, h)
  BY <1>1, <1>3 DEF Good, Well, L
<1>7. InOrder(a, h)
  <2>1. \A n \in 1..L : n - 1 \in 0..L
    BY <1>3
  <2>. QED
    BY <1>1, <1>3, <1>4, <2>1 DEF Good, InOrder, L
<1>8. Cuts(h)
  <2>1. \A n \in 1..L : n \in 0..L
    BY <1>3
  <2>2. ASSUME NEW n \in 1..L, NEW i, NEW k, CutAt(i, k, l, n) PROVE CutAt(i, k, h, n)
    BY <1>4, <2>1, <2>2 DEF CutAt
  <2>3. \A n \in 1..L : l[n].kind = "barrier" => \A i \in Inputs : CutAt(i, l[n].val, l, n)
    BY DEF Good, Cuts, L
  <2>4. \A n \in 1..Len(h) : h[n].kind = "barrier" => n \in 1..L /\ h[n] = l[n]
    BY <1>1, <1>3
  <2>. QED
    BY <2>2, <2>3, <2>4 DEF Cuts
<1>9. \E k \in Nat : UpTo(a, h, k)
  <2>1. PICK k \in Nat : UpTo(a, l, k)
    BY DEF Good
  <2>2. UpTo(a, h, k)
    BY <1>1, <1>3, <2>1 DEF UpTo, L
  <2>. QED
    BY <2>2
<1>11. Numbered(h)
  <2>1. \A n \in 1..Len(h) : h[n].kind = "barrier" => n \in 1..L
    BY <1>1, <1>3
  <2>. QED
    BY <1>3, <2>1, NumberedKept DEF Good, L
<1>12. Timely(a, h)
  <2>1. \A n \in 1..Len(h) : h[n].kind = "watermark" => n \in 1..L
    BY <1>1, <1>3
  <2>. QED
    BY <1>3, <2>1, TimelyKept DEF Good, L
<1>13. NotLate(h)
  <2>1. \A n, m \in 1..Len(h) : n < m /\ h[n].kind = "watermark" /\ h[m].kind = "record" =>
          n \in 1..L /\ m \in 1..L
    BY <1>1, <1>3
  <2>. QED
    BY <1>3, <2>1, NotLateKept DEF Good, L
<1>14. EndsLast(a, h)
  <2>1. \A n \in 1..Len(h) : h[n].kind = "eos" => n = L + 1
    BY <1>1, <1>3 DEF L
  <2>2. \E m \in 1..L : h[m] = Own("watermark", MaxTime)
    BY <1>3 DEF L
  <2>3. (L + 1) - 1 = L
    BY <1>3
  <2>. QED
    BY <1>3, <2>1, <2>2, <2>3 DEF EndsLast
<1>. QED
  BY <1>6, <1>7, <1>8, <1>9, <1>11, <1>12, <1>13, <1>14 DEF Good, h, e

(* After its end-of-stream an input sends nothing but another one. *)
LEMMA NothingAfterEnd ==
  ASSUME stream \in [Inputs -> Streams], NEW i \in Inputs, NEW n \in Nat, n <= Len(stream[i]),
         ended(i, n), NEW m \in 1..Len(stream[i]), m > n
  PROVE  isAt(i, m, "eos")
<1>1. PICK p \in 1..n : isAt(i, p, "eos")
  BY EndedIff
<1>2. WellFormed(stream[i]) /\ Len(stream[i]) \in Nat
  BY StreamElements
<1>3. p \in 1..m-1
  BY <1>2
<1>. QED
  BY <1>1, <1>2, <1>3 DEF WellFormed, isAt

(* A record, which only a live input sends. *)
LEMMA RecordKeeps ==
  ASSUME stream \in [Inputs -> Streams], NEW a, NEW l, Good(a, l),
         NEW i \in Inputs, a[i] < Len(stream[i]), isAt(i, a[i] + 1, "record")
  PROVE  Good([a EXCEPT ![i] = @ + 1],
              Append(l, [input |-> i, pos |-> a[i] + 1, kind |-> "record",
                         val |-> stream[i][a[i] + 1].val]))
<1>. DEFINE b == [a EXCEPT ![i] = @ + 1]
            e == [input |-> i, pos |-> a[i] + 1, kind |-> "record", val |-> stream[i][a[i] + 1].val]
            h == Append(l, e)
            L == Len(l)
<1>1. /\ a \in [Inputs -> Nat] /\ \A j \in Inputs : a[j] <= Len(stream[j])
      /\ l \in Seq(Tagged(NumInputs)) /\ Len(stream[i]) \in Nat
      /\ a[i] \in Nat /\ a[i] + 1 \in 1..Len(stream[i])
  BY StreamElements DEF Good, Well
<1>2. b \in [Inputs -> Nat] /\ b[i] = a[i] + 1 /\ \A j \in Inputs : j # i => b[j] = a[j]
  BY <1>1
<1>3. /\ e \in Tagged(NumInputs) /\ e.kind = "record" /\ e.input = i /\ e.pos = a[i] + 1
  <2>1. stream[i][a[i] + 1] \in Element
    BY <1>1, StreamElements
  <2>. QED
    BY <1>1, <2>1, InputsAssumption DEF Element, Tagged, Kinds, Inputs
<1>. HIDE DEF b, e
<1>4. /\ h \in Seq(Tagged(NumInputs)) /\ L \in Nat /\ Len(h) = L + 1
      /\ \A n \in 1..L : n \in 1..Len(h) /\ h[n] = l[n]
      /\ h[L + 1] = e
      /\ \A n \in 1..Len(h) : n \in 1..L \/ n = L + 1
  BY <1>1, <1>3, OneMore
<1>5. /\ \A j : \A n \in 0..L : recordsOf(h, j, n) = recordsOf(l, j, n)
      /\ \A j : j # i => recordsOf(h, j, L + 1) = recordsOf(l, j, L)
      /\ recordsOf(h, i, L + 1) = recordsOf(l, i, L) \cup {a[i] + 1}
  <2>1. ASSUME NEW j
        PROVE  /\ \A n \in 0..L : recordsOf(h, j, n) = recordsOf(l, j, n)
               /\ recordsOf(h, j, L + 1) = recordsOf(l, j, L) \cup (IF e.kind = "record" /\ e.input = j THEN {e.pos} ELSE {})
    BY <1>1, <1>3, OneMoreRecords
  <2>2. ASSUME NEW j, j # i PROVE (IF e.kind = "record" /\ e.input = j THEN {e.pos} ELSE {}) = {}
    BY <1>3, <2>2
  <2>3. (IF e.kind = "record" /\ e.input = i THEN {e.pos} ELSE {}) = {a[i] + 1}
    BY <1>3
  <2>. HIDE DEF h, L
  <2>4. ASSUME NEW j, j # i PROVE recordsOf(h, j, L + 1) = recordsOf(l, j, L)
    <3>1. recordsOf(h, j, L + 1) = recordsOf(l, j, L) \cup {}
      BY <2>1, <2>2, <2>4
    <3>. QED
      BY <3>1
  <2>. QED
    BY <2>1, <2>3, <2>4
<1>. HIDE DEF h, L
<1>6. ~ended(i, a[i])
  BY <1>1, NothingAfterEnd DEF isAt
<1>7. \A n \in 1..L : l[n].kind # "eos"
  BY <1>6 DEF Good, EndsLast, L
<1>8. \A j \in Inputs : /\ \A m \in 1..a[j] : m \in 1..b[j]
                        /\ \A m \in 1..b[j] : m \in 1..a[j] \/ (j = i /\ m = a[i] + 1)
  BY <1>1, <1>2
<1>9. \A j \in Inputs : ended(j, a[j]) => ended(j, b[j])
  BY <1>8, EndedIff
<1>10. Well(b, h)
  <2>1. ASSUME NEW j \in Inputs PROVE b[j] <= Len(stream[j])
    <3>1. CASE j = i
      BY <1>1, <1>2, <3>1
    <3>2. CASE j # i
      BY <1>1, <1>2, <3>2
    <3>. QED
      BY <3>1, <3>2
  <2>. QED
    BY <1>2, <1>3, <1>4, <2>1 DEF Good, Well, L
<1>11. InOrder(b, h)
  <2>1. \A n \in 1..L : n - 1 \in 0..L
    BY <1>4
  <2>2. (L + 1) - 1 = L /\ L \in 0..L
    BY <1>4
  <2>3. /\ \A n \in 1..L : l[n].kind = "record" =>
             recordsOf(l, l[n].input, n - 1) = recordsBefore(l[n].input, l[n].pos)
        /\ \A j \in Inputs : recordsOf(l, j, L) = recordsBefore(j, a[j] + 1)
    BY DEF Good, InOrder, L
  <2>4. ASSUME NEW n \in 1..Len(h), h[n].kind = "record"
        PROVE  recordsOf(h, h[n].input, n - 1) = recordsBefore(h[n].input, h[n].pos)
    <3>1. CASE n \in 1..L
      BY <1>4, <1>5, <2>1, <2>3, <2>4, <3>1
    <3>2. CASE n = L + 1
      BY <1>3, <1>4, <1>5, <2>2, <2>3, <3>2
    <3>. QED
      BY <1>4, <3>1, <3>2
  <2>5. recordsBefore(i, b[i] + 1) = recordsBefore(i, a[i] + 1) \cup {a[i] + 1}
    <3>1. \A m : m \in 1..(b[i]+1)-1 <=> m \in 1..(a[i]+1)-1 \/ m = a[i] + 1
      BY <1>1, <1>2
    <3>. QED
      BY <3>1 DEF recordsBefore
  <2>6. \A j \in Inputs : recordsOf(h, j, Len(h)) = recordsBefore(j, b[j] + 1)
    BY <1>2, <1>4, <1>5, <2>3, <2>5
  <2>. QED
    BY <2>4, <2>6 DEF InOrder
<1>12. Cuts(h)
  <2>1. \A n \in 1..L : n \in 0..L
    BY <1>4
  <2>2. ASSUME NEW n \in 1..L, NEW j, NEW k, CutAt(j, k, l, n) PROVE CutAt(j, k, h, n)
    BY <1>5, <2>1, <2>2 DEF CutAt
  <2>3. \A n \in 1..L : l[n].kind = "barrier" => \A j \in Inputs : CutAt(j, l[n].val, l, n)
    BY DEF Good, Cuts, L
  <2>4. \A n \in 1..Len(h) : h[n].kind = "barrier" => n \in 1..L /\ h[n] = l[n]
    BY <1>3, <1>4
  <2>. QED
    BY <2>2, <2>3, <2>4 DEF Cuts
<1>13. \E k \in Nat : UpTo(b, h, k)
  <2>1. PICK k \in Nat : UpTo(a, l, k)
    BY DEF Good
  <2>2. \A j \in Inputs : \A m \in 1..b[j] : isAt(j, m, "barrier") => m \in 1..a[j]
    BY <1>8 DEF isAt
  <2>3. \A n \in 1..Len(h) : h[n].kind = "barrier" => n \in 1..L /\ h[n] = l[n]
    BY <1>3, <1>4
  <2>4. \A v : (\E n \in 1..L : l[n].kind = "barrier" /\ l[n].val = v)
               => \E n \in 1..Len(h) : h[n].kind = "barrier" /\ h[n].val = v
    BY <1>4
  <2>5. \A j \in Inputs : ~ended(j, b[j]) =>
          \A v \in RestoredID+1..k : \E m \in 1..b[j] : isAt(j, m, "barrier") /\ stream[j][m].val = v
    BY <1>8, <1>9, <2>1 DEF UpTo
  <2>6. \A j \in Inputs : \A m \in 1..b[j] : isAt(j, m, "barrier") => stream[j][m].val <= k
    BY <2>1, <2>2 DEF UpTo
  <2>7. UpTo(b, h, k)
    BY <2>1, <2>3, <2>4, <2>5, <2>6 DEF UpTo, L
  <2>. QED
    BY <2>7
<1>14. \A n \in 1..Len(h) : \A m \in 1..n-1 : m \in 1..L /\ (n \in 1..L => m \in 1..n-1)
  BY <1>4
<1>15. Numbered(h)
  <2>1. \A n \in 1..Len(h) : h[n].kind = "barrier" => n \in 1..L
    BY <1>3, <1>4
  <2>. QED
    BY <1>4, <2>1, NumberedKept DEF Good, L
<1>16. Timely(b, h)
  <2>1. ASSUME NEW j \in Inputs, NEW w, PastTime(a, j, w) PROVE PastTime(b, j, w)
    BY <1>8, <1>9, <2>1 DEF PastTime
  <2>2. \A n \in 1..Len(h) : h[n].kind = "watermark" => n \in 1..L
    BY <1>3, <1>4
  <2>. QED
    BY <1>4, <2>1, <2>2, TimelyKept DEF Good, L
<1>17. NotLate(h)
  <2>1. SUFFICES ASSUME NEW n \in 1..Len(h), NEW m \in 1..Len(h), n < m,
                        h[n].kind = "watermark", h[m].kind = "record"
                 PROVE  \E p \in 1..h[m].pos-1 :
                          isAt(h[m].input, p, "watermark") /\ stream[h[m].input][p].val >= h[n].val
    BY DEF NotLate
  <2>2. n \in 1..L /\ h[n] = l[n]
    BY <1>3, <1>4, <2>1
  <2>3. CASE m \in 1..L
    <3>1. h[m] = l[m] /\ NotLate(l)
      BY <1>4, <2>3 DEF Good
    <3>. QED
      BY <2>1, <2>2, <2>3, <3>1, Zenon DEF NotLate, L
  <2>4. CASE m = L + 1
    <3>1. PastTime(a, i, l[n].val)
      BY <2>1, <2>2 DEF Good, Timely, L
    <3>2. h[m].input = i /\ h[m].pos - 1 = a[i]
      BY <1>1, <1>3, <1>4, <2>4
    <3>. QED
      BY <1>6, <2>2, <3>1, <3>2 DEF PastTime
  <2>. QED
    BY <1>4, <2>3, <2>4
<1>18. EndsLast(b, h)
  <2>1. \A n \in 1..Len(h) : h[n].kind # "eos"
    BY <1>3, <1>4, <1>7
  <2>. QED
    BY <2>1 DEF EndsLast
<1>. QED
  BY <1>10, <1>11, <1>12, <1>13, <1>15, <1>16, <1>17, <1>18 DEF Good, b, h, e

(* Where checkpoints up to K have been taken, the next barrier of every     *)
(* live input is that of checkpoint K + 1.                                  *)
LEMMA NextBarrier ==
  ASSUME stream \in [Inputs -> Streams], NEW a \in [Inputs -> Nat], NEW l,
         NEW K \in Nat, UpTo(a, l, K), NEW i \in Inputs,
         a[i] + 1 \in 1..Len(stream[i]), isAt(i, a[i] + 1, "barrier"), ~ended(i, a[i])
  PROVE  stream[i][a[i] + 1].val = K + 1
<1>. DEFINE k == stream[i][a[i] + 1].val
<1>2. /\ a[i] + 1 \in 1..Len(stream[i]) /\ (a[i] + 1) - 1 = a[i]
      /\ stream[i][a[i] + 1].kind = "barrier"
  BY DEF isAt
<1>3. WellFormed(stream[i]) /\ k \in Int /\ \A m \in 1..Len(stream[i]) : stream[i][m].val \in Int
  BY <1>2, StreamElements DEF Element
<1>4. /\ k > RestoredID
      /\ \A m \in 1..a[i] : stream[i][m].kind = "barrier" => stream[i][m].val < k
      /\ \A v \in RestoredID+1..k-1 : \E m \in 1..a[i] : stream[i][m].kind = "barrier" /\ stream[i][m].val = v
  <2>. DEFINE n == a[i] + 1
  <2>1. n \in 1..Len(stream[i]) /\ n - 1 = a[i]
    BY <1>2
  <2>. HIDE DEF n
  <2>2. stream[i][n].kind = "barrier" /\ stream[i][n].val = k
    BY <1>2 DEF n
  <2>3. /\ stream[i][n].val > RestoredID
        /\ \A m \in 1..n-1 : stream[i][m].kind = "barrier" => stream[i][m].val < stream[i][n].val
        /\ \A v \in RestoredID+1..stream[i][n].val-1 :
             \E m \in 1..n-1 : stream[i][m].kind = "barrier" /\ stream[i][m].val = v
    BY <1>3, <2>1, <2>2, Zenon DEF WellFormed
  <2>. QED
    BY <2>1, <2>2, <2>3
<1>5. /\ K >= RestoredID
      /\ \A m \in 1..a[i] : stream[i][m].kind = "barrier" => stream[i][m].val <= K
      /\ \A v \in RestoredID+1..K : \E m \in 1..a[i] : stream[i][m].kind = "barrier" /\ stream[i][m].val = v
  BY DEF UpTo, isAt
<1>6. ~(k <= K)
  <2>1. SUFFICES ASSUME k <= K PROVE FALSE
    OBVIOUS
  <2>2. k \in RestoredID+1..K
    BY <1>3, <1>4, <2>1, InputsAssumption
  <2>. QED
    BY <1>3, <1>4, <1>5, <2>2, SMTT(30)
<1>7. ~(k > K + 1)
  <2>1. SUFFICES ASSUME k > K + 1 PROVE FALSE
    OBVIOUS
  <2>2. K + 1 \in RestoredID+1..k-1
    BY <1>3, <1>5, <2>1, InputsAssumption
  <2>3. PICK m \in 1..a[i] : stream[i][m].kind = "barrier" /\ stream[i][m].val = K + 1
    BY <1>4, <2>2
  <2>4. K + 1 <= K
    BY <1>5, <2>3
  <2>. QED
    BY <2>4
<1>. QED
  BY <1>3, <1>6, <1>7

(* A barrier that all live inputs stand before. *)
LEMMA CutKeeps ==
  ASSUME stream \in [Inputs -> Streams], NEW a, NEW l, Good(a, l),
         NEW k, AtCut(a, k)
  PROVE  Good(Beyond(a), Append(l, Own("barrier", k)))
<1>. DEFINE b == Beyond(a)
            e == Own("barrier", k)
            h == Append(l, e)
            L == Len(l)
<1>1. /\ a \in [Inputs -> Nat] /\ \A j \in Inputs : a[j] <= Len(stream[j])
      /\ l \in Seq(Tagged(NumInputs)) /\ \A j \in Inputs : Len(stream[j]) \in Nat
  BY StreamElements DEF Good, Well
<1>2. \A j \in Inputs : j \in Live(a) <=> ~ended(j, a[j])
  BY DEF Live
<1>3. /\ \A j \in Inputs : j \in Live(a) => b[j] = a[j] + 1
      /\ \A j \in Inputs : j \notin Live(a) => b[j] = a[j]
      /\ b \in [Inputs -> Nat]
  BY <1>1 DEF Beyond
<1>4. \A j \in Inputs : j \in Live(a) =>
        /\ a[j] + 1 \in 1..Len(stream[j])
        /\ isAt(j, a[j] + 1, "barrier") /\ stream[j][a[j] + 1].val = k
  BY <1>1 DEF AtCut, next, isAt
<1>5. PICK K \in Nat : UpTo(a, l, K)
  BY DEF Good
<1>6. k = K + 1
  <2>1. PICK i \in Inputs : i \in Live(a)
    BY DEF AtCut, Live
  <2>2. /\ a[i] + 1 \in 1..Len(stream[i]) /\ isAt(i, a[i] + 1, "barrier")
        /\ stream[i][a[i] + 1].val = k /\ ~ended(i, a[i])
    BY <1>2, <1>4, <2>1
  <2>3. stream[i][a[i] + 1].val = K + 1
    BY <1>1, <1>5, <2>2, NextBarrier
  <2>. QED
    BY <2>2, <2>3
<1>7. e \in Tagged(NumInputs) /\ e.kind = "barrier" /\ e.val = k /\ e = Own(e.kind, e.val)
  BY <1>6, InputsAssumption DEF Own, Tagged, Kinds
<1>. HIDE DEF b, e
<1>8. /\ h \in Seq(Tagged(NumInputs)) /\ L \in Nat /\ Len(h) = L + 1
      /\ \A n \in 1..L : n \in 1..Len(h) /\ h[n] = l[n]
      /\ h[L + 1] = e
      /\ \A n \in 1..Len(h) : n \in 1..L \/ n = L + 1
  BY <1>1, <1>7, OneMore
<1>9. \A i : /\ \A n \in 0..L : recordsOf(h, i, n) = recordsOf(l, i, n)
             /\ recordsOf(h, i, L + 1) = recordsOf(l, i, L)
  <2>1. e.kind # "record"
    BY <1>7
  <2>. QED
    BY <1>1, <1>7, <2>1, NoMoreRecords
<1>. HIDE DEF h, L
<1>25. \A n \in 1..L : l[n].val \in Int
  <2>1. \A n \in 1..L : l[n] \in Tagged(NumInputs)
    BY <1>1 DEF L
  <2>. QED
    BY <2>1 DEF Tagged
<1>10. \A n \in 1..L : l[n].kind # "eos"
  <2>1. \E i \in Inputs : ~ended(i, a[i])
    BY DEF AtCut, Live
  <2>. QED
    BY <2>1 DEF Good, EndsLast, L
<1>11. \A j \in Inputs : /\ \A m \in 1..a[j] : m \in 1..b[j]
                         /\ \A m \in 1..b[j] : m \in 1..a[j] \/ (j \in Live(a) /\ m = a[j] + 1)
  BY <1>1, <1>3
<1>12. \A j \in Inputs : ended(j, a[j]) <=> ended(j, b[j])
  <2>1. \A j \in Inputs : \A m \in 1..b[j] : isAt(j, m, "eos") => m \in 1..a[j]
    BY <1>4, <1>11 DEF isAt
  <2>. QED
    BY <1>11, <2>1, EndedIff
<1>13. Well(b, h)
  <2>1. ASSUME NEW j \in Inputs PROVE b[j] <= Len(stream[j])
    <3>1. CASE j \in Live(a)
      <4>1. a[j] + 1 <= Len(stream[j])
        BY <1>1, <1>4, <3>1
      <4>. QED
        BY <1>3, <3>1, <4>1
    <3>2. CASE j \notin Live(a)
      BY <1>1, <1>3, <3>2
    <3>. QED
      BY <3>1, <3>2
  <2>. QED
    BY <1>3, <1>7, <1>8, <2>1 DEF Good, Well, L
<1>14. \A j \in Inputs : recordsBefore(j, b[j] + 1) = recordsBefore(j, a[j] + 1)
  <2>1. \A j \in Inputs : (a[j] + 1) - 1 = a[j] /\ (b[j] + 1) - 1 = b[j]
    BY <1>1, <1>3
  <2>2. \A j \in Inputs : \A m \in 1..b[j] : isAt(j, m, "record") => m \in 1..a[j]
    BY <1>4, <1>11 DEF isAt
  <2>. QED
    BY <1>11, <2>1, <2>2 DEF recordsBefore
<1>15. InOrder(b, h)
  <2>1. \A n \in 1..L : n - 1 \in 0..L
    BY <1>8
  <2>. QED
    BY <1>7, <1>8, <1>9, <1>14, <2>1 DEF Good, InOrder, L
<1>16. \A j \in Inputs : CutAt(j, k, h, L + 1)
  <2>1. SUFFICES ASSUME NEW j \in Inputs PROVE CutAt(j, k, h, L + 1)
    OBVIOUS
  <2>2. recordsOf(h, j, L + 1) = recordsBefore(j, a[j] + 1)
    BY <1>9 DEF Good, InOrder, L
  <2>3. CASE j \in Live(a)
    BY <1>4, <2>2, <2>3 DEF CutAt
  <2>4. CASE j \notin Live(a)
    <3>1. ended(j, a[j]) /\ a[j] \in Nat /\ a[j] <= Len(stream[j]) /\ Len(stream[j]) \in Nat
      BY <1>1, <1>2, <2>4
    <3>2. \A m \in 1..Len(stream[j]) : m > a[j] => isAt(j, m, "eos")
      BY <3>1, NothingAfterEnd
    <3>3. \A m \in 1..Len(stream[j]) : isAt(j, m, "barrier") \/ isAt(j, m, "record") => m \in 1..a[j]
      BY <3>1, <3>2 DEF isAt
    <3>4. \A m \in 1..Len(stream[j]) : isAt(j, m, "barrier") => stream[j][m].val # k
      <4>1. \A m \in 1..a[j] : isAt(j, m, "barrier") => stream[j][m].val <= K
        BY <1>5 DEF UpTo
      <4>2. ~(k <= K)
        BY <1>6
      <4>. QED
        BY <3>3, <4>1, <4>2
    <3>5. \E m \in 1..Len(stream[j]) : isAt(j, m, "eos")
      BY <3>1, EndedIff
    <3>6. recordsBefore(j, a[j] + 1) = recordsBefore(j, Len(stream[j]) + 1)
      <4>1. (a[j] + 1) - 1 = a[j] /\ (Len(stream[j]) + 1) - 1 = Len(stream[j])
        BY <3>1
      <4>2. \A m \in 1..a[j] : m \in 1..Len(stream[j])
        BY <3>1
      <4>. QED
        BY <3>3, <4>1, <4>2 DEF recordsBefore
    <3>. QED
      BY <2>2, <3>4, <3>5, <3>6 DEF CutAt
  <2>. QED
    BY <2>3, <2>4
<1>17. Cuts(h)
  <2>1. \A n \in 1..L : n \in 0..L
    BY <1>8
  <2>2. ASSUME NEW n \in 1..L, NEW i, NEW v, CutAt(i, v, l, n) PROVE CutAt(i, v, h, n)
    BY <1>9, <2>1, <2>2 DEF CutAt
  <2>3. \A n \in 1..L : l[n].kind = "barrier" => \A i \in Inputs : CutAt(i, l[n].val, l, n)
    BY DEF Good, Cuts, L
  <2>. QED
    BY <1>7, <1>8, <1>16, <2>2, <2>3 DEF Cuts
<1>18. UpTo(b, h, K + 1)
  <2>1. K + 1 >= RestoredID
    BY <1>5, InputsAssumption DEF UpTo
  <2>2. \A n \in 1..Len(h) : h[n].kind = "barrier" => h[n].val > RestoredID /\ h[n].val <= K + 1
    <3>1. \A n \in 1..L : l[n].kind = "barrier" => l[n].val > RestoredID /\ l[n].val <= K /\ l[n].val \in Int
      BY <1>5, <1>25 DEF UpTo, L
    <3>2. K + 1 > RestoredID
      BY <1>5, InputsAssumption DEF UpTo
    <3>. QED
      BY <1>6, <1>7, <1>8, <3>1, <3>2
  <2>3. \A v \in RestoredID+1..K+1 : v \in RestoredID+1..K \/ v = K + 1
    BY InputsAssumption
  <2>4. \A v \in RestoredID+1..K+1 : \E n \in 1..Len(h) : h[n].kind = "barrier" /\ h[n].val = v
    <3>1. \A v \in RestoredID+1..K : \E n \in 1..L : l[n].kind = "barrier" /\ l[n].val = v
      BY <1>5 DEF UpTo, L
    <3>2. L + 1 \in 1..Len(h)
      BY <1>8
    <3>. QED
      BY <1>6, <1>7, <1>8, <2>3, <3>1, <3>2
  <2>5. \A i \in Inputs : \A m \in 1..b[i] : isAt(i, m, "barrier") => stream[i][m].val <= K + 1
    <3>1. \A i \in Inputs : \A m \in 1..a[i] : isAt(i, m, "barrier") => stream[i][m].val <= K
      BY <1>5 DEF UpTo
    <3>2. \A i \in Inputs : \A m \in 1..a[i] : stream[i][m].val \in Int
      <4>1. \A i \in Inputs : \A m \in 1..a[i] : m \in 1..Len(stream[i])
        BY <1>1
      <4>. QED
        BY <4>1, StreamElements DEF Element
    <3>. QED
      BY <1>4, <1>6, <1>11, <3>1, <3>2
  <2>6. ASSUME NEW i \in Inputs, ~ended(i, b[i]), NEW v \in RestoredID+1..K+1
        PROVE  \E m \in 1..b[i] : isAt(i, m, "barrier") /\ stream[i][m].val = v
    <3>1. i \in Live(a) /\ b[i] = a[i] + 1 /\ a[i] \in Nat
      BY <1>1, <1>2, <1>3, <1>12, <2>6
    <3>2. CASE v \in RestoredID+1..K
      BY <1>5, <1>11, <1>12, <2>6, <3>2 DEF UpTo
    <3>3. CASE v = K + 1
      <4>1. a[i] + 1 \in 1..b[i]
        BY <3>1
      <4>. QED
        BY <1>4, <1>6, <3>1, <3>3, <4>1
    <3>. QED
      BY <2>3, <3>2, <3>3
  <2>. QED
    BY <2>1, <2>2, <2>4, <2>5, <2>6 DEF UpTo
<1>19. \A n \in 1..Len(h) : \A m \in 1..n-1 : m \in 1..L /\ (n \in 1..L => m \in 1..n-1)
  BY <1>8
<1>20. Numbered(h)
  <2>1. SUFFICES ASSUME NEW n \in 1..Len(h), h[n].kind = "barrier"
                 PROVE  /\ \A m \in 1..n-1 : h[m].kind = "barrier" => h[m].val < h[n].val
                        /\ \A v \in RestoredID+1..h[n].val-1 :
                             \E m \in 1..n-1 : h[m].kind = "barrier" /\ h[m].val = v
    BY DEF Numbered
  <2>2. CASE n \in 1..L
    BY <1>8, <1>19, <2>1, <2>2 DEF Good, Numbered, L
  <2>3. CASE n = L + 1
    <3>1. n - 1 = L /\ h[n].val = K + 1 /\ (K + 1) - 1 = K
      BY <1>6, <1>7, <1>8, <2>3
    <3>2. /\ \A m \in 1..L : l[m].kind = "barrier" => l[m].val <= K /\ l[m].val \in Int
          /\ \A v \in RestoredID+1..K : \E m \in 1..L : l[m].kind = "barrier" /\ l[m].val = v
      BY <1>5, <1>25 DEF UpTo, L
    <3>. QED
      BY <1>8, <3>1, <3>2
  <2>. QED
    BY <1>8, <2>2, <2>3
<1>21. Timely(b, h)
  <2>1. ASSUME NEW j \in Inputs, NEW w, PastTime(a, j, w) PROVE PastTime(b, j, w)
    BY <1>11, <1>12, <2>1 DEF PastTime
  <2>. QED
    BY <1>7, <1>8, <1>19, <2>1 DEF Good, Timely, L
<1>22. NotLate(h)
  BY <1>7, <1>8 DEF Good, NotLate, L
<1>23. EndsLast(b, h)
  <2>1. \A n \in 1..Len(h) : h[n].kind # "eos"
    BY <1>7, <1>8, <1>10
  <2>. QED
    BY <2>1 DEF EndsLast
<1>24. K + 1 \in Nat
  OBVIOUS
<1>. QED
  BY <1>13, <1>15, <1>17, <1>18, <1>20, <1>21, <1>22, <1>23, <1>24 DEF Good, b, h, e

-----------------------------------------------------------------------------
(* Times.                                                                  *)

LEMMA TimeOfInput ==
  ASSUME stream \in [Inputs -> Streams], NEW i \in Inputs, NEW n \in Nat, n <= Len(stream[i])
  PROVE  /\ timeOf(i, n) \in Times
         /\ timeOf(i, n) = MinTime \/ \E m \in 1..n : isAt(i, m, "watermark") /\ stream[i][m].val = timeOf(i, n)
         /\ \A m \in 1..n : isAt(i, m, "watermark") => stream[i][m].val <= timeOf(i, n)
<1>. DEFINE S == {stream[i][m].val : m \in passedKind(i, n, "watermark")} \cup {MinTime}
<1>1. \A m \in 1..n : isAt(i, m, "watermark") => stream[i][m].val \in Times
  <2>1. WellFormed(stream[i]) /\ \A m \in 1..n : m \in 1..Len(stream[i])
    BY StreamElements
  <2>. QED
    BY <2>1 DEF WellFormed, isAt
<1>2. S \subseteq Times
  BY <1>1, TimesAssumption DEF passedKind, isAt, Times
<1>3. S \in SUBSET Int /\ S # {} /\ MaxTime \in Int /\ \A x \in S : x <= MaxTime
  BY <1>2, TimesAssumption DEF Times
<1>4. \A x : x \in S <=> x = MinTime \/ \E m \in 1..n : isAt(i, m, "watermark") /\ stream[i][m].val = x
  BY DEF passedKind, isAt
<1>5. timeOf(i, n) = Max(S)
  BY DEF timeOf
<1>. HIDE DEF S
<1>6. Max(S) \in S /\ \A y \in S : y <= Max(S)
  BY <1>3, MaxIsGreatest
<1>. QED
  BY <1>2, <1>4, <1>5, <1>6

LEMMA LowTime ==
  ASSUME stream \in [Inputs -> Streams], NEW a \in [Inputs -> Nat],
         \A i \in Inputs : a[i] <= Len(stream[i])
  PROVE  /\ low(a) \in Times
         /\ \A i \in Inputs : ~ended(i, a[i]) => low(a) <= timeOf(i, a[i])
         /\ (\A i \in Inputs : ended(i, a[i])) => low(a) = MaxTime
<1>. DEFINE S == {timeOf(i, a[i]) : i \in {j \in Inputs : ~ended(j, a[j])}} \cup {MaxTime}
<1>1. \A i \in Inputs : timeOf(i, a[i]) \in Times
  BY TimeOfInput
<1>2. S \subseteq Times
  BY <1>1, TimesAssumption DEF Times
<1>3. S \in SUBSET Int /\ S # {} /\ MinTime \in Int /\ \A x \in S : MinTime <= x
  BY <1>2, TimesAssumption DEF Times
<1>4. low(a) = Min(S)
  BY DEF low
<1>5. \A i \in Inputs : ~ended(i, a[i]) => timeOf(i, a[i]) \in S
  OBVIOUS
<1>6. (\A i \in Inputs : ended(i, a[i])) => \A x \in S : x = MaxTime
  OBVIOUS
<1>. HIDE DEF S
<1>7. Min(S) \in S /\ \A y \in S : Min(S) <= y
  BY <1>3, MinIsLeast
<1>. QED
  BY <1>2, <1>4, <1>5, <1>6, <1>7

(* Every input is past the time that no live input will go below. *)
LEMMA LowIsPast ==
  ASSUME stream \in [Inputs -> Streams], NEW a \in [Inputs -> Nat],
         \A i \in Inputs : a[i] <= Len(stream[i]), low(a) > MinTime
  PROVE  \A i \in Inputs : PastTime(a, i, low(a))
<1>. SUFFICES ASSUME NEW i \in Inputs, ~ended(i, a[i]) PROVE PastTime(a, i, low(a))
  BY DEF PastTime
<1>1. low(a) <= timeOf(i, a[i]) /\ low(a) \in Times
  BY LowTime
<1>2. /\ timeOf(i, a[i]) \in Times
      /\ timeOf(i, a[i]) = MinTime
           \/ \E m \in 1..a[i] : isAt(i, m, "watermark") /\ stream[i][m].val = timeOf(i, a[i])
  BY TimeOfInput
<1>3. timeOf(i, a[i]) # MinTime /\ timeOf(i, a[i]) >= low(a)
  BY <1>1, <1>2, TimesAssumption DEF Times
<1>. QED
  BY <1>2, <1>3 DEF PastTime

(* What one more element of an input does to its end and to its time. *)
LEMMA EndedNext ==
  ASSUME NEW i, NEW n \in Nat
  PROVE  ended(i, n + 1) <=> ended(i, n) \/ isAt(i, n + 1, "eos")
<1>1. \A m : m \in 1..n+1 <=> m \in 1..n \/ m = n + 1
  OBVIOUS
<1>. QED
  BY <1>1, EndedIff

LEMMA TimeNext ==
  ASSUME stream \in [Inputs -> Streams], NEW i \in Inputs, NEW n \in Nat, n + 1 <= Len(stream[i])
  PROVE  timeOf(i, n + 1) = IF isAt(i, n + 1, "watermark") THEN stream[i][n + 1].val ELSE timeOf(i, n)
<1>1. \A m : m \in 1..n+1 <=> m \in 1..n \/ m = n + 1
  OBVIOUS
<1>2. CASE isAt(i, n + 1, "watermark")
  <2>. DEFINE v == stream[i][n + 1].val
  <2>1. /\ v \in Times /\ n + 1 \in 1..Len(stream[i])
        /\ \A m \in 1..n : isAt(i, m, "watermark") => stream[i][m].val <= v
    <3>. DEFINE k == n + 1
    <3>1. k \in 1..Len(stream[i]) /\ k - 1 = n /\ WellFormed(stream[i])
      BY StreamElements
    <3>. HIDE DEF k
    <3>2. stream[i][k].kind = "watermark"
      BY <1>2 DEF isAt, k
    <3>3. /\ stream[i][k].val \in Times
          /\ \A m \in 1..k-1 : stream[i][m].kind = "watermark" => stream[i][m].val <= stream[i][k].val
      BY <3>1, <3>2, Zenon DEF WellFormed
    <3>. QED
      BY <3>1, <3>3 DEF k, isAt
  <2>2. /\ timeOf(i, n + 1) \in Times
        /\ timeOf(i, n + 1) = MinTime
             \/ \E m \in 1..n+1 : isAt(i, m, "watermark") /\ stream[i][m].val = timeOf(i, n + 1)
        /\ \A m \in 1..n+1 : isAt(i, m, "watermark") => stream[i][m].val <= timeOf(i, n + 1)
    BY TimeOfInput
  <2>3. v <= timeOf(i, n + 1)
    BY <1>1, <1>2, <2>2
  <2>4. timeOf(i, n + 1) <= v
    <3>1. CASE timeOf(i, n + 1) = MinTime
      BY <2>1, <3>1, TimesAssumption DEF Times
    <3>2. CASE timeOf(i, n + 1) # MinTime
      <4>1. PICK m \in 1..n+1 : isAt(i, m, "watermark") /\ stream[i][m].val = timeOf(i, n + 1)
        BY <2>2, <3>2
      <4>2. CASE m \in 1..n
        BY <2>1, <4>1, <4>2
      <4>3. CASE m = n + 1
        BY <2>1, <4>1, <4>3, TimesAssumption DEF Times
      <4>. QED
        BY <1>1, <4>2, <4>3
    <3>. QED
      BY <3>1, <3>2
  <2>5. timeOf(i, n + 1) \in Int /\ v \in Int
    BY <2>1, <2>2, TimesAssumption DEF Times
  <2>. QED
    BY <1>2, <2>3, <2>4, <2>5
<1>3. CASE ~isAt(i, n + 1, "watermark")
  <2>1. passedKind(i, n + 1, "watermark") = passedKind(i, n, "watermark")
    BY <1>1, <1>3 DEF passedKind, isAt
  <2>. QED
    BY <1>3, <2>1 DEF timeOf
<1>. QED
  BY <1>2, <1>3

(* The last watermark of a log, and what one more element does to it. *)
lastOf(l) == Max({l[m].val : m \in {k \in 1..Len(l) : l[k].kind = "watermark"}} \cup {MinTime})

Timed(l) == \A m \in 1..Len(l) : l[m].kind = "watermark" => l[m].val \in Times

LEMMA LastOf ==
  ASSUME NEW l, Timed(l)
  PROVE  /\ lastOf(l) \in Times
         /\ lastOf(l) = MinTime \/ \E m \in 1..Len(l) : l[m].kind = "watermark" /\ l[m].val = lastOf(l)
         /\ \A m \in 1..Len(l) : l[m].kind = "watermark" => l[m].val <= lastOf(l)
<1>. DEFINE S == {l[m].val : m \in {k \in 1..Len(l) : l[k].kind = "watermark"}} \cup {MinTime}
<1>1. S \subseteq Times
  BY TimesAssumption DEF Times, Timed
<1>2. S \in SUBSET Int /\ S # {} /\ MaxTime \in Int /\ \A x \in S : x <= MaxTime
  BY <1>1, TimesAssumption DEF Times
<1>3. \A x : x \in S <=> x = MinTime \/ \E m \in 1..Len(l) : l[m].kind = "watermark" /\ l[m].val = x
  OBVIOUS
<1>4. lastOf(l) = Max(S)
  BY DEF lastOf
<1>. HIDE DEF S
<1>5. Max(S) \in S /\ \A y \in S : y <= Max(S)
  BY <1>2, MaxIsGreatest
<1>. QED
  BY <1>1, <1>3, <1>4, <1>5

LEMMA LastNext ==
  ASSUME NEW l \in Seq(Tagged(NumInputs)), Timed(l), NEW e \in Tagged(NumInputs)
  PROVE  /\ e.kind # "watermark" => Timed(Append(l, e)) /\ lastOf(Append(l, e)) = lastOf(l)
         /\ e.kind = "watermark" /\ e.val \in Times /\ e.val > lastOf(l)
              => Timed(Append(l, e)) /\ lastOf(Append(l, e)) = e.val
<1>. DEFINE h == Append(l, e)
            L == Len(l)
<1>1. /\ Len(h) = L + 1 /\ L \in Nat
      /\ \A n \in 1..L : n \in 1..Len(h) /\ h[n] = l[n]
      /\ h[L + 1] = e
      /\ \A n \in 1..Len(h) : n \in 1..L \/ n = L + 1
  BY OneMore
<1>2. L + 1 \in 1..Len(h)
  BY <1>1
<1>. HIDE DEF h
<1>3. CASE e.kind # "watermark"
  <2>1. \A n : n \in 1..Len(h) /\ h[n].kind = "watermark" <=> n \in 1..L /\ l[n].kind = "watermark"
    BY <1>1, <1>3
  <2>2. {h[m].val : m \in {k \in 1..Len(h) : h[k].kind = "watermark"}}
          = {l[m].val : m \in {k \in 1..Len(l) : l[k].kind = "watermark"}}
    BY <1>1, <2>1
  <2>3. lastOf(h) = lastOf(l)
    BY <2>2 DEF lastOf
  <2>4. Timed(h)
    BY <1>1, <2>1 DEF Timed
  <2>. QED
    BY <1>3, <2>3, <2>4 DEF h
<1>4. CASE e.kind = "watermark" /\ e.val \in Times /\ e.val > lastOf(l)
  <2>1. Timed(h)
    BY <1>1, <1>4 DEF Timed
  <2>2. /\ lastOf(h) \in Times
        /\ lastOf(h) = MinTime \/ \E m \in 1..Len(h) : h[m].kind = "watermark" /\ h[m].val = lastOf(h)
        /\ \A m \in 1..Len(h) : h[m].kind = "watermark" => h[m].val <= lastOf(h)
    BY <2>1, LastOf
  <2>3. /\ lastOf(l) \in Times
        /\ \A m \in 1..L : l[m].kind = "watermark" => l[m].val <= lastOf(l)
    BY LastOf
  <2>4. e.val <= lastOf(h)
    BY <1>1, <1>2, <1>4, <2>2
  <2>5. lastOf(h) <= e.val
    <3>1. CASE lastOf(h) = MinTime
      BY <1>4, <3>1, TimesAssumption DEF Times
    <3>2. CASE lastOf(h) # MinTime
      <4>1. PICK m \in 1..Len(h) : h[m].kind = "watermark" /\ h[m].val = lastOf(h)
        BY <2>2, <3>2
      <4>2. CASE m \in 1..L
        <5>1. lastOf(h) <= lastOf(l)
          BY <1>1, <2>3, <4>1, <4>2
        <5>. QED
          BY <1>4, <2>2, <2>3, <5>1, TimesAssumption DEF Times
      <4>3. CASE m = L + 1
        BY <1>1, <1>4, <4>1, <4>3, TimesAssumption DEF Times
      <4>. QED
        BY <1>1, <4>2, <4>3
    <3>. QED
      BY <3>1, <3>2
  <2>6. lastOf(h) = e.val
    BY <1>4, <2>2, <2>4, <2>5, TimesAssumption DEF Times
  <2>. QED
    BY <1>4, <2>1, <2>6 DEF h
<1>. QED
  BY <1>3, <1>4

LEMMA LastTime ==
  ASSUME Good(at, log)
  PROVE  /\ lastTime \in Times
         /\ lastTime = MinTime \/ \E m \in 1..Len(log) : log[m] = Own("watermark", lastTime)
         /\ \A m \in 1..Len(log) : log[m].kind = "watermark" => log[m].val <= lastTime
<1>1. Timed(log)
  BY DEF Good, Timely, Timed
<1>2. lastTime = lastOf(log)
  BY DEF lastTime, lastOf
<1>3. \A m \in 1..Len(log) : log[m].kind = "watermark" => log[m] = Own("watermark", log[m].val)
  BY DEF Good, Well
<1>. QED
  BY <1>1, <1>2, <1>3, LastOf

-----------------------------------------------------------------------------
(* The steps.                                                              *)

LEMMA PassKeeps ==
  ASSUME stream \in [Inputs -> Streams], Good(at, log),
         NEW i \in Inputs, at[i] < Len(stream[i]), next(i, at[i]).kind # "barrier"
  PROVE  Good(After(i), log \o Output(i))
<1>1. /\ at \in [Inputs -> Nat] /\ \A j \in Inputs : at[j] <= Len(stream[j])
      /\ log \in Seq(Tagged(NumInputs)) /\ at[i] + 1 \in 1..Len(stream[i])
      /\ at[i] + 1 \in Nat
  BY StreamElements DEF Good, Well
<1>2. CASE isAt(i, at[i] + 1, "record")
  <2>. DEFINE e == [input |-> i, pos |-> at[i] + 1, kind |-> "record", val |-> stream[i][at[i] + 1].val]
  <2>1. Output(i) = <<e>>
    BY <1>2 DEF Output, isAt, next
  <2>2. e \in Tagged(NumInputs)
    <3>1. stream[i][at[i] + 1] \in Element
      BY <1>1, StreamElements
    <3>. QED
      BY <1>1, <3>1, InputsAssumption DEF Element, Tagged, Kinds, Inputs
  <2>3. Good(After(i), Append(log, e))
    BY <1>2, RecordKeeps DEF After
  <2>. HIDE DEF e
  <2>4. log \o <<e>> = Append(log, e)
    BY <1>1, <2>2
  <2>. QED
    BY <2>1, <2>3, <2>4
<1>3. CASE ~isAt(i, at[i] + 1, "record")
  <2>. DEFINE b == After(i)
              w == low(b)
              rise == IF w > lastTime THEN <<Own("watermark", w)>> ELSE << >>
              over == (\A j \in Inputs : ended(j, b[j])) /\ ~ended(i, at[i])
              fin == IF over THEN <<Own("eos", 0)>> ELSE << >>
              h == log \o rise
  <2>1. Output(i) = rise \o fin
    BY <1>3 DEF Output, isAt, next
  <2>2. Good(b, log)
    <3>1. ~isAt(i, at[i] + 1, "barrier")
      BY DEF isAt, next
    <3>. QED
      BY <1>3, <3>1, PassAdvances DEF After
  <2>3. b \in [Inputs -> Nat] /\ \A j \in Inputs : b[j] <= Len(stream[j])
    BY <2>2 DEF Good, Well
  <2>. HIDE DEF b
  <2>4. w \in Times /\ w \in Int /\ ((\A j \in Inputs : ended(j, b[j])) => w = MaxTime)
    BY <2>3, LowTime, TimesAssumption DEF Times
  <2>5. /\ lastTime \in Times /\ lastTime \in Int
        /\ lastTime = MinTime \/ \E m \in 1..Len(log) : log[m] = Own("watermark", lastTime)
        /\ \A m \in 1..Len(log) : log[m].kind = "watermark" => log[m].val <= lastTime
    BY LastTime, TimesAssumption DEF Times
  <2>6. \A m \in 1..Len(log) : log[m].val \in Int
    <3>1. \A m \in 1..Len(log) : log[m] \in Tagged(NumInputs)
      BY <1>1
    <3>. QED
      BY <3>1 DEF Tagged
  <2>. HIDE DEF w
  <2>7. /\ Good(b, h) /\ h \in Seq(Tagged(NumInputs)) /\ Len(log) \in Nat
        /\ \A m \in 1..Len(log) : m \in 1..Len(h) /\ h[m] = log[m]
        /\ w > lastTime => Len(h) \in 1..Len(h) /\ h[Len(h)] = Own("watermark", w)
        /\ \A m \in 1..Len(h) : m \in 1..Len(log) \/ h[m].kind = "watermark"
    <3>1. CASE w > lastTime
      <4>1. Own("watermark", w) \in Tagged(NumInputs) /\ Own("watermark", w).kind = "watermark"
        BY <2>4, InputsAssumption DEF Own, Tagged, Kinds
      <4>2. h = Append(log, Own("watermark", w))
        BY <1>1, <3>1, <4>1
      <4>3. w > MinTime
        BY <2>4, <2>5, <3>1, TimesAssumption DEF Times
      <4>4. \A n \in 1..Len(log) : log[n].kind = "watermark" => log[n].val < w
        BY <2>4, <2>5, <2>6, <3>1
      <4>5. \A n \in 1..Len(log) : log[n].kind # "eos"
        <5>1. SUFFICES ASSUME NEW n \in 1..Len(log), log[n].kind = "eos" PROVE FALSE
          OBVIOUS
        <5>2. PICK m \in 1..n-1 : log[m] = Own("watermark", MaxTime)
          BY <5>1 DEF Good, EndsLast
        <5>3. m \in 1..Len(log) /\ log[m].kind = "watermark" /\ log[m].val = MaxTime
          BY <1>1, <5>2 DEF Own
        <5>4. MaxTime < w
          BY <4>4, <5>3
        <5>. QED
          BY <2>4, <5>4, TimesAssumption DEF Times
      <4>6. \A j \in Inputs : PastTime(b, j, w)
        BY <2>3, <4>3, LowIsPast DEF w
      <4>7. Good(b, Append(log, Own("watermark", w)))
        BY <2>2, <2>4, <4>3, <4>4, <4>5, <4>6, WatermarkKeeps
      <4>. HIDE DEF h
      <4>8. /\ h \in Seq(Tagged(NumInputs)) /\ Len(log) \in Nat /\ Len(h) = Len(log) + 1
            /\ \A n \in 1..Len(log) : n \in 1..Len(h) /\ h[n] = log[n]
            /\ h[Len(log) + 1] = Own("watermark", w)
            /\ \A n \in 1..Len(h) : n \in 1..Len(log) \/ n = Len(log) + 1
        BY <1>1, <4>1, <4>2, OneMore
      <4>. QED
        BY <4>1, <4>2, <4>7, <4>8
    <3>2. CASE ~(w > lastTime)
      <4>1. h = log
        BY <1>1, <3>2
      <4>. QED
        BY <1>1, <2>2, <3>2, <4>1
    <3>. QED
      BY <3>1, <3>2
  <2>8. Good(b, h \o fin)
    <3>1. CASE over
      <4>1. \A n \in 1..Len(log) : log[n].kind # "eos"
        BY <3>1 DEF Good, EndsLast
      <4>2. \A n \in 1..Len(h) : h[n].kind # "eos"
        BY <2>7, <4>1
      <4>3. w = MaxTime
        BY <2>4, <3>1
      <4>4. \E n \in 1..Len(h) : h[n] = Own("watermark", MaxTime)
        <5>1. CASE w > lastTime
          BY <2>7, <4>3, <5>1
        <5>2. CASE ~(w > lastTime)
          <6>1. lastTime = MaxTime /\ lastTime # MinTime
            BY <2>5, <4>3, <5>2, TimesAssumption DEF Times
          <6>. QED
            BY <2>5, <2>7, <6>1
        <5>. QED
          BY <5>1, <5>2
      <4>. HIDE DEF h
      <4>5. Good(b, Append(h, Own("eos", 0)))
        BY <2>7, <3>1, <4>2, <4>4, EndKeeps
      <4>6. fin = <<Own("eos", 0)>>
        BY <3>1
      <4>7. Own("eos", 0) \in Tagged(NumInputs)
        BY InputsAssumption DEF Own, Tagged, Kinds
      <4>. HIDE DEF fin
      <4>8. h \o fin = Append(h, Own("eos", 0))
        BY <2>7, <4>6, <4>7
      <4>. QED
        BY <4>5, <4>8
    <3>2. CASE ~over
      <4>1. fin = << >>
        BY <3>2
      <4>. HIDE DEF h, fin, over
      <4>2. h \o fin = h
        BY <2>7, <4>1
      <4>. QED
        BY <2>7, <4>2
    <3>. QED
      BY <3>1, <3>2
  <2>9. rise \in Seq(Tagged(NumInputs)) /\ fin \in Seq(Tagged(NumInputs))
    <3>1. Own("watermark", w) \in Tagged(NumInputs) /\ Own("eos", 0) \in Tagged(NumInputs)
      BY <2>4, InputsAssumption DEF Own, Tagged, Kinds
    <3>. QED
      BY <3>1
  <2>10. log \o (rise \o fin) = h \o fin
    <3>. HIDE DEF rise, fin
    <3>. QED
      BY <1>1, <2>9
  <2>. QED
    BY <2>1, <2>8, <2>10 DEF b, w
<1>. QED
  BY <1>2, <1>3

LEMMA CutStepKeeps ==
  ASSUME stream \in [Inputs -> Streams], Good(at, log), NEW k, Cut(k)
  PROVE  Good(at', log')
BY CutKeeps DEF Cut

LEMMA EndThenCutKeeps ==
  ASSUME stream \in [Inputs -> Streams], Good(at, log),
         NEW i \in Inputs, NEW k, EndThenCut(i, k)
  PROVE  Good(at', log')
<1>1. next(i, at[i]).kind # "barrier" /\ at[i] < Len(stream[i])
  BY DEF EndThenCut
<1>2. Good(After(i), log \o Output(i))
  BY <1>1, PassKeeps
<1>3. Good(Beyond(After(i)), Append(log \o Output(i), Own("barrier", k)))
  BY <1>2, CutKeeps DEF EndThenCut
<1>. QED
  BY <1>3 DEF EndThenCut

LEMMA StepKeeps ==
  ASSUME stream \in [Inputs -> Streams], Good(at, log), [Next]_vars
  PROVE  Good(at', log') /\ stream' = stream
<1>1. ASSUME NEW i \in Inputs, Pass(i) PROVE Good(at', log') /\ stream' = stream
  <2>1. Good(After(i), log \o Output(i))
    BY <1>1, PassKeeps DEF Pass
  <2>. QED
    BY <1>1, <2>1 DEF Pass
<1>2. ASSUME NEW k, Cut(k) PROVE Good(at', log') /\ stream' = stream
  <2>1. stream' = stream
    BY <1>2 DEF Cut
  <2>. QED
    BY <1>2, <2>1, CutStepKeeps
<1>3. ASSUME NEW i \in Inputs, NEW k, EndThenCut(i, k) PROVE Good(at', log') /\ stream' = stream
  <2>1. stream' = stream
    BY <1>3 DEF EndThenCut
  <2>. QED
    BY <1>3, <2>1, EndThenCutKeeps
<1>4. CASE UNCHANGED vars
  BY <1>4 DEF vars
<1>. QED
  BY <1>1, <1>2, <1>3, <1>4, Zenon DEF Next

LEMMA StartsGood ==
  ASSUME Init
  PROVE  stream \in [Inputs -> Streams] /\ Good(at, log)
<1>1. /\ stream \in [Inputs -> Streams] /\ at \in [Inputs -> Nat] /\ log = << >>
      /\ \A i \in Inputs : at[i] = 0
  BY DEF Init
<1>2. \A i \in Inputs : Len(stream[i]) \in Nat
  BY <1>1, StreamElements
<1>3. Len(log) = 0 /\ log \in Seq(Tagged(NumInputs)) /\ \A n \in 1..Len(log) : FALSE
  BY <1>1
<1>4. Well(at, log)
  BY <1>1, <1>2, <1>3 DEF Well
<1>5. InOrder(at, log)
  <2>1. \A i \in Inputs : recordsOf(log, i, Len(log)) = {}
    BY <1>3 DEF recordsOf
  <2>2. \A i \in Inputs : recordsBefore(i, at[i] + 1) = {}
    BY <1>1 DEF recordsBefore
  <2>. QED
    BY <1>3, <2>1, <2>2 DEF InOrder
<1>6. UpTo(at, log, RestoredID) /\ RestoredID \in Nat
  <2>1. \A v \in RestoredID+1..RestoredID : FALSE
    BY InputsAssumption
  <2>2. \A i \in Inputs : \A m \in 1..at[i] : FALSE
    BY <1>1
  <2>. QED
    BY <1>3, <2>1, <2>2, InputsAssumption DEF UpTo
<1>7. Cuts(log) /\ Numbered(log) /\ Timely(at, log) /\ NotLate(log) /\ EndsLast(at, log)
  BY <1>3 DEF Cuts, Numbered, Timely, NotLate, EndsLast
<1>. QED
  BY <1>1, <1>4, <1>5, <1>6, <1>7 DEF Good

LEMMA StaysGood ==
  stream \in [Inputs -> Streams] /\ Good(at, log) /\ [Next]_vars
    => (stream \in [Inputs -> Streams] /\ Good(at, log))'
<1>1. SUFFICES ASSUME stream \in [Inputs -> Streams], Good(at, log), [Next]_vars
               PROVE  (stream \in [Inputs -> Streams] /\ Good(at, log))'
  OBVIOUS
<1>2. Good(at', log') /\ stream' = stream
  BY <1>1, StepKeeps
<1>3. Good(at, log)'
  <2>1. /\ Well(at', log') /\ InOrder(at', log') /\ Cuts(log') /\ \E k \in Nat : UpTo(at', log', k)
        /\ Numbered(log') /\ Timely(at', log') /\ NotLate(log') /\ EndsLast(at', log')
    BY <1>2 DEF Good
  <2>3. Well(at, log)' /\ Numbered(log)' /\ NotLate(log)'
    BY <1>2, <2>1 DEF Well, Numbered, NotLate, isAt
  <2>4. InOrder(at, log)'
    BY <1>2, <2>1 DEF InOrder, recordsOf, recordsBefore, isAt
  <2>5. Cuts(log)'
    BY <1>2, <2>1 DEF Cuts, CutAt, recordsOf, recordsBefore, isAt
  <2>6. (\E k \in Nat : UpTo(at, log, k))'
    BY <1>2, <2>1, SMTT(30) DEF UpTo, ended, passedKind, isAt
  <2>7. Timely(at, log)'
    BY <1>2, <2>1 DEF Timely, PastTime, ended, passedKind, isAt
  <2>8. EndsLast(at, log)'
    BY <1>2, <2>1 DEF EndsLast, ended, passedKind
  <2>. QED
    BY <2>3, <2>4, <2>5, <2>6, <2>7, <2>8 DEF Good
<1>. QED
  BY <1>1, <1>2, <1>3

(* What a merge that takes every barrier on all live inputs at once sends   *)
(* downstream is, for any number of inputs and any well-formed streams, in  *)
(* the order of every input, cut by every barrier exactly where each input  *)
(* sent its own, early for no record, and ended once, last, when time is    *)
(* over (what gate.go promises its subtask).                                *)
THEOREM MergeIsGood == Spec => [](stream \in [Inputs -> Streams] /\ Good(at, log))
<1>1. Init => stream \in [Inputs -> Streams] /\ Good(at, log)
  BY StartsGood
<1>. QED
  BY <1>1, StaysGood, PTL DEF Spec
=============================================================================
