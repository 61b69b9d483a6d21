---------------------------- MODULE WindowProofs ----------------------------
(***************************************************************************)
(* Proofs about WindowedRun: for every range of times, every window and    *)
(* lateness in it, every set of inputs and any number of crashes.          *)
(***************************************************************************)
EXTENDS WindowedRun, DataLemmas, FiniteSetTheorems

Sendable ==
  [kind : {"record"}, val : Records]
    \cup [kind : {"watermark"}, val : Times]
    \cup [kind : {"barrier"}, val : [id : 0..budget, position : 0..Len(input)]]

(* The state a snapshot holds, and the one an operator works on. *)
KeyedState == [counts : [Windows -> Nat], timers : SUBSET Windows, watermark : Times]

armed(s) == \A w \in s.timers : s.counts[w] > 0

(* The inductive invariant: what is on its way has its type, and the timers *)
(* of the snapshot have their counts as well as those of the live state.    *)
IInv ==
  /\ input \in Inputs /\ position \in 0..Len(input)
  /\ wmGen \in [sinceLast : Int, maxEventTime : Times, lastEmitted : Times]
  /\ barGen \in [sinceLast : Int, injected : 0..budget]
  /\ chan \in Seq(Sendable)
  /\ gateOut \in Times
  /\ st \in KeyedState /\ armed(st)
  /\ saved.id \in 0..budget /\ saved.position \in 0..Len(input)
  /\ saved.st \in KeyedState /\ armed(saved.st)
  /\ crashes \in Nat

-----------------------------------------------------------------------------
(* subFloor is the difference, cut off at the end it runs past. *)
LEMMA SubFloorClamps ==
  ASSUME NEW a \in Times, NEW b \in 0..MaxTime
  PROVE  /\ subFloor(a, b) \in Times
         /\ subFloor(a, b) = IF a - b < MinTime THEN MinTime ELSE a - b
BY TimeAssumption DEF subFloor, wrap, Times

(* addCeil is the sum, cut off at the upper end. *)
LEMMA AddCeilClamps ==
  ASSUME NEW a \in Times, NEW b \in 0..MaxTime
  PROVE  /\ addCeil(a, b) \in Times
         /\ addCeil(a, b) = IF a + b > MaxTime THEN MaxTime ELSE a + b
BY TimeAssumption DEF addCeil, wrap, Times

(* Keys written with EncodeOrderedInt64 sort as the times do, the negative *)
(* ones too.                                                               *)
LEMMA EncodingKeepsOrder ==
  ASSUME NEW a \in Times, NEW b \in Times
  PROVE  /\ EncodeOrderedInt64(a) < EncodeOrderedInt64(b) <=> a < b
         /\ EncodeOrderedInt64(a) = EncodeOrderedInt64(b) <=> a = b
BY TimeAssumption DEF EncodeOrderedInt64, bigEndian, Times

(* A window fires at a time of the range. *)
LEMMA FireTimeType ==
  ASSUME NEW s \in Times
  PROVE  /\ fireTimeOf(s) \in Times
         /\ fireTimeOf(s) = IF s + Size - 1 > MaxTime THEN MaxTime ELSE s + Size - 1
BY TimeAssumption, WindowAssumption DEF fireTimeOf, addCeil, wrap, Times

(* Whatever purges a window has fired it. *)
LEMMA PurgedHasFired ==
  ASSUME NEW s \in Times, NEW wm \in Times, isPurged(wm, s)
  PROVE  fireTimeOf(s) <= wm
<1>1. Size \in 0..MaxTime /\ AllowedLateness \in 0..MaxTime
  BY WindowAssumption, TimeAssumption
<1>2. PICK end \in Times : /\ end = addCeil(s, Size)
                          /\ end = IF s + Size > MaxTime THEN MaxTime ELSE s + Size
  BY <1>1, AddCeilClamps
<1>3. addCeil(end, AllowedLateness) =
        IF end + AllowedLateness > MaxTime THEN MaxTime ELSE end + AllowedLateness
  BY <1>1, AddCeilClamps
<1>4. wm > addCeil(end, AllowedLateness)
  BY <1>2 DEF isPurged
<1>. QED
  BY <1>1, <1>2, <1>3, <1>4, FireTimeType, TimeAssumption, WindowAssumption DEF Times

(* The scan that stops early misses nothing: a timer it leaves is not due. *)
LEMMA LeftIsNotDue ==
  ASSUME NEW s, s.timers \subseteq Windows, NEW wm \in Times,
         NEW w \in s.timers, w \notin due(s, wm)
  PROVE  fireTimeOf(w[2]) > wm
<1>1. PICK v \in s.timers : (v = w \/ timerBefore(v, w)) /\ ~(fireTimeOf(v[2]) <= wm)
  BY DEF due
<1>2. /\ v[2] \in Times /\ w[2] \in Times /\ v[1] \in Keys /\ w[1] \in Keys
  BY DEF Windows
<1>3. fireTimeOf(v[2]) \in Times /\ fireTimeOf(w[2]) \in Times
  BY <1>2, FireTimeType
<1>4. fireTimeOf(v[2]) <= fireTimeOf(w[2])
  <2>1. CASE v = w
    BY <2>1, <1>3, TimeAssumption DEF Times
  <2>2. CASE timerBefore(v, w)
    <3>1. \/ EncodeOrderedInt64(fireTimeOf(v[2])) < EncodeOrderedInt64(fireTimeOf(w[2]))
          \/ EncodeOrderedInt64(fireTimeOf(v[2])) = EncodeOrderedInt64(fireTimeOf(w[2]))
      BY <2>2 DEF timerBefore
    <3>. QED
      BY <3>1, <1>3, EncodingKeepsOrder, TimeAssumption DEF Times
  <2>. QED
    BY <1>1, <2>1, <2>2
<1>. QED
  BY <1>1, <1>3, <1>4, TimeAssumption DEF Times

-----------------------------------------------------------------------------
(* A record is counted in the windows it arms. *)
LEMMA ProcessElementKeeps ==
  ASSUME NEW s \in KeyedState, armed(s), NEW rec \in Records
  PROVE  /\ ProcessElement(s, rec) \in KeyedState
         /\ armed(ProcessElement(s, rec))
         /\ ProcessElement(s, rec).watermark = s.watermark
<1>1. openFor(s, rec) \subseteq Windows
  BY InputsAssumption DEF openFor, windowsFor, Windows
<1>. DEFINE counts == [w \in Windows |-> IF w \in openFor(s, rec) THEN s.counts[w] + 1
                                       ELSE s.counts[w]]
<1>2. counts \in [Windows -> Nat]
  BY DEF KeyedState
<1>3. ProcessElement(s, rec) =
        [s EXCEPT !.counts = counts, !.timers = s.timers \cup openFor(s, rec)]
  BY DEF ProcessElement
<1>4. \A w \in s.timers \cup openFor(s, rec) : counts[w] > 0
  BY <1>1 DEF armed, KeyedState
<1>. HIDE DEF counts
<1>. QED
  BY <1>1, <1>2, <1>3, <1>4 DEF KeyedState, armed

(* A watermark fires before it purges, so the timers it leaves keep their  *)
(* counts, and none of them is due.                                        *)
LEMMA ProcessWatermarkKeeps ==
  ASSUME NEW s \in KeyedState, armed(s), NEW wm \in Times
  PROVE  /\ ProcessWatermark(s, wm) \in KeyedState
         /\ armed(ProcessWatermark(s, wm))
         /\ ProcessWatermark(s, wm).watermark = wm
         /\ \A w \in ProcessWatermark(s, wm).timers : fireTimeOf(w[2]) > wm
<1>. DEFINE counts == [w \in Windows |-> IF isPurged(wm, w[2]) THEN 0 ELSE s.counts[w]]
            timers == s.timers \ due(s, wm)
<1>1. ProcessWatermark(s, wm) =
        [s EXCEPT !.watermark = wm, !.timers = timers, !.counts = counts]
  BY DEF ProcessWatermark
<1>2. counts \in [Windows -> Nat]
  BY DEF KeyedState
<1>3. timers \subseteq Windows
  BY DEF KeyedState
<1>4. ASSUME NEW w \in timers
      PROVE  fireTimeOf(w[2]) > wm /\ counts[w] > 0
  <2>1. w \in Windows /\ w[2] \in Times
    BY <1>3 DEF Windows
  <2>2. fireTimeOf(w[2]) > wm
    BY LeftIsNotDue DEF KeyedState
  <2>3. ~isPurged(wm, w[2])
    BY <2>1, <2>2, PurgedHasFired, FireTimeType, TimeAssumption DEF Times
  <2>4. s.counts[w] > 0
    BY DEF armed
  <2>. QED
    BY <2>1, <2>2, <2>3, <2>4
<1>. HIDE DEF counts, timers
<1>. QED
  BY <1>1, <1>2, <1>3, <1>4 DEF KeyedState, armed

(* The watermark generator stays in the range of times. *)
LEMMA GeneratorType ==
  ASSUME NEW g \in [sinceLast : Int, maxEventTime : Times, lastEmitted : Times],
         NEW time \in Times
  PROVE  watermarkOnRecord(g, time, WatermarkInterval, MaxOutOfOrderness)
           \in [sinceLast : Int, maxEventTime : Times, lastEmitted : Times]
<1>. DEFINE seen == [g EXCEPT !.maxEventTime = IF time > @ THEN time ELSE @]
            next == candidate(seen.maxEventTime, MaxOutOfOrderness)
<1>1. seen \in [sinceLast : Int, maxEventTime : Times, lastEmitted : Times]
  OBVIOUS
<1>2. next \in Times
  <2>1. seen.maxEventTime \in Times /\ MaxOutOfOrderness \in 0..MaxTime /\ 1 \in 0..MaxTime
    BY <1>1, InputsAssumption, TimeAssumption, WindowAssumption
  <2>2. subFloor(seen.maxEventTime, MaxOutOfOrderness) \in Times
    BY <2>1, SubFloorClamps
  <2>. QED
    BY <2>1, <2>2, SubFloorClamps DEF candidate
<1>. DEFINE last == IF next > g.lastEmitted THEN next ELSE g.lastEmitted
            Generators == [sinceLast : Int, maxEventTime : Times, lastEmitted : Times]
<1>3. last \in Times
  BY <1>2
<1>. HIDE DEF next, seen, last
<1>4. watermarkOnRecord(g, time, WatermarkInterval, MaxOutOfOrderness) \in
        {seen, [seen EXCEPT !.sinceLast = @ + 1],
         [seen EXCEPT !.sinceLast = 0, !.lastEmitted = last]}
  BY InputsAssumption DEF watermarkOnRecord, seen, next, last
<1>5. [seen EXCEPT !.sinceLast = @ + 1] \in Generators
  BY <1>1
<1>6. [seen EXCEPT !.sinceLast = 0, !.lastEmitted = last] \in Generators
  <2>1. \A x \in Generators, v \in Times : [x EXCEPT !.lastEmitted = v] \in Generators
    OBVIOUS
  <2>2. [seen EXCEPT !.sinceLast = 0] \in Generators
    BY <1>1
  <2>. HIDE DEF Generators
  <2>. QED
    BY <2>1, <2>2, <1>3
<1>. QED
  BY <1>1, <1>4, <1>5, <1>6

(* The barrier generator stays within its budget, and so do the IDs. *)
LEMMA BarrierType ==
  ASSUME NEW g \in [sinceLast : Int, injected : 0..budget], budget \in Nat
  PROVE  /\ barrierOnRecord(g, BarrierInterval, budget) \in [sinceLast : Int, injected : 0..budget]
         /\ barrierAfter(g, BarrierInterval, budget) \in 0..budget
BY DEF barrierOnRecord, barrierAfter, countsBarrier

(* The budget is a number of barriers. *)
LEMMA BudgetType ==
  ASSUME input \in Inputs
  PROVE  budget \in Nat /\ Len(input) \in Nat
<1>1. Len(input) \in Nat /\ BarrierInterval \in Nat
  BY InputsAssumption
<1>2. Len(input) \div 1 \in Nat
  BY <1>1
<1>3. BarrierInterval > 0 => (Len(input) \div 1) \div BarrierInterval \in Nat
  BY <1>1, <1>2
<1>. QED
  BY <1>1, <1>3 DEF budget, maxBarriers

-----------------------------------------------------------------------------
(* A run starts with empty state and nothing on its way. *)
LEMMA InitIInv == Init => IInv
<1>. SUFFICES ASSUME Init PROVE IInv
  OBVIOUS
<1>1. input \in Inputs /\ budget \in Nat /\ Len(input) \in Nat
  BY BudgetType DEF Init
<1>2. MinTime \in Times
  BY TimeAssumption DEF Times
<1>3. newState \in KeyedState /\ armed(newState)
  BY <1>2 DEF newState, KeyedState, armed
<1>. QED
  BY <1>1, <1>2, <1>3
  DEF Init, IInv, atStart, newWatermarkGenerator, newBarrierGenerator

(* Every step keeps the invariant. *)
LEMMA NextIInv == IInv /\ [Next]_vars => IInv'
<1>. SUFFICES ASSUME IInv, [Next]_vars PROVE IInv'
  OBVIOUS
<1>1. budget \in Nat /\ Len(input) \in Nat
  BY BudgetType DEF IInv
<1>2. input' = input /\ budget' = budget /\ Sendable' = Sendable
  BY DEF Next, vars, SourceEmits, OperatorRecord, OperatorWatermark, OperatorBarrier,
         OperatorEnd, CrashAndResume, budget, Sendable
<1>3. CASE SourceEmits
  <2>. DEFINE rec == input[position + 1]
              next == watermarkOnRecord(wmGen, rec.time, WatermarkInterval, MaxOutOfOrderness)
              id == barrierAfter(barGen, BarrierInterval, budget)
              mark == IF watermarkDue(wmGen, next) THEN <<element("watermark", next.lastEmitted)>>
                      ELSE << >>
              barrier == IF id > 0
                         THEN <<element("barrier", [id |-> id, position |-> position + 1])>>
                         ELSE << >>
  <2>1. position + 1 \in 1..Len(input) /\ rec \in Records
    <3>1. input \in Seq(Records)
      BY InputsAssumption DEF IInv
    <3>2. position + 1 \in 1..Len(input)
      BY <1>1, <1>3 DEF SourceEmits, IInv
    <3>. QED
      BY <3>1, <3>2
  <2>2. next \in [sinceLast : Int, maxEventTime : Times, lastEmitted : Times]
    BY <2>1, GeneratorType, InputsAssumption DEF IInv
  <2>3. /\ barrierOnRecord(barGen, BarrierInterval, budget)
             \in [sinceLast : Int, injected : 0..budget]
        /\ id \in 0..budget
    BY <1>1, BarrierType DEF IInv
  <2>4. /\ chan' = chan \o <<element("record", rec)>> \o mark \o barrier
        /\ wmGen' = next
        /\ barGen' = barrierOnRecord(barGen, BarrierInterval, budget)
        /\ position' = position + 1
        /\ UNCHANGED <<gateOut, st, saved, crashes>>
    BY <1>3 DEF SourceEmits
  <2>. HIDE DEF rec, next, id
  <2>5. <<element("record", rec)>> \in Seq(Sendable)
    BY <2>1 DEF element, Sendable
  <2>6. mark \in Seq(Sendable)
    <3>1. element("watermark", next.lastEmitted) \in Sendable
      BY <2>2 DEF element, Sendable
    <3>. QED
      BY <3>1
  <2>7. barrier \in Seq(Sendable)
    <3>1. id > 0 => element("barrier", [id |-> id, position |-> position + 1]) \in Sendable
      BY <2>1, <2>3, <1>1 DEF element, Sendable
    <3>. QED
      BY <3>1
  <2>. HIDE DEF mark, barrier
  <2>8. chan' \in Seq(Sendable)
    BY <2>4, <2>5, <2>6, <2>7 DEF IInv
  <2>. QED
    BY <1>1, <1>2, <2>1, <2>2, <2>3, <2>4, <2>8 DEF IInv
<1>4. ASSUME chan # << >>
      PROVE  Head(chan) \in Sendable /\ Tail(chan) \in Seq(Sendable)
  BY <1>4 DEF IInv
<1>5. CASE OperatorRecord
  <2>1. Head(chan).val \in Records /\ Tail(chan) \in Seq(Sendable)
    BY <1>4, <1>5 DEF OperatorRecord, received, Sendable
  <2>2. st' \in KeyedState /\ armed(st')
    BY <1>5, <2>1, ProcessElementKeeps DEF OperatorRecord, IInv
  <2>. QED
    BY <1>2, <1>5, <2>1, <2>2 DEF OperatorRecord, IInv
<1>6. CASE OperatorWatermark
  <2>1. Head(chan).val \in Times /\ Tail(chan) \in Seq(Sendable)
    BY <1>4, <1>6 DEF OperatorWatermark, received, Sendable
  <2>2. st' \in KeyedState /\ armed(st') /\ gateOut' \in Times
    BY <1>6, <2>1, ProcessWatermarkKeeps DEF OperatorWatermark, IInv
  <2>. QED
    BY <1>2, <1>6, <2>1, <2>2 DEF OperatorWatermark, IInv
<1>7. CASE OperatorBarrier
  <2>1. /\ Head(chan).val \in [id : 0..budget, position : 0..Len(input)]
        /\ Tail(chan) \in Seq(Sendable)
    BY <1>4, <1>7 DEF OperatorBarrier, received, Sendable
  <2>. QED
    BY <1>2, <1>7, <2>1 DEF OperatorBarrier, IInv
<1>8. CASE OperatorEnd
  <2>1. MaxTime \in Times
    BY TimeAssumption DEF Times
  <2>2. st' \in KeyedState /\ armed(st')
    BY <1>8, <2>1, ProcessWatermarkKeeps DEF OperatorEnd, IInv
  <2>. QED
    BY <1>2, <1>8, <2>1, <2>2 DEF OperatorEnd, IInv
<1>9. CASE CrashAndResume
  <2>1. MinTime \in Times
    BY TimeAssumption DEF Times
  <2>2. << >> \in Seq(Sendable)
    OBVIOUS
  <2>. QED
    BY <1>1, <1>2, <1>9, <2>1, <2>2
    DEF CrashAndResume, IInv, newWatermarkGenerator, resumed
<1>10. CASE UNCHANGED vars
  BY <1>2, <1>10 DEF vars, IInv
<1>. QED
  BY <1>3, <1>5, <1>6, <1>7, <1>8, <1>9, <1>10 DEF Next

(* The invariant holds throughout a run. *)
THEOREM Inductive == Spec => []IInv
BY InitIInv, NextIInv, PTL DEF Spec

(* Every variable keeps its type: no time leaves the range, no source goes *)
(* past its budget, resumed or not.                                        *)
THEOREM TypeCorrect == Spec => []TypeOK
<1>1. IInv => TypeOK
  BY DEF IInv, TypeOK, StateOK, KeyedState
<1>. QED
  BY <1>1, Inductive, PTL

(* fire never finds a timer without a count, after any number of crashes   *)
(* and wherever the restored watermark has fallen back to: the branch that *)
(* window.go calls unreachable is.                                         *)
THEOREM NoTimerWithoutState == Spec => []TimersHaveState
<1>1. IInv => TimersHaveState
  BY DEF IInv, TimersHaveState, armed
<1>. QED
  BY <1>1, Inductive, PTL

(* The early end of the timer scan leaves nothing behind that is due. *)
THEOREM NothingDueIsLeft == Spec => FiredInTime
<1>. DEFINE Step == crashes' = crashes /\ st'.watermark # st.watermark
                      => \A w \in st'.timers : fireTimeOf(w[2]) > st'.watermark
<1>1. IInv /\ [Next]_vars => [Step]_vars
  <2>. SUFFICES ASSUME IInv, Next, crashes' = crashes, st'.watermark # st.watermark
                PROVE  \A w \in st'.timers : fireTimeOf(w[2]) > st'.watermark
    OBVIOUS
  <2>1. chan # << >> => Head(chan) \in Sendable
    BY DEF IInv
  <2>2. CASE OperatorRecord
    <3>1. Head(chan).val \in Records
      BY <2>1, <2>2 DEF OperatorRecord, received, Sendable
    <3>. QED
      BY <2>2, <3>1, ProcessElementKeeps DEF OperatorRecord, IInv
  <2>3. CASE OperatorWatermark
    <3>1. Head(chan).val \in Times
      BY <2>1, <2>3 DEF OperatorWatermark, received, Sendable
    <3>2. CASE Head(chan).val > gateOut
      <4>1. st' = ProcessWatermark(st, Head(chan).val)
        BY <2>3, <3>2 DEF OperatorWatermark
      <4>. QED
        BY <4>1, <3>1, ProcessWatermarkKeeps DEF IInv
    <3>3. CASE ~(Head(chan).val > gateOut)
      BY <2>3, <3>3 DEF OperatorWatermark
    <3>. QED
      BY <3>2, <3>3
  <2>4. CASE OperatorEnd
    <3>1. MaxTime \in Times
      BY TimeAssumption DEF Times
    <3>. QED
      BY <2>4, <3>1, ProcessWatermarkKeeps DEF OperatorEnd, IInv
  <2>5. CASE SourceEmits \/ OperatorBarrier \/ UNCHANGED vars
    BY <2>5 DEF SourceEmits, OperatorBarrier, vars
  <2>6. ~CrashAndResume
    <3>. SUFFICES ASSUME CrashAndResume PROVE FALSE
      OBVIOUS
    <3>. QED
      BY DEF CrashAndResume, IInv
  <2>. QED
    BY <2>2, <2>3, <2>4, <2>5, <2>6 DEF Next
<1>. QED
  BY <1>1, Inductive, PTL DEF Spec, FiredInTime

-----------------------------------------------------------------------------
(* What a watermark emits.                                                 *)

Emitted == [key : Keys, time : Times, count : Nat]

(* Timers are in a strict order, and no two are alike. *)
LEMMA TimersAreOrdered ==
  ASSUME NEW v \in Windows, NEW w \in Windows
  PROVE  /\ v # w => timerBefore(v, w) \/ timerBefore(w, v)
         /\ ~(timerBefore(v, w) /\ timerBefore(w, v))
         /\ \A x \in Windows : timerBefore(x, v) /\ timerBefore(v, w) => timerBefore(x, w)
<1>. DEFINE fire(x) == EncodeOrderedInt64(fireTimeOf(x[2]))
            start(x) == bigEndian(x[2])
            before(x, y) == \/ fire(x) < fire(y)
                            \/ fire(x) = fire(y) /\ x[1] < y[1]
                            \/ fire(x) = fire(y) /\ x[1] = y[1] /\ start(x) < start(y)
<1>1. \A x, y \in Windows : timerBefore(x, y) <=> before(x, y)
  BY DEF timerBefore
<1>2. \A x \in Windows : fire(x) \in Int /\ start(x) \in Int /\ x[1] \in Int
  <2>. SUFFICES ASSUME NEW x \in Windows PROVE fire(x) \in Int /\ start(x) \in Int /\ x[1] \in Int
    OBVIOUS
  <2>1. x[1] \in Int /\ x[2] \in Times /\ fireTimeOf(x[2]) \in Times
    BY FireTimeType, WindowAssumption DEF Windows
  <2>. QED
    BY <2>1, TimeAssumption DEF EncodeOrderedInt64, bigEndian, Times
<1>3. v # w => v[1] # w[1] \/ start(v) # start(w)
  <2>1. v = <<v[1], v[2]>> /\ w = <<w[1], w[2]>> /\ v[2] \in Times /\ w[2] \in Times
    BY DEF Windows
  <2>2. start(v) = start(w) => v[2] = w[2]
    BY <2>1, TimeAssumption DEF bigEndian, Times
  <2>. HIDE DEF start
  <2>. QED
    BY <2>1, <2>2
<1>. HIDE DEF fire, start
<1>4. before(v, w) \/ before(w, v) \/ ~(v[1] # w[1] \/ start(v) # start(w))
  BY <1>2
<1>5. ~(before(v, w) /\ before(w, v))
  BY <1>2
<1>6. ASSUME NEW x \in Windows, before(x, v), before(v, w) PROVE before(x, w)
  BY <1>2, <1>6
<1>. HIDE DEF before
<1>. QED
  BY <1>1, <1>3, <1>4, <1>5, <1>6

(* The scan comes to every timer, and to nothing else. *)
LEMMA InOrderIsAll ==
  ASSUME NEW S \in SUBSET Windows, IsFiniteSet(S)
  PROVE  /\ Cardinality(S) \in Nat
         /\ \A n \in 1..Cardinality(S) : inOrder(S)[n] \in S
         /\ \A w \in S : \E n \in 1..Cardinality(S) : inOrder(S)[n] = w
<1>. DEFINE N == Cardinality(S)
            below(w) == {v \in S : timerBefore(v, w)}
            rank == [w \in S |-> Cardinality(below(w)) + 1]
<1>1. N \in Nat
  BY FS_CardinalityType
<1>2. ASSUME NEW w \in S
      PROVE  IsFiniteSet(below(w)) /\ Cardinality(below(w)) \in Nat /\ Cardinality(below(w)) < N
  <2>1. below(w) \in SUBSET S /\ w \notin below(w)
    BY TimersAreOrdered
  <2>2. IsFiniteSet(below(w)) /\ Cardinality(below(w)) <= N /\ (N = Cardinality(below(w)) => S = below(w))
    BY <2>1, FS_Subset
  <2>3. Cardinality(below(w)) \in Nat
    BY <2>2, FS_CardinalityType
  <2>. QED
    BY <1>1, <2>1, <2>2, <2>3
<1>3. ASSUME NEW v \in S, NEW w \in S, timerBefore(v, w)
      PROVE  Cardinality(below(v)) < Cardinality(below(w))
  <2>1. below(v) \in SUBSET below(w)
    BY <1>3, TimersAreOrdered
  <2>2. v \in below(w) /\ v \notin below(v)
    BY <1>3, TimersAreOrdered
  <2>3. IsFiniteSet(below(w))
    BY <1>2
  <2>4. /\ Cardinality(below(v)) <= Cardinality(below(w))
        /\ Cardinality(below(w)) = Cardinality(below(v)) => below(w) = below(v)
    BY <2>1, <2>3, FS_Subset
  <2>5. Cardinality(below(v)) \in Nat /\ Cardinality(below(w)) \in Nat
    BY <1>2
  <2>6. below(w) # below(v)
    BY <2>2, Zenon
  <2>. HIDE DEF below
  <2>. QED
    BY <2>4, <2>5, <2>6
<1>. HIDE DEF below
<1>4. \A v, w \in S : v # w => Cardinality(below(v)) # Cardinality(below(w))
  BY <1>2, <1>3, TimersAreOrdered
<1>5. rank \in Injection(S, 1..N)
  <2>1. rank \in [S -> 1..N]
    BY <1>1, <1>2
  <2>2. \A v, w \in S : rank[v] = rank[w] => v = w
    BY <1>2, <1>4
  <2>. QED
    BY <2>1, <2>2 DEF Injection, IsInjective
<1>6. rank \in Surjection(S, 1..N)
  <2>1. IsFiniteSet(1..N) /\ Cardinality(1..N) = N
    BY <1>1, FS_Interval
  <2>. QED
    BY <1>5, <2>1, FS_Injection
<1>7. ASSUME NEW n \in 1..N, NEW w \in S, rank[w] = n PROVE inOrder(S)[n] = w
  <2>1. inOrder(S)[n] = CHOOSE x \in S : Cardinality(below(x)) = n - 1
    BY DEF inOrder, below
  <2>2. Cardinality(below(w)) = n - 1
    BY <1>2, <1>7
  <2>3. \A x \in S : Cardinality(below(x)) = n - 1 => x = w
    BY <1>4, <2>2
  <2>. QED
    BY <2>1, <2>2, <2>3
<1>8. ASSUME NEW n \in 1..N PROVE inOrder(S)[n] \in S
  <2>1. PICK w \in S : rank[w] = n
    BY <1>6 DEF Surjection
  <2>. QED
    BY <1>7, <2>1
<1>9. ASSUME NEW w \in S PROVE \E n \in 1..N : inOrder(S)[n] = w
  <2>1. rank[w] \in 1..N
    BY <1>1, <1>2
  <2>. QED
    BY <1>7, <2>1
<1>. QED
  BY <1>1, <1>8, <1>9

(* It emits the count of every timer that is due, and of no other. *)
LEMMA FiredIsDue ==
  ASSUME NEW s \in KeyedState, IsFiniteSet(s.timers), NEW wm \in Times
  PROVE  /\ fired(s, wm) \in Seq(Emitted)
         /\ \A n \in 1..Len(fired(s, wm)) : \E w \in due(s, wm) :
              fired(s, wm)[n] = [key |-> w[1], time |-> fireTimeOf(w[2]), count |-> s.counts[w]]
         /\ \A w \in due(s, wm) : \E n \in 1..Len(fired(s, wm)) :
              fired(s, wm)[n] = [key |-> w[1], time |-> fireTimeOf(w[2]), count |-> s.counts[w]]
<1>. DEFINE D == due(s, wm)
            order == inOrder(D)
            emit(w) == [key |-> w[1], time |-> fireTimeOf(w[2]), count |-> s.counts[w]]
<1>1. D \in SUBSET s.timers /\ D \in SUBSET Windows
  BY DEF due, KeyedState
<1>2. IsFiniteSet(D)
  BY <1>1, FS_Subset
<1>. HIDE DEF D
<1>3. /\ Cardinality(D) \in Nat /\ \A n \in 1..Cardinality(D) : order[n] \in D
      /\ \A w \in D : \E n \in 1..Cardinality(D) : order[n] = w
  BY <1>1, <1>2, InOrderIsAll
<1>4. \A w \in D : emit(w) \in Emitted
  <2>. SUFFICES ASSUME NEW w \in D PROVE emit(w) \in Emitted
    OBVIOUS
  <2>1. w \in Windows /\ w[1] \in Keys /\ w[2] \in Times
    BY <1>1 DEF Windows
  <2>2. fireTimeOf(w[2]) \in Times /\ s.counts[w] \in Nat
    BY <2>1, FireTimeType DEF KeyedState
  <2>. QED
    BY <2>1, <2>2 DEF Emitted
<1>. HIDE DEF order
<1>5. fired(s, wm) = [n \in 1..Cardinality(D) |-> emit(order[n])]
  BY DEF fired, D, order
<1>. HIDE DEF emit
<1>6. fired(s, wm) \in Seq(Emitted) /\ Len(fired(s, wm)) = Cardinality(D)
  BY <1>3, <1>4, <1>5
<1>7. \A n \in 1..Cardinality(D) : fired(s, wm)[n] = emit(order[n])
  BY <1>5
<1>. QED
  BY <1>3, <1>6, <1>7 DEF D, emit
-----------------------------------------------------------------------------
(* Nothing is left unreported.                                             *)

LastFor(o, w) ==
  LET of == {n \in 1..Len(o) : o[n].key = w[1] /\ o[n].time = fireTimeOf(w[2])}
  IN IF of = {} THEN 0 ELSE o[Max(of)].count

(* NothingUnreported, of any state and output. *)
Reported(s, o) ==
  \A w \in Windows :
    s.counts[w] > 0 /\ fireTimeOf(w[2]) < MaxTime => w \in s.timers \/ LastFor(o, w) = s.counts[w]

(* The inductive invariant has it of the checkpoint too.  An operator has  *)
(* finitely many timers, without which the order of the scan means nothing.*)
RInv ==
  /\ out \in Seq(Emitted) /\ saved.out \in Seq(Emitted)
  /\ IsFiniteSet(st.timers) /\ IsFiniteSet(saved.st.timers)
  /\ Reported(st, out) /\ Reported(saved.st, saved.out)

(* What is emitted later for a window is what counts. *)
LEMMA LastOfTwo ==
  ASSUME NEW o \in Seq(Emitted), NEW f \in Seq(Emitted), NEW w
  PROVE  /\ (\A n \in 1..Len(f) : ~(f[n].key = w[1] /\ f[n].time = fireTimeOf(w[2])))
              => LastFor(o \o f, w) = LastFor(o, w)
         /\ \A c \in Nat, m \in 1..Len(f) :
              (/\ f[m].key = w[1] /\ f[m].time = fireTimeOf(w[2])
               /\ \A n \in 1..Len(f) :
                    f[n].key = w[1] /\ f[n].time = fireTimeOf(w[2]) => f[n].count = c)
              => LastFor(o \o f, w) = c
<1>. DEFINE hit(e) == e.key = w[1] /\ e.time = fireTimeOf(w[2])
            in(q) == {n \in 1..Len(q) : hit(q[n])}
            both == o \o f
<1>1. /\ Len(o) \in Nat /\ Len(f) \in Nat /\ Len(both) = Len(o) + Len(f)
      /\ \A n \in 1..Len(o) : n \in 1..Len(both) /\ both[n] = o[n]
      /\ \A n \in 1..Len(f) : Len(o) + n \in 1..Len(both) /\ both[Len(o) + n] = f[n]
      /\ \A n \in 1..Len(both) : n \in 1..Len(o) \/ (n > Len(o) /\ n - Len(o) \in 1..Len(f) /\ both[n] = f[n - Len(o)])
  OBVIOUS
<1>. HIDE DEF hit, both
<1>2. \A q : LastFor(q, w) = IF in(q) = {} THEN 0 ELSE q[Max(in(q))].count
  BY DEF LastFor, hit
<1>3. ASSUME in(both) # {}
      PROVE  Max(in(both)) \in in(both) /\ \A n \in in(both) : n <= Max(in(both))
  <2>1. in(both) \in SUBSET Int /\ Len(both) \in Int /\ \A n \in in(both) : n <= Len(both)
    BY <1>1
  <2>. HIDE DEF in
  <2>. QED
    BY <1>3, <2>1, MaxIsGreatest
<1>4. ASSUME in(f) = {} PROVE LastFor(both, w) = LastFor(o, w)
  <2>1. in(both) = in(o)
    <3>1. ASSUME NEW n \in in(both) PROVE n \in in(o)
      <4>1. n \in 1..Len(both) /\ hit(both[n])
        OBVIOUS
      <4>2. ~(n - Len(o) \in 1..Len(f) /\ both[n] = f[n - Len(o)])
        BY <1>4, <4>1
      <4>3. n \in 1..Len(o) /\ both[n] = o[n]
        BY <1>1, <4>1, <4>2
      <4>. QED
        BY <4>1, <4>3
    <3>2. ASSUME NEW n \in in(o) PROVE n \in in(both)
      BY <1>1
    <3>. QED
      BY <3>1, <3>2
  <2>2. CASE in(both) = {}
    BY <1>2, <2>1, <2>2
  <2>3. CASE in(both) # {}
    <3>1. Max(in(both)) \in in(o)
      BY <1>3, <2>1, <2>3
    <3>2. both[Max(in(both))] = o[Max(in(both))]
      BY <1>1, <3>1
    <3>. HIDE DEF in
    <3>. QED
      BY <1>2, <2>1, <2>3, <3>2
  <2>. QED
    BY <2>2, <2>3
<1>5. ASSUME NEW c, NEW m \in in(f), \A n \in in(f) : f[n].count = c PROVE LastFor(both, w) = c
  <2>1. Len(o) + m \in in(both)
    BY <1>1
  <2>2. Max(in(both)) \in in(both) /\ Len(o) + m <= Max(in(both))
    BY <1>3, <2>1
  <2>. DEFINE x == Max(in(both))
  <2>3. x \in 1..Len(both) /\ hit(both[x]) /\ x > Len(o)
    BY <1>1, <2>2
  <2>. HIDE DEF x
  <2>4. x - Len(o) \in 1..Len(f) /\ both[x] = f[x - Len(o)]
    BY <1>1, <2>3
  <2>5. both[x].count = c
    BY <1>5, <2>3, <2>4
  <2>. QED
    BY <1>2, <2>1, <2>5 DEF x
<1>. QED
  BY <1>4, <1>5 DEF hit, both

(* Below the end of the range a key and a fire time belong to one window. *)
LEMMA FireTimeTells ==
  ASSUME NEW v \in Windows, NEW w \in Windows, v[1] = w[1],
         fireTimeOf(v[2]) = fireTimeOf(w[2]), fireTimeOf(w[2]) < MaxTime
  PROVE  v = w
<1>1. v = <<v[1], v[2]>> /\ w = <<w[1], w[2]>> /\ v[2] \in Times /\ w[2] \in Times
  BY DEF Windows
<1>2. v[2] = w[2]
  BY <1>1, FireTimeType, TimeAssumption, WindowAssumption DEF Times
<1>. QED
  BY <1>1, <1>2

LEMMA WatermarkReports ==
  ASSUME NEW s \in KeyedState, IsFiniteSet(s.timers), NEW o \in Seq(Emitted), Reported(s, o),
         NEW wm \in Times
  PROVE  /\ o \o fired(s, wm) \in Seq(Emitted)
         /\ IsFiniteSet(ProcessWatermark(s, wm).timers)
         /\ Reported(ProcessWatermark(s, wm), o \o fired(s, wm))
<1>. DEFINE t == ProcessWatermark(s, wm)
            f == fired(s, wm)
            emit(w) == [key |-> w[1], time |-> fireTimeOf(w[2]), count |-> s.counts[w]]
<1>1. /\ f \in Seq(Emitted)
      /\ \A n \in 1..Len(f) : \E w \in due(s, wm) : f[n] = emit(w)
      /\ \A w \in due(s, wm) : \E n \in 1..Len(f) : f[n] = emit(w)
  BY FiredIsDue
<1>2. /\ t.timers = s.timers \ due(s, wm)
      /\ \A w \in Windows : t.counts[w] = IF isPurged(wm, w[2]) THEN 0 ELSE s.counts[w]
  BY DEF ProcessWatermark, KeyedState
<1>3. due(s, wm) \subseteq s.timers /\ s.timers \subseteq Windows
  BY DEF due, KeyedState
<1>. HIDE DEF f, t
<1>4. o \o f \in Seq(Emitted)
  BY <1>1
<1>5. IsFiniteSet(t.timers)
  BY <1>2, FS_Subset
<1>6. ASSUME NEW w \in Windows, t.counts[w] > 0, fireTimeOf(w[2]) < MaxTime, w \notin t.timers
      PROVE  LastFor(o \o f, w) = t.counts[w]
  <2>1. t.counts[w] = s.counts[w] /\ s.counts[w] > 0
    BY <1>2, <1>6
  <2>2. ASSUME NEW n \in 1..Len(f), f[n].key = w[1], f[n].time = fireTimeOf(w[2])
        PROVE  w \in due(s, wm) /\ f[n].count = s.counts[w]
    <3>1. PICK v \in due(s, wm) : f[n] = emit(v)
      BY <1>1
    <3>2. v[1] = w[1] /\ fireTimeOf(v[2]) = fireTimeOf(w[2]) /\ v \in Windows
      BY <1>3, <2>2, <3>1
    <3>3. v = w
      BY <1>6, <3>2, FireTimeTells
    <3>. QED
      BY <3>1, <3>3
  <2>3. CASE w \in s.timers
    <3>1. w \in due(s, wm)
      BY <1>2, <1>6, <2>3
    <3>2. PICK n \in 1..Len(f) : f[n] = emit(w)
      BY <1>1, <3>1
    <3>3. f[n].key = w[1] /\ f[n].time = fireTimeOf(w[2])
      BY <3>2
    <3>4. \A m \in 1..Len(f) :
            f[m].key = w[1] /\ f[m].time = fireTimeOf(w[2]) => f[m].count = s.counts[w]
      BY <2>2
    <3>. HIDE DEF emit
    <3>5. LastFor(o \o f, w) = s.counts[w]
      <4>1. f \in Seq(Emitted)
        BY <1>1
      <4>2. PICK c \in Nat : c = s.counts[w]
        BY DEF KeyedState
      <4>3. \A m \in 1..Len(f) :
              f[m].key = w[1] /\ f[m].time = fireTimeOf(w[2]) => f[m].count = c
        BY <3>4, <4>2
      <4>4. LastFor(o \o f, w) = c
        BY <3>3, <4>1, <4>3, LastOfTwo
      <4>. QED
        BY <4>2, <4>4
    <3>. QED
      BY <2>1, <3>5
  <2>4. CASE w \notin s.timers
    <3>1. \A n \in 1..Len(f) : ~(f[n].key = w[1] /\ f[n].time = fireTimeOf(w[2]))
      BY <1>3, <2>2, <2>4
    <3>2. LastFor(o \o f, w) = LastFor(o, w)
      BY <1>1, <3>1, LastOfTwo
    <3>3. LastFor(o, w) = s.counts[w]
      BY <1>6, <2>1, <2>4 DEF Reported
    <3>. QED
      BY <2>1, <3>2, <3>3
  <2>. QED
    BY <2>3, <2>4
<1>7. Reported(t, o \o f)
  BY <1>6 DEF Reported
<1>. QED
  BY <1>4, <1>5, <1>7 DEF t, f

(* A record arms every window it is counted in. *)
LEMMA ElementReports ==
  ASSUME NEW s \in KeyedState, IsFiniteSet(s.timers), NEW o, Reported(s, o), NEW rec \in Records
  PROVE  /\ IsFiniteSet(ProcessElement(s, rec).timers)
         /\ Reported(ProcessElement(s, rec), o)
<1>. DEFINE t == ProcessElement(s, rec)
            X == {x \in windowsFor(rec.time) : ~isPurged(s.watermark, x)}
            name == [x \in X |-> <<rec.key, x>>]
<1>1. /\ t.timers = s.timers \cup openFor(s, rec)
      /\ \A w \in Windows : w \notin openFor(s, rec) => t.counts[w] = s.counts[w]
  BY DEF ProcessElement, KeyedState
<1>2. IsFiniteSet(openFor(s, rec))
  <2>1. X \in SUBSET Times
    BY DEF windowsFor
  <2>2. IsFiniteSet(Times)
    BY FS_Interval, TimeAssumption DEF Times
  <2>3. IsFiniteSet(X)
    BY <2>1, <2>2, FS_Subset
  <2>4. openFor(s, rec) = {<<rec.key, x>> : x \in X}
    BY DEF openFor
  <2>. HIDE DEF X
  <2>5. name \in Surjection(X, openFor(s, rec))
    BY <2>4 DEF Surjection
  <2>. HIDE DEF name
  <2>. QED
    BY <2>3, <2>5, FS_Surjection
<1>3. IsFiniteSet(t.timers)
  BY <1>1, <1>2, FS_Union
<1>. HIDE DEF t
<1>4. Reported(t, o)
  BY <1>1 DEF Reported
<1>. QED
  BY <1>3, <1>4 DEF t

(* At the start nothing is counted. *)
LEMMA InitRInv == Init => RInv
<1>. SUFFICES ASSUME Init PROVE RInv
  OBVIOUS
<1>1. st = newState /\ out = << >> /\ saved.st = newState /\ saved.out = << >>
  BY DEF Init, atStart
<1>2. newState.timers = {} /\ \A w \in Windows : newState.counts[w] = 0
  BY DEF newState
<1>3. IsFiniteSet({}) /\ << >> \in Seq(Emitted)
  BY FS_EmptySet
<1>4. Reported(newState, << >>)
  BY <1>2 DEF Reported
<1>. QED
  BY <1>1, <1>2, <1>3, <1>4 DEF RInv

(* Every step keeps it. *)
LEMMA NextRInv == IInv /\ RInv /\ [Next]_vars => RInv'
<1>. SUFFICES ASSUME IInv, RInv, [Next]_vars PROVE RInv'
  OBVIOUS
<1>1. chan # << >> => Head(chan) \in Sendable
  BY DEF IInv
<1>2. st \in KeyedState
  BY DEF IInv
<1>3. CASE OperatorRecord
  <2>1. Head(chan).val \in Records
    BY <1>1, <1>3 DEF OperatorRecord, received, Sendable
  <2>2. IsFiniteSet(st'.timers) /\ Reported(st', out)
    BY <1>2, <1>3, <2>1, ElementReports DEF OperatorRecord, RInv
  <2>. QED
    BY <1>3, <2>2 DEF OperatorRecord, RInv, Reported
<1>4. CASE OperatorWatermark
  <2>1. Head(chan).val \in Times
    BY <1>1, <1>4 DEF OperatorWatermark, received, Sendable
  <2>2. out' \in Seq(Emitted) /\ IsFiniteSet(st'.timers) /\ Reported(st', out')
    <3>1. CASE Head(chan).val > gateOut
      <4>1. /\ st' = ProcessWatermark(st, Head(chan).val)
            /\ out' = out \o fired(st, Head(chan).val)
        BY <1>4, <3>1 DEF OperatorWatermark
      <4>. QED
        BY <1>2, <2>1, <4>1, WatermarkReports DEF RInv
    <3>2. CASE ~(Head(chan).val > gateOut)
      BY <1>4, <3>2 DEF OperatorWatermark, RInv
    <3>. QED
      BY <3>1, <3>2
  <2>. QED
    BY <1>4, <2>2 DEF OperatorWatermark, RInv, Reported
<1>5. CASE OperatorEnd
  <2>1. MaxTime \in Times
    BY TimeAssumption DEF Times
  <2>2. out' \in Seq(Emitted) /\ IsFiniteSet(st'.timers) /\ Reported(st', out')
    <3>1. CASE gateOut < MaxTime
      <4>1. st' = ProcessWatermark(st, MaxTime) /\ out' = out \o fired(st, MaxTime)
        BY <1>5, <3>1 DEF OperatorEnd
      <4>. QED
        BY <1>2, <2>1, <4>1, WatermarkReports DEF RInv
    <3>2. CASE ~(gateOut < MaxTime)
      BY <1>5, <3>2 DEF OperatorEnd, RInv
    <3>. QED
      BY <3>1, <3>2
  <2>. QED
    BY <1>5, <2>2 DEF OperatorEnd, RInv, Reported
<1>6. CASE OperatorBarrier
  <2>1. saved'.st = st /\ saved'.out = out /\ UNCHANGED <<st, out>>
    BY <1>6 DEF OperatorBarrier
  <2>. QED
    BY <2>1 DEF RInv, Reported
<1>7. CASE CrashAndResume
  <2>1. st' = saved.st /\ out' = saved.out /\ UNCHANGED saved
    BY <1>7 DEF CrashAndResume
  <2>. QED
    BY <2>1 DEF RInv, Reported
<1>8. CASE SourceEmits \/ UNCHANGED vars
  BY <1>8 DEF SourceEmits, vars, RInv, Reported
<1>. QED
  BY <1>3, <1>4, <1>5, <1>6, <1>7, <1>8 DEF Next

(* No count is left unreported, for every input, every window and lateness *)
(* and any number of crashes: whatever ProcessElement added since a window *)
(* last fired has armed its timer again, the purge of ProcessWatermark     *)
(* loses nothing that was not emitted, and a restore brings back the state *)
(* and the output that belong together.                                    *)
THEOREM NothingIsUnreported == Spec => []NothingUnreported
<1>1. RInv => NothingUnreported
  <2>1. \A w : lastFired(w) = LastFor(out, w)
    BY DEF lastFired, LastFor
  <2>. QED
    BY <2>1 DEF RInv, Reported, NothingUnreported
<1>. QED
  BY <1>1, InitRInv, NextRInv, Inductive, PTL DEF Spec
=============================================================================
