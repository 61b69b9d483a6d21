---------------------------- MODULE WindowCount ----------------------------
(***************************************************************************)
(* The windowed count: pkg/operators/window.go.  A window is the pair of a *)
(* record key and a start.  The keyed state of the operator has three      *)
(* partitions: counts (0 for a window it has no entry for), timers, and    *)
(* the one watermark.  The methods go from one such state to the next;     *)
(* what they emit is a sequence of its own.                                *)
(***************************************************************************)
EXTENDS SaturatedTime, Sequences, SequencesExt, FiniteSetsExt

CONSTANTS Keys,            \* record keys, in byte order: a set of integers
          Size, Slide,     \* of a window; equal for a tumbling one
          AllowedLateness

ASSUME WindowAssumption ==
  /\ Keys \subseteq Int
  /\ Size \in Nat \ {0} /\ Slide \in Nat \ {0} /\ AllowedLateness \in Nat
  /\ Size % Slide = 0
  /\ Size <= MaxTime /\ AllowedLateness <= MaxTime

Windows == Keys \X Times

newState == [counts    |-> [w \in Windows |-> 0],
             timers    |-> {},
             watermark |-> MinTime]

(* The start aligned to Slide and the ones before it, Size / Slide in all;  *)
(* the loop stops early when it is clamped, so none is repeated.           *)
windowsFor(time) ==
  LET starts[n \in 0 .. Size \div Slide - 1] ==
        IF n = 0 THEN subFloor(time, floorMod(time, Slide))
                 ELSE subFloor(starts[n - 1], Slide)
  IN Times \cap {starts[n] : n \in 0 .. Size \div Slide - 1}

fireTimeOf(start) == addCeil(start, Size - 1)

isPurged(watermark, start) ==
  watermark > addCeil(addCeil(start, Size), AllowedLateness)

(* The windows a record still gets into. *)
openFor(st, rec) ==
  {<<rec.key, s>> : s \in {x \in windowsFor(rec.time) : ~isPurged(st.watermark, x)}}

(* Mutant: a window that has fired is not armed again. *)
BadProcessElementArmsOnce(st, rec) ==
  [st EXCEPT !.counts = [w \in Windows |-> IF w \in openFor(st, rec) THEN @[w] + 1 ELSE @[w]],
             !.timers = @ \cup {w \in openFor(st, rec) : st.counts[w] = 0}]

ProcessElement(st, rec) ==
  [st EXCEPT !.counts = [w \in Windows |-> IF w \in openFor(st, rec) THEN @[w] + 1 ELSE @[w]],
             !.timers = @ \cup openFor(st, rec)]

(* Timer keys sort by fire time, then record key, then window start. *)
timerBefore(v, w) ==
  LET fire(x) == EncodeOrderedInt64(fireTimeOf(x[2]))
  IN \/ fire(v) < fire(w)
     \/ fire(v) = fire(w) /\ v[1] < w[1]
     \/ fire(v) = fire(w) /\ v[1] = w[1] /\ bigEndian(v[2]) < bigEndian(w[2])

(* Mutant: the scan skips the timer at the watermark. *)
BadDueMissesTheWatermark(st, wm) ==
  {w \in st.timers :
     \A v \in st.timers : v = w \/ timerBefore(v, w) => fireTimeOf(v[2]) < wm}

(* collectDueTimers stops at the first timer in that order that is not due. *)
due(st, wm) ==
  {w \in st.timers :
     \A v \in st.timers : v = w \/ timerBefore(v, w) => fireTimeOf(v[2]) <= wm}

(* Fire what is due, then purge. *)
ProcessWatermark(st, wm) ==
  [st EXCEPT !.watermark = wm,
             !.timers = @ \ due(st, wm),
             !.counts = [w \in Windows |-> IF isPurged(wm, w[2]) THEN 0 ELSE @[w]]]

(* The order in which the scan comes to them: each timer behind all those  *)
(* that sort before it.                                                    *)
inOrder(timers) ==
  [n \in 1..Cardinality(timers) |->
     CHOOSE w \in timers : Cardinality({v \in timers : timerBefore(v, w)}) = n - 1]

(* What ProcessWatermark emits, each record stamped with its window's end-1. *)
fired(st, wm) ==
  LET order == inOrder(due(st, wm))
  IN [n \in 1..Cardinality(due(st, wm)) |->
        [key |-> order[n][1], time |-> fireTimeOf(order[n][2]), count |-> st.counts[order[n]]]]
=============================================================================
