---------------------------- MODULE WindowedRun ----------------------------
(***************************************************************************)
(* A source subtask, a windowed count and the output it leads to, over     *)
(* crashes: sourceLoop and watermarkGenerator (pkg/runtime/source_task.go) *)
(* with WindowCount (pkg/operators/window.go), the gate between them and   *)
(* the restore.  How a checkpoint completes and how output is committed is *)
(* Job's matter; here a checkpoint is complete when the operator has taken *)
(* its snapshot, and a crash takes the output back to what that snapshot   *)
(* covers.                                                                 *)
(***************************************************************************)
EXTENDS SourceTask, WindowCount

CONSTANTS Records,            \* a record has a key, a time and what else a query reads
          Inputs,             \* the sequences of records the source may hold
          WatermarkInterval,  \* WatermarkIntervalElements
          MaxOutOfOrderness,
          BarrierInterval,    \* BarrierIntervalElements
          MaxCrashes          \* bound: crashes of the run

ASSUME InputsAssumption ==
  /\ \A rec \in Records : rec.key \in Keys /\ rec.time \in Times
  /\ Inputs \subseteq Seq(Records)
  /\ MaxOutOfOrderness \in Nat /\ MaxOutOfOrderness <= MaxTime
  /\ WatermarkInterval \in Nat /\ BarrierInterval \in Nat

VARIABLES
  input,      \* the records of the source
  position,   \* how many of them it has emitted
  wmGen,      \* its watermark generator
  barGen,     \* its barrier generator
  chan,       \* what it has sent and the operator has not taken
  gateOut,    \* the watermark the operator's gate has forwarded last
  st,         \* the operator's keyed state
  out,        \* what it has emitted
  saved,      \* the latest complete checkpoint
  over,       \* the operator has seen the end of its input
  crashes

vars == <<input, position, wmGen, barGen, chan, gateOut, st, out, saved, over, crashes>>

element(kind, val) == [kind |-> kind, val |-> val]

budget == maxBarriers(Len(input), 1, BarrierInterval)

atStart == [id |-> 0, position |-> 0, st |-> newState, out |-> << >>]

Init ==
  /\ input \in Inputs
  /\ position = 0
  /\ wmGen = newWatermarkGenerator
  /\ barGen = newBarrierGenerator
  /\ chan = << >>
  /\ gateOut = MinTime
  /\ st = newState
  /\ out = << >>
  /\ saved = atStart
  /\ over = FALSE
  /\ crashes = 0

(* One turn of sourceLoop: the record, the watermark that is due after it, *)
(* the barrier that is due after that, with the position it is taken at.   *)
SourceEmits ==
  /\ position < Len(input)
  /\ LET rec == input[position + 1]
         next == watermarkOnRecord(wmGen, rec.time, WatermarkInterval, MaxOutOfOrderness)
         id == barrierAfter(barGen, BarrierInterval, budget)
         mark == IF watermarkDue(wmGen, next) THEN <<element("watermark", next.lastEmitted)>>
                 ELSE << >>
         barrier == IF id > 0 THEN <<element("barrier", [id |-> id, position |-> position + 1])>>
                    ELSE << >>
     IN /\ chan' = chan \o <<element("record", rec)>> \o mark \o barrier
        /\ wmGen' = next
  /\ barGen' = barrierOnRecord(barGen, BarrierInterval, budget)
  /\ position' = position + 1
  /\ UNCHANGED <<input, gateOut, st, out, saved, over, crashes>>

received(kind) == ~over /\ chan # << >> /\ Head(chan).kind = kind

OperatorRecord ==
  /\ received("record")
  /\ st' = ProcessElement(st, Head(chan).val)
  /\ chan' = Tail(chan)
  /\ UNCHANGED <<input, position, wmGen, barGen, gateOut, out, saved, over, crashes>>

(* The gate forwards a watermark above the last one it forwarded. *)
OperatorWatermark ==
  /\ received("watermark")
  /\ IF Head(chan).val > gateOut
     THEN /\ gateOut' = Head(chan).val
          /\ st' = ProcessWatermark(st, Head(chan).val)
          /\ out' = out \o fired(st, Head(chan).val)
     ELSE UNCHANGED <<gateOut, st, out>>
  /\ chan' = Tail(chan)
  /\ UNCHANGED <<input, position, wmGen, barGen, saved, over, crashes>>

OperatorBarrier ==
  /\ received("barrier")
  /\ saved' = [id |-> Head(chan).val.id, position |-> Head(chan).val.position,
               st |-> st, out |-> out]
  /\ chan' = Tail(chan)
  /\ UNCHANGED <<input, position, wmGen, barGen, gateOut, st, out, over, crashes>>

(* The source is done and all of it has been taken: the gate's own last    *)
(* watermark, then end-of-stream, at which the operator does nothing more. *)
OperatorEnd ==
  /\ ~over /\ position = Len(input) /\ chan = << >>
  /\ gateOut' = MaxTime
  /\ st' = IF gateOut < MaxTime THEN ProcessWatermark(st, MaxTime) ELSE st
  /\ out' = IF gateOut < MaxTime THEN out \o fired(st, MaxTime) ELSE out
  /\ over' = TRUE
  /\ UNCHANGED <<input, position, wmGen, barGen, chan, saved, crashes>>

(* The process dies and the job is resumed from its latest checkpoint.     *)
(* The operator gets its state back and the source its position; the gate  *)
(* and the watermark generator are new.                                    *)
CrashAndResume ==
  /\ ~over /\ crashes < MaxCrashes
  /\ crashes' = crashes + 1
  /\ position' = saved.position
  /\ barGen' = resumed(saved.id)
  /\ wmGen' = newWatermarkGenerator
  /\ chan' = << >>
  /\ gateOut' = MinTime
  /\ st' = saved.st
  /\ out' = saved.out
  /\ UNCHANGED <<input, saved, over>>

Next ==
  \/ SourceEmits
  \/ OperatorRecord \/ OperatorWatermark \/ OperatorBarrier \/ OperatorEnd
  \/ CrashAndResume
  \/ over /\ UNCHANGED vars

Spec == Init /\ [][Next]_vars

-----------------------------------------------------------------------------
(* The keyed state has its type. *)
StateOK(s) ==
  /\ s.counts \in [Windows -> Nat]
  /\ s.timers \subseteq Windows
  /\ s.watermark \in Times

(* Every variable has its type. *)
TypeOK ==
  /\ input \in Inputs /\ position \in 0..Len(input)
  /\ wmGen.lastEmitted \in Times /\ wmGen.maxEventTime \in Times
  /\ barGen.injected \in 0..budget
  /\ gateOut \in Times
  /\ StateOK(st) /\ StateOK(saved.st)

(* fire never meets a timer without a count, which it would report as an   *)
(* error of the job: purging never gets ahead of firing, also when the     *)
(* watermark has fallen back after a restore.                              *)
TimersHaveState ==
  \A w \in st.timers : st.counts[w] > 0

lastFired(w) ==
  LET of == {n \in 1..Len(out) : out[n].key = w[1] /\ out[n].time = fireTimeOf(w[2])}
  IN IF of = {} THEN 0 ELSE out[Max(of)].count

(* A window that holds something its last emission did not count is armed, *)
(* so no count is ever left unreported.  (Windows that reach the end of    *)
(* the range share their fire time, which is all their output shows.)      *)
NothingUnreported ==
  \A w \in Windows :
    st.counts[w] > 0 /\ fireTimeOf(w[2]) < MaxTime
      => w \in st.timers \/ lastFired(w) = st.counts[w]

(* A watermark leaves no timer behind that it has reached: windows fire    *)
(* when they are complete and not at the end of the input.                 *)
FiredInTime ==
  [][crashes' = crashes /\ st'.watermark # st.watermark
       => \A w \in st'.timers : fireTimeOf(w[2]) > st'.watermark]_vars

(* What the same input gives when nothing fails. *)
CleanRun ==
  LET start == [gen |-> newWatermarkGenerator, st |-> newState, out |-> << >>]
      step[n \in 0..Len(input)] ==
        IF n = 0 THEN start
        ELSE LET was == step[n - 1]
                 gen == watermarkOnRecord(was.gen, input[n].time, WatermarkInterval,
                                          MaxOutOfOrderness)
                 seen == ProcessElement(was.st, input[n])
             IN IF watermarkDue(was.gen, gen)
                THEN [gen |-> gen, st |-> ProcessWatermark(seen, gen.lastEmitted),
                      out |-> was.out \o fired(seen, gen.lastEmitted)]
                ELSE [gen |-> gen, st |-> seen, out |-> was.out]
  IN step[Len(input)].out \o fired(step[Len(input)].st, MaxTime)

(* A run that crashed and recovered leaves the output of a clean run:      *)
(* starting the watermark generator anew changes nothing.                  *)
RecoveredLikeClean == over => out = CleanRun

=============================================================================
