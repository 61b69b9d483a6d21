----------------------------- MODULE SourceTask -----------------------------
(***************************************************************************)
(* One source vertex: pkg/runtime/source_task.go.  Its subtasks divide the *)
(* offsets 0..count-1 between them, and every subtask decides by counting  *)
(* records when a watermark and when a barrier is due.                     *)
(***************************************************************************)
EXTENDS SaturatedTime

(* Mutant: the ranges are rounded up, the last one too. *)
BadSourceRangeRoundsUp(count, parallelism, index) ==
  [start |-> (index * count) \div parallelism,
   end   |-> ((index + 1) * count + parallelism - 1) \div parallelism]

(* What subtask index of parallelism reads: [start, end). *)
sourceRange(count, parallelism, index) ==
  [start |-> (index * count) \div parallelism,
   end   |-> ((index + 1) * count) \div parallelism]

(* Mutant: the budget follows the longest range. *)
BadMaxBarriersCeiling(count, parallelism, interval) ==
  IF interval <= 0 THEN 0 ELSE ((count + parallelism - 1) \div parallelism) \div interval

(* How many barriers every subtask injects. *)
maxBarriers(count, parallelism, interval) ==
  IF interval <= 0 THEN 0 ELSE (count \div parallelism) \div interval

newBarrierGenerator == [sinceLast |-> 0, injected |-> 0]

(* Mutant: one barrier more than the budget. *)
BadCountsBarrierPastBudget(gen, interval, budget) == interval > 0 /\ gen.injected <= budget

(* barrierGenerator.onRecord, and the ID to inject: 0 for none. *)
countsBarrier(gen, interval, budget) == interval > 0 /\ gen.injected < budget

barrierAfter(gen, interval, budget) ==
  IF countsBarrier(gen, interval, budget) /\ gen.sinceLast + 1 >= interval
  THEN gen.injected + 1 ELSE 0

barrierOnRecord(gen, interval, budget) ==
  CASE ~countsBarrier(gen, interval, budget) -> gen
    [] barrierAfter(gen, interval, budget) > 0 ->
         [sinceLast |-> 0, injected |-> gen.injected + 1]
    [] OTHER -> [gen EXCEPT !.sinceLast = @ + 1]

(* Mutant: the numbering starts again. *)
BadResumedAnew(id) == newBarrierGenerator

(* Mutant: the next ID is taken for the number of barriers injected. *)
BadResumedAtTheNext(id) == [sinceLast |-> 0, injected |-> id + 1]

(* sourceResume.apply: the numbering goes on from the checkpoint. *)
resumed(id) == [sinceLast |-> 0, injected |-> id]

-----------------------------------------------------------------------------
newWatermarkGenerator == [sinceLast |-> 0, maxEventTime |-> MinTime, lastEmitted |-> MinTime]

(* watermarkGenerator.onRecord.  A watermark w says that nothing at or     *)
(* below w will follow, so it stays one below what may still come.         *)
candidate(time, lag) == subFloor(subFloor(time, lag), 1)

watermarkOnRecord(gen, time, interval, lag) ==
  LET seen == [gen EXCEPT !.maxEventTime = IF time > @ THEN time ELSE @]
      boundary == gen.sinceLast + 1 >= interval
      next == candidate(seen.maxEventTime, lag)
      last == IF next > gen.lastEmitted THEN next ELSE gen.lastEmitted
  IN CASE interval <= 0 -> seen
       [] interval > 0 /\ ~boundary -> [seen EXCEPT !.sinceLast = @ + 1]
       [] interval > 0 /\ boundary ->
            [seen EXCEPT !.sinceLast = 0, !.lastEmitted = last]

(* It emits when lastEmitted rises. *)
watermarkDue(before, after) == after.lastEmitted > before.lastEmitted
=============================================================================
