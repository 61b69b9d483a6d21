------------------------------ MODULE HotItems ------------------------------
(***************************************************************************)
(* Nexmark q5's second stage, the auctions with the most bids of every     *)
(* window: type HotItems of pkg/operators/nexmark.go, and the re-key in    *)
(* front of it.  counts has an entry for every (window, auction) that the  *)
(* keyed state has one for.                                                *)
(***************************************************************************)
EXTENDS SaturatedTime, Sequences, SequencesExt, FiniteSetsExt

CONSTANTS Size, AllowedLateness

newState == [counts |-> << >>, timers |-> {}, watermark |-> MinTime]

fireTimeOf(start) == addCeil(start, Size - 1)

(* Mutant: the lateness counts from the end-1 a record carries. *)
BadIsPurgedEarly(watermark, start) ==
  watermark > addCeil(fireTimeOf(start), AllowedLateness)

isPurged(watermark, start) ==
  watermark > addCeil(addCeil(start, Size), AllowedLateness)

(* NewQ5Rekey: the window moves into the key, the auction out of it.  A    *)
(* fired window carries its end-1, which is how its start is recovered.    *)
rekey(row) == [key |-> subFloor(row.time, Size - 1), time |-> row.time,
               auction |-> row.key, count |-> row.count]

(* ProcessElement refuses a record whose time is not its window's end-1. *)
mismatched(rec) == rec.time # fireTimeOf(rec.key)

drops(st, rec) == isPurged(st.watermark, rec.key)

(* A count replaces the one held: stage one sends it again when it has     *)
(* fired the window again.                                                 *)
ProcessElement(st, rec) ==
  LET w == <<rec.key, rec.auction>>
  IN IF drops(st, rec) THEN st
     ELSE [st EXCEPT !.counts = (w :> rec.count) @@ @,
                     !.timers = @ \cup {rec.key}]

(* The code's scan stops at the first timer key that is not due.  The keys *)
(* sort as the fire times do (WindowProofs!EncodingKeepsOrder), so it      *)
(* finds all that are.                                                     *)
collectDue(st, wm) ==
  LET before(v, w) ==
        \/ fireTimeOf(v) < fireTimeOf(w)
        \/ fireTimeOf(v) = fireTimeOf(w) /\ bigEndian(v) < bigEndian(w)
  IN SetToSortSeq({w \in st.timers : fireTimeOf(w) <= wm}, before)

(* The auctions of a window the state has a count for. *)
counted(st, start) == {a \in {w[2] : w \in DOMAIN st.counts} : <<start, a>> \in DOMAIN st.counts}

(* A due window without counts would be an error of the job. *)
firesEmpty(st, wm) == \E start \in ToSet(collectDue(st, wm)) : counted(st, start) = {}

(* By the window, which leads the key; the auction ends it. *)
purge(counts, wm) == [w \in {v \in DOMAIN counts : ~isPurged(wm, v[1])} |-> counts[w]]

(* Mutant: a window's counts go with its timer. *)
BadProcessWatermarkForgets(st, wm) ==
  LET due == ToSet(collectDue(st, wm))
  IN [st EXCEPT !.watermark = wm, !.timers = @ \ due,
                !.counts = [w \in {v \in DOMAIN @ : v[1] \notin due} |-> @[w]]]

(* Fire what is due, then purge. *)
ProcessWatermark(st, wm) ==
  [st EXCEPT !.watermark = wm,
             !.timers = @ \ ToSet(collectDue(st, wm)),
             !.counts = purge(@, wm)]

(* The one scan: every auction at the window's highest count, ascending. *)
hotWindow(st, start) ==
  LET max == Max({st.counts[<<start, a>>] : a \in counted(st, start)})
      winners == {a \in counted(st, start) : st.counts[<<start, a>>] = max}
      row(a) == [key |-> a, time |-> fireTimeOf(start), count |-> max]
      order == SetToSortSeq(winners, <)
  IN [n \in 1..Len(order) |-> row(order[n])]

(* What ProcessWatermark emits: an answer, its rows in a block, for every  *)
(* window that is due.                                                     *)
fire(st, wm) ==
  LET due == collectDue(st, wm)
  IN [n \in 1..Len(due) |-> hotWindow(st, due[n])]
=============================================================================
