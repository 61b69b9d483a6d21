------------------------------- MODULE MaxBid -------------------------------
(***************************************************************************)
(* Nexmark q7, the highest bid of every auction and tumbling window: type  *)
(* MaxBid of pkg/operators/nexmark.go.  held has an entry for every window *)
(* that has state, a window being the pair of an auction and a start.      *)
(***************************************************************************)
EXTENDS SaturatedTime, Sequences, SequencesExt, TLC

CONSTANTS Size, AllowedLateness

newState == [held |-> << >>, timers |-> {}, watermark |-> MinTime]

(* Mutant: of two bids at one price the first to arrive stays. *)
BadBetterBidByPrice(a, b) == a.price > b.price

(* Whether a wins over b: a total order, so arrival order cannot matter. *)
betterBid(a, b) ==
  \/ a.price > b.price
  \/ a.price = b.price /\ a.bidder < b.bidder
  \/ a.price = b.price /\ a.bidder = b.bidder /\ a.auction < b.auction

windowStartOfTime(t) == subFloor(t, floorMod(t, Size))

fireTimeOf(start) == addCeil(start, Size - 1)

isPurged(watermark, start) ==
  watermark > addCeil(addCeil(start, Size), AllowedLateness)

(* The stream carries persons and auctions too, which every bid query drops. *)
bidOf(rec) == rec.type = "bid"

ProcessElement(st, rec) ==
  LET start == windowStartOfTime(rec.time)
      w == <<rec.key, start>>
      arrived == [price |-> rec.price, bidder |-> rec.bidder, auction |-> rec.key]
      best == IF w \in DOMAIN st.held /\ ~betterBid(arrived, st.held[w])
              THEN st.held[w] ELSE arrived
  IN IF ~bidOf(rec) \/ isPurged(st.watermark, start) THEN st
     ELSE [st EXCEPT !.held = (w :> best) @@ @,
                     !.timers = @ \cup {w}]

(* collectDue: up to the watermark, in the order of the timer keys.  The   *)
(* code's scan stops at the first key that is not due, which leaves none   *)
(* out because the keys sort as the fire times do                          *)
(* (WindowProofs!EncodingKeepsOrder).                                      *)
collectDue(st, wm) ==
  LET before(v, w) ==
        \/ fireTimeOf(v[2]) < fireTimeOf(w[2])
        \/ fireTimeOf(v[2]) = fireTimeOf(w[2]) /\ v[1] < w[1]
        \/ fireTimeOf(v[2]) = fireTimeOf(w[2]) /\ v[1] = w[1] /\ bigEndian(v[2]) < bigEndian(w[2])
  IN SetToSortSeq({w \in st.timers : fireTimeOf(w[2]) <= wm}, before)

(* What the watermark leaves of the windows. *)
purgeWindows(held, wm) == [w \in {v \in DOMAIN held : ~isPurged(wm, v[2])} |-> held[w]]

(* Fire what is due, then purge. *)
ProcessWatermark(st, wm) ==
  [st EXCEPT !.watermark = wm,
             !.timers = @ \ ToSet(collectDue(st, wm)),
             !.held = purgeWindows(@, wm)]

(* fire, for every due timer in order: what ProcessWatermark emits. *)
fire(st, wm) ==
  LET due == collectDue(st, wm)
      row(w) == [key |-> w[1], time |-> fireTimeOf(w[2]), winner |-> st.held[w]]
  IN [n \in 1..Len(due) |-> row(due[n])]
=============================================================================
