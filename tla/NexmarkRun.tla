----------------------------- MODULE NexmarkRun -----------------------------
(***************************************************************************)
(* Nexmark q5 and q7 over crashes (pkg/operators/nexmark.go).  q5: a       *)
(* source, the windowed count in a subtask for every auction, the re-key,  *)
(* and HotItems behind a gate that merges what the counts send.  q7:       *)
(* MaxBid, which takes the elements the counts take.                       *)
(*                                                                         *)
(* A count's subtasks get the same watermarks and barriers and share no    *)
(* window, so st is the state of them all and a step takes all of them one *)
(* element further; how far HotItems has got with each one's output is up  *)
(* to chan2.  A checkpoint is complete when HotItems has taken its         *)
(* snapshot; a barrier carries the snapshots taken before it.              *)
(***************************************************************************)
EXTENDS WindowedRun

ASSUME AuctionsAssumption == Keys = 1..Cardinality(Keys)

Hot == INSTANCE HotItems
Top == INSTANCE MaxBid
G == INSTANCE GateCore

VARIABLES
  chan2,     \* chan2[a]: what auction a's count has sent and the gate has not taken
  gate,      \* HotItems' gate
  hot,       \* HotItems' keyed state
  hotOut,    \* the answers of q5, each the rows of one firing of a window
  dropped,   \* how many counts HotItems has discarded as late
  failed,    \* it has returned an error
  top,       \* MaxBid's keyed state
  topOut,    \* the rows of q7
  saved2,    \* the rest of the latest complete checkpoint
  done       \* HotItems has seen the end of its input

first == <<vars, top, topOut>>
second == <<gate, hot, hotOut, dropped, failed, saved2, done>>
allVars == <<first, chan2, second>>

noOutput == [a \in Keys |-> << >>]

NexmarkInit ==
  /\ Init
  /\ chan2 = noOutput
  /\ gate = G!NewGate(Cardinality(Keys))
  /\ hot = Hot!newState /\ hotOut = << >>
  /\ dropped = 0 /\ failed = FALSE
  /\ top = Top!newState /\ topOut = << >>
  /\ saved2 = [hot |-> hot, hotOut |-> << >>, top |-> top, topOut |-> << >>]
  /\ done = FALSE

NexmarkSourceEmits == SourceEmits /\ UNCHANGED <<top, topOut, chan2, second>>

(* NewBidsOnly stands in front of the count; MaxBid decides for itself. *)
CountRecord ==
  /\ received("record")
  /\ IF Head(chan).val.type = "bid" THEN OperatorRecord
     ELSE /\ chan' = Tail(chan)
          /\ UNCHANGED <<input, position, wmGen, barGen, gateOut, st, out, saved, over, crashes>>
  /\ top' = Top!ProcessElement(top, Head(chan).val)
  /\ UNCHANGED <<topOut, chan2, second>>

tagged(a, kind, val) == [input |-> a, pos |-> 0, kind |-> kind, val |-> val]

(* What auction a's count passes on at a watermark: its counts, re-keyed,  *)
(* then the watermark itself.                                              *)
sentAt(a, wm) ==
  LET rows == SelectSeq(fired(st, wm), LAMBDA row : row.key = a)
  IN [n \in 1..Len(rows) |-> tagged(a, "record", Hot!rekey(rows[n]))]
       \o <<tagged(a, "watermark", wm)>>

CountWatermark ==
  /\ OperatorWatermark
  /\ IF gateOut' > gateOut
     THEN /\ chan2' = [a \in Keys |-> chan2[a] \o sentAt(a, gateOut')]
          /\ top' = Top!ProcessWatermark(top, gateOut')
          /\ topOut' = topOut \o Top!fire(top, gateOut')
     ELSE UNCHANGED <<chan2, top, topOut>>
  /\ UNCHANGED second

CountBarrier ==
  /\ received("barrier")
  /\ chan' = Tail(chan)
  /\ LET snapshot == [id |-> Head(chan).val.id, position |-> Head(chan).val.position,
                      st |-> st, out |-> out, top |-> top, topOut |-> topOut]
     IN chan2' = [a \in Keys |-> Append(chan2[a], tagged(a, "barrier", snapshot))]
  /\ UNCHANGED <<input, position, wmGen, barGen, gateOut, st, out, saved, over, crashes>>
  /\ UNCHANGED <<top, topOut, second>>

CountEnd ==
  /\ OperatorEnd
  /\ LET last(a) == IF gateOut < MaxTime THEN sentAt(a, MaxTime) ELSE << >>
     IN chan2' = [a \in Keys |-> chan2[a] \o last(a) \o <<tagged(a, "eos", 0)>>]
  /\ IF gateOut < MaxTime
     THEN /\ top' = Top!ProcessWatermark(top, MaxTime)
          /\ topOut' = topOut \o Top!fire(top, MaxTime)
     ELSE UNCHANGED <<top, topOut>>
  /\ UNCHANGED second

-----------------------------------------------------------------------------
(* Recv takes what it held back first, then the next element of any input. *)
HotReceives(a) ==
  /\ ~failed /\ gate.pending = << >> /\ gate.replay = << >>
  /\ chan2[a] # << >>
  /\ gate' = G!handle(gate, Head(chan2[a]), FALSE)
  /\ chan2' = [chan2 EXCEPT ![a] = Tail(@)]
  /\ UNCHANGED <<first, hot, hotOut, dropped, failed, saved2, done>>

HotReplays ==
  /\ ~failed /\ gate.pending = << >> /\ gate.replay # << >>
  /\ gate' = G!handle([gate EXCEPT !.replay = Tail(@)], Head(gate.replay), FALSE)
  /\ UNCHANGED <<first, chan2, hot, hotOut, dropped, failed, saved2, done>>

delivered(kind) == ~failed /\ gate.pending # << >> /\ Head(gate.pending).kind = kind

val == Head(gate.pending).val
taken == gate' = [gate EXCEPT !.pending = Tail(@)]

HotRecord ==
  /\ delivered("record") /\ taken
  /\ IF Hot!mismatched(val)
     THEN failed' = TRUE /\ UNCHANGED <<hot, dropped>>
     ELSE /\ hot' = Hot!ProcessElement(hot, val)
          /\ dropped' = IF Hot!drops(hot, val) THEN dropped + 1 ELSE dropped
          /\ UNCHANGED failed
  /\ UNCHANGED <<first, chan2, hotOut, saved2, done>>

HotWatermark ==
  /\ delivered("watermark") /\ taken
  /\ IF Hot!firesEmpty(hot, val)
     THEN failed' = TRUE /\ UNCHANGED <<hot, hotOut>>
     ELSE /\ hot' = Hot!ProcessWatermark(hot, val)
          /\ hotOut' = hotOut \o Hot!fire(hot, val)
          /\ UNCHANGED failed
  /\ UNCHANGED <<first, chan2, dropped, saved2, done>>

(* The last snapshot: the checkpoint is complete. *)
HotBarrier ==
  /\ delivered("barrier") /\ taken
  /\ saved' = [id |-> val.id, position |-> val.position, st |-> val.st, out |-> val.out]
  /\ saved2' = [hot |-> hot, hotOut |-> hotOut, top |-> val.top, topOut |-> val.topOut]
  /\ UNCHANGED <<input, position, wmGen, barGen, chan, gateOut, st, out, over, crashes>>
  /\ UNCHANGED <<top, topOut, chan2, hot, hotOut, dropped, failed, done>>

(* OnEndOfStream does nothing: the watermark before it has flushed. *)
HotEnd ==
  /\ delivered("eos") /\ taken
  /\ done' = TRUE
  /\ UNCHANGED <<first, chan2, hot, hotOut, dropped, failed, saved2>>

(* As CrashAndResume: every operator gets its state back, the gates and    *)
(* the watermark generator are new.                                        *)
NexmarkResume ==
  /\ ~done /\ crashes < MaxCrashes
  /\ crashes' = crashes + 1
  /\ position' = saved.position
  /\ barGen' = resumed(saved.id)
  /\ wmGen' = newWatermarkGenerator
  /\ chan' = << >> /\ chan2' = noOutput
  /\ gateOut' = MinTime /\ gate' = G!NewGate(Cardinality(Keys))
  /\ st' = saved.st /\ hot' = saved2.hot /\ top' = saved2.top
  /\ out' = saved.out /\ hotOut' = saved2.hotOut /\ topOut' = saved2.topOut
  /\ over' = FALSE /\ failed' = FALSE /\ dropped' = 0
  /\ UNCHANGED <<input, saved, saved2, done>>

NexmarkNext ==
  \/ NexmarkSourceEmits
  \/ CountRecord \/ CountWatermark \/ CountBarrier \/ CountEnd
  \/ (\E a \in Keys : HotReceives(a)) \/ HotReplays
  \/ HotRecord \/ HotWatermark \/ HotBarrier \/ HotEnd
  \/ NexmarkResume
  \/ done /\ UNCHANGED allVars

NexmarkSpec == NexmarkInit /\ [][NexmarkNext]_allVars

-----------------------------------------------------------------------------
(* HotItems never meets a count it must drop or refuse, nor a due window   *)
(* without counts: all the count emits, first firings and re-firings,      *)
(* before a crash or after, reaches it before the watermark that closes    *)
(* its window.  It holds of inputs whose lags the lateness covers, as all  *)
(* those of the run are: the count drops no bid from any of its windows.   *)
StageTwoKeepsUp == dropped = 0 /\ ~failed

bidsIn(auction, start) ==
  {n \in 1..Len(input) : /\ input[n].type = "bid" /\ input[n].key = auction
                         /\ start <= input[n].time /\ input[n].time < start + Size}

(* q5 in one pass: the auctions no other has more bids than. *)
BatchHotItems ==
  LET bids(a, s) == Cardinality(bidsIn(a, s))
  IN {[key |-> a, time |-> s + Size - 1, count |-> bids(a, s)] :
        <<a, s>> \in {w \in Windows : /\ w[2] % Slide = 0 /\ bids(w[1], w[2]) > 0
                                      /\ \A b \in Keys : bids(b, w[2]) <= bids(w[1], w[2])}}

(* The rows of the last firing of every window, whatever they are: late    *)
(* bids fire a window again, and what is read of it is what came last.     *)
lastAnswers ==
  LET window(n) == Head(hotOut[n]).time
      last == {n \in 1..Len(hotOut) : \A m \in n + 1 .. Len(hotOut) : window(m) # window(n)}
  IN UNION {ToSet(hotOut[n]) : n \in last}

(* Whatever is late, re-fired, lost in a crash and replayed, the answer q5 *)
(* gives last for a window is that of one pass over all the bids, every    *)
(* tie with all of its auctions: HotItems keeps the counts of a window it  *)
(* has fired, those of auctions that are not sent again included, and has  *)
(* all counts of a watermark before it fires.                              *)
HotItemsAgree == done => lastAnswers = BatchHotItems

(* q7 in one pass: the dearest bid, the lowest bidder of those. *)
BatchWinners ==
  LET best(a, s) == CHOOSE n \in bidsIn(a, s) : \A m \in bidsIn(a, s) :
                      \/ input[m].price < input[n].price
                      \/ input[m].price = input[n].price /\ input[m].bidder >= input[n].bidder
  IN {[key |-> a, time |-> s + Size - 1, price |-> input[best(a, s)].price,
       bidder |-> input[best(a, s)].bidder] :
        <<a, s>> \in {w \in Windows : w[2] % Size = 0 /\ bidsIn(w[1], w[2]) # {}}}

lastWinners ==
  LET last == {n \in 1..Len(topOut) : \A m \in n + 1 .. Len(topOut) :
                 topOut[m].key # topOut[n].key \/ topOut[m].time # topOut[n].time}
  IN {[key |-> topOut[n].key, time |-> topOut[n].time, price |-> topOut[n].winner.price,
       bidder |-> topOut[n].winner.bidder] : n \in last}

(* The winner q7 reports last for an auction and a window is the batch     *)
(* winner: ties, late bids, replays and the order of arrival do not show.  *)
WinnersAgree == done => lastWinners = BatchWinners
=============================================================================
