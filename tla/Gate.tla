-------------------------------- MODULE Gate --------------------------------
(***************************************************************************)
(* The input gate of an operator or sink subtask: pkg/runtime/gate.go.     *)
(*                                                                         *)
(* One forwarder goroutine per input moves elements from the input's       *)
(* channel to a bounded channel, merged; the subtask's goroutine calls     *)
(* Recv, which merges watermarks, absorbs end-of-stream and aligns         *)
(* checkpoint barriers.  The gate's fields are those of the record g, and  *)
(* what its methods do to them is in GateCore.                             *)
(*                                                                         *)
(* stream[i] is everything the producer of input i ever sends before it    *)
(* closes the channel.  A stream without an end-of-stream is a producer    *)
(* that failed.  The pos field of a tagged element is its position in that *)
(* stream; the code does not carry it, and only the properties read it.    *)
(***************************************************************************)
EXTENDS InputStreams, GateCore

VARIABLES
  stream,      \* stream[i]: what input i's producer sends, then it closes
  taken,       \* how many of them input i's forwarder has put on merged
  exited,      \* exited[i]: input i's forwarder has returned
  merged,      \* the channel merged
  mergedClosed,\* the closer goroutine has closed merged
  cancelled,   \* the job's context is done
  g,           \* the Gate's own fields
  phase,       \* the subtask: "running", "eos" or "closed" (Recv said !ok)
  got,         \* history: everything Recv has returned
  passed       \* history: how many elements of input i handle let through

vars == <<stream, taken, exited, merged, mergedClosed, cancelled, g, phase,
          got, passed>>

-----------------------------------------------------------------------------
Init ==
  /\ stream \in [Inputs -> Streams]
  /\ taken = [i \in Inputs |-> 0]
  /\ exited = [i \in Inputs |-> FALSE]
  /\ merged = << >>
  /\ mergedClosed = FALSE
  /\ cancelled = FALSE
  /\ g = NewGate(NumInputs)
  /\ phase = "running"
  /\ got = << >>
  /\ passed = [i \in Inputs |-> 0]

(* The n-th element of input i as the forwarder wraps it. *)
tagged(i, n) == [input |-> i, pos |-> n,
                 kind |-> stream[i][n].kind, val |-> stream[i][n].val]

(* Mutant: merged has no bound. *)
BadForwardUnbounded(i) ==
  /\ ~exited[i]
  /\ taken[i] < Len(stream[i])
  /\ merged' = Append(merged, tagged(i, taken[i] + 1))
  /\ taken' = [taken EXCEPT ![i] = @ + 1]
  /\ UNCHANGED <<stream, exited, mergedClosed, cancelled, g, phase, got, passed>>

(* A forwarder receives its input's next element and sends it to merged.   *)
(* It holds the element while merged is full, which is where it is blocked.*)
Forward(i) ==
  /\ ~exited[i]
  /\ taken[i] < Len(stream[i])
  /\ Len(merged) < NumInputs
  /\ merged' = Append(merged, tagged(i, taken[i] + 1))
  /\ taken' = [taken EXCEPT ![i] = @ + 1]
  /\ UNCHANGED <<stream, exited, mergedClosed, cancelled, g, phase, got, passed>>

(* The input is closed and drained, or the context is done while the       *)
(* forwarder holds an element: it returns and the element is lost.         *)
ForwarderReturns(i) ==
  /\ ~exited[i]
  /\ taken[i] = Len(stream[i]) \/ cancelled
  /\ exited' = [exited EXCEPT ![i] = TRUE]
  /\ UNCHANGED <<stream, taken, merged, mergedClosed, cancelled, g, phase, got, passed>>

CloseMerged ==
  /\ \A i \in Inputs : exited[i]
  /\ ~mergedClosed
  /\ mergedClosed' = TRUE
  /\ UNCHANGED <<stream, taken, exited, merged, cancelled, g, phase, got, passed>>

(* Recv returns the head of pending.  The subtask stops at end-of-stream.  *)
RecvPending ==
  /\ phase = "running" /\ ~g.err /\ g.pending # << >>
  /\ got' = Append(got, Head(g.pending))
  /\ g' = [g EXCEPT !.pending = Tail(@)]
  /\ phase' = IF Head(g.pending).kind = "eos" THEN "eos" ELSE phase
  /\ UNCHANGED <<stream, taken, exited, merged, mergedClosed, cancelled, passed>>

countPassed(t) ==
  IF heldBack(g, t) THEN passed ELSE [passed EXCEPT ![t.input] = @ + 1]

(* Recv takes the head of replay, before anything still on merged. *)
RecvReplay ==
  /\ phase = "running" /\ ~g.err /\ g.pending = << >> /\ g.replay # << >>
  /\ \E abort \in BOOLEAN :
       g' = handle([g EXCEPT !.replay = Tail(@)], Head(g.replay), abort)
  /\ passed' = countPassed(Head(g.replay))
  /\ UNCHANGED <<stream, taken, exited, merged, mergedClosed, cancelled, phase, got>>

(* Mutant: Recv reads the channel while there is something to replay. *)
BadRecvMergedFirst ==
  /\ phase = "running" /\ ~g.err /\ g.pending = << >>
  /\ merged # << >>
  /\ merged' = Tail(merged)
  /\ \E abort \in BOOLEAN : g' = handle(g, Head(merged), abort)
  /\ passed' = countPassed(Head(merged))
  /\ UNCHANGED <<stream, taken, exited, mergedClosed, cancelled, phase, got>>

RecvMerged ==
  /\ phase = "running" /\ ~g.err /\ g.pending = << >> /\ g.replay = << >>
  /\ merged # << >>
  /\ merged' = Tail(merged)
  /\ \E abort \in BOOLEAN : g' = handle(g, Head(merged), abort)
  /\ passed' = countPassed(Head(merged))
  /\ UNCHANGED <<stream, taken, exited, mergedClosed, cancelled, phase, got>>

(* Recv reports !ok: an injected fault, or every input closed. *)
RecvClosed ==
  /\ phase = "running"
  /\ \/ g.err
     \/ g.pending = << >> /\ g.replay = << >> /\ merged = << >> /\ mergedClosed
  /\ phase' = "closed"
  /\ UNCHANGED <<stream, taken, exited, merged, mergedClosed, cancelled, g, got, passed>>

(* The executor cancels the job once this subtask has returned its fault.  *)
CancelOnFault ==
  /\ phase = "closed" /\ g.err /\ ~cancelled
  /\ cancelled' = TRUE
  /\ UNCHANGED <<stream, taken, exited, merged, mergedClosed, g, phase, got, passed>>

(* Gate.Wait has returned and so has the subtask. *)
Finished ==
  /\ phase # "running" /\ mergedClosed
  /\ UNCHANGED vars

Recv == RecvPending \/ RecvReplay \/ RecvMerged \/ RecvClosed

Next ==
  \/ \E i \in Inputs : Forward(i) \/ ForwarderReturns(i)
  \/ CloseMerged
  \/ Recv
  \/ CancelOnFault
  \/ Finished

Spec == Init /\ [][Next]_vars

-----------------------------------------------------------------------------
(* Every variable has its type; merged holds at most len(inputs) elements. *)
TypeOK ==
  /\ stream \in [Inputs -> Streams]
  /\ taken \in [Inputs -> Nat]
  /\ exited \in [Inputs -> BOOLEAN]
  /\ merged \in Seq(Tagged(NumInputs)) /\ Len(merged) <= NumInputs
  /\ mergedClosed \in BOOLEAN
  /\ cancelled \in BOOLEAN
  /\ g \in GateState(NumInputs)
  /\ phase \in {"running", "eos", "closed"}
  /\ got \in Seq(Tagged(NumInputs))
  /\ passed \in [Inputs -> Nat]

-----------------------------------------------------------------------------
(* What the gate has decided to deliver, returned by Recv or not yet. *)
emitted == got \o g.pending

isRecordOf(e, i) == e.kind = "record" /\ e.input = i

(* Positions in stream[i] of the records of input i among the first n emitted. *)
recordsOf(i, n) ==
  {emitted[a].pos : a \in {b \in 1..n : isRecordOf(emitted[b], i)}}

recordsBefore(i, n) == {m \in 1..n-1 : stream[i][m].kind = "record"}

hasEndOfStream(i) == \E n \in 1..Len(stream[i]) : stream[i][n].kind = "eos"

(* Holding an input back and replaying it keeps the order of that input    *)
(* (invariant 5 of the repository): its records are emitted in the order   *)
(* they were sent, none twice and none skipped.                            *)
PerInputOrder ==
  \A a \in 1..Len(emitted) :
    LET e == emitted[a] IN
    e.kind = "record" => recordsOf(e.input, a - 1) = recordsBefore(e.input, e.pos)

(* The cut a barrier makes: what went downstream before barrier k is, for  *)
(* every input, exactly what that input sent before its own barrier k, and *)
(* everything it sent if it ended without one (onBarrier, onEndOfStream).  *)
ConsistentCut ==
  \A a \in 1..Len(emitted) :
    emitted[a].kind = "barrier" =>
      \A i \in Inputs :
        \/ \E n \in 1..Len(stream[i]) :
             /\ stream[i][n].kind = "barrier"
             /\ stream[i][n].val = emitted[a].val
             /\ recordsOf(i, a) = recordsBefore(i, n)
        \/ /\ \A n \in 1..Len(stream[i]) :
                stream[i][n].kind = "barrier" => stream[i][n].val # emitted[a].val
           /\ hasEndOfStream(i)
           /\ recordsOf(i, a) = recordsBefore(i, Len(stream[i]) + 1)

(* No forwarded watermark overtakes a record: a record that leaves after   *)
(* watermark w was preceded on its own input by a watermark of at least w, *)
(* so it was late already and the gate did not make it late.               *)
NoRecordMadeLate ==
  \A a, b \in 1..Len(emitted) :
    /\ a < b
    /\ emitted[a].kind = "watermark"
    /\ emitted[b].kind = "record"
    => \E n \in 1..emitted[b].pos - 1 :
         LET e == stream[emitted[b].input][n] IN
         e.kind = "watermark" /\ e.val >= emitted[a].val

(* What the subtask receives, and so what it forwards, is again a stream   *)
(* the next gate may rely on: contiguous barriers, one per checkpoint;     *)
(* strictly increasing watermarks; one end-of-stream, last, and by then    *)
(* the watermark has reached math.MaxInt64.                                *)
OutputContract ==
  /\ WellFormed(emitted)
  /\ \A a, b \in 1..Len(emitted) :
       /\ a < b
       /\ emitted[a].kind = emitted[b].kind
       => /\ emitted[a].kind # "eos"
          /\ emitted[a].kind = "watermark" => emitted[a].val < emitted[b].val
  /\ \A a \in 1..Len(emitted) :
       emitted[a].kind = "eos" => \E b \in 1..a-1 : emitted[b] = Own("watermark", MaxTime)

(* When the gate has said end-of-stream, every input ended and every       *)
(* record and every barrier sent on any input has gone downstream: the end *)
(* of the run leaves nothing behind in buffered, replay or merged.         *)
NothingLeftBehind ==
  phase = "eos" =>
    \A i \in Inputs :
      /\ hasEndOfStream(i)
      /\ recordsOf(i, Len(emitted)) = recordsBefore(i, Len(stream[i]) + 1)
      /\ \A n \in 1..Len(stream[i]) :
           stream[i][n].kind = "barrier" =>
             \E a \in 1..Len(got) : got[a] = Own("barrier", stream[i][n].val)

(* The gate implements AlignedMerge: an input whose barrier has arrived    *)
(* early stands before that barrier until the whole cut is taken.          *)
Merge == INSTANCE AlignedMerge WITH
  at  <- [i \in Inputs |-> IF g.alignedFor[i] THEN passed[i] - 1 ELSE passed[i]],
  log <- emitted

(* Buffering, replaying and draining in index order amount to a merge that *)
(* takes every barrier on all live inputs at once (AlignedMerge).          *)
ImplementsAlignedMerge == Merge!Spec
=============================================================================
