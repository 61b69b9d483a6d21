------------------------------ MODULE GateCore ------------------------------
(***************************************************************************)
(* The fields of a Gate (pkg/runtime/gate.go) as a record, and its methods *)
(* as operators from one such record to the next, so that a step of Recv   *)
(* is the composition of the calls that the code makes.                    *)
(***************************************************************************)
EXTENDS Elements, FiniteSets, SequencesExt

NoElement == Own("record", 0)

NewGate(numInputs) ==
  [ endOfStream |-> [i \in 1..numInputs |-> FALSE],
    remaining   |-> numInputs,
    closed      |-> FALSE,
    watermarks  |-> [i \in 1..numInputs |-> MinTime],
    out         |-> MinTime,
    aligning    |-> FALSE,
    barrier     |-> NoElement,
    alignedFor  |-> [i \in 1..numInputs |-> FALSE],
    buffered    |-> [i \in 1..numInputs |-> << >>],
    replay      |-> << >>,
    pending     |-> << >>,
    err         |-> FALSE ]

inputsOf(q) == DOMAIN q.endOfStream

live(q, i) == ~q.endOfStream[i]

(* Mutant: an input that has sent no watermark yet holds nothing back. *)
BadMinimumSkipsSilent(q) ==
  Min({q.watermarks[i] : i \in {j \in inputsOf(q) : live(q, j) /\ q.watermarks[j] # MinTime}}
        \cup {MaxTime})

(* The minimum over the live inputs, math.MaxInt64 when there is none. *)
minimum(q) == Min({q.watermarks[i] : i \in {j \in inputsOf(q) : live(q, j)}} \cup {MaxTime})

(* Mutant: a minimum that has not moved is forwarded again. *)
BadAdvanceRepeats(q) ==
  IF minimum(q) < q.out
  THEN q
  ELSE [q EXCEPT !.out = minimum(q),
                 !.pending = Append(@, Own("watermark", minimum(q)))]

advance(q) ==
  IF minimum(q) <= q.out
  THEN q
  ELSE [q EXCEPT !.out = minimum(q),
                 !.pending = Append(@, Own("watermark", minimum(q)))]

(* Mutant: the alignment is over one input too early. *)
BadAwaitingBarrierButOne(q) ==
  q.aligning /\ Cardinality({i \in inputsOf(q) : live(q, i) /\ ~q.alignedFor[i]}) > 1

awaitingBarrier(q) ==
  q.aligning /\ \E i \in inputsOf(q) : live(q, i) /\ ~q.alignedFor[i]

(* Buffered elements go back through handle, in input index order and      *)
(* ahead of whatever replay already holds.                                 *)
drainBuffers(q) ==
  [q EXCEPT !.replay = FlattenSeq(q.buffered) \o @,
            !.buffered = [i \in inputsOf(q) |-> << >>]]

completeAlignment(q) ==
  IF ~q.aligning \/ awaitingBarrier(q)
  THEN q
  ELSE drainBuffers([q EXCEPT !.pending = Append(@, q.barrier),
                              !.aligning = FALSE,
                              !.barrier = NoElement,
                              !.alignedFor = [i \in inputsOf(q) |-> FALSE]])

(* abort is the answer the fault injector would give inside an alignment   *)
(* window; nobody asks it when the barrier completes the alignment.        *)
onBarrier(q, t, abort) ==
  LET marked == [q EXCEPT !.aligning = TRUE,
                          !.barrier = IF q.aligning THEN @
                                      ELSE Own("barrier", t.val),
                          !.alignedFor[t.input] = TRUE]
  IN IF awaitingBarrier(marked)
     THEN [marked EXCEPT !.err = @ \/ abort]
     ELSE completeAlignment(marked)

closeGate(q) ==
  IF q.remaining = 0 /\ ~q.closed
  THEN [q EXCEPT !.closed = TRUE, !.pending = Append(@, Own("eos", 0))]
  ELSE q

(* Mutant: a repeated end-of-stream counts again. *)
BadEndOfStreamCountsTwice(q, t) ==
  completeAlignment(closeGate(advance(
    [q EXCEPT !.endOfStream[t.input] = TRUE, !.remaining = @ - 1])))

onEndOfStream(q, t) ==
  IF q.endOfStream[t.input]
  THEN q
  ELSE completeAlignment(closeGate(advance(
         [q EXCEPT !.endOfStream[t.input] = TRUE, !.remaining = @ - 1])))

deliver(q, t, abort) ==
  CASE t.kind = "watermark" -> advance([q EXCEPT !.watermarks[t.input] = t.val])
    [] t.kind = "barrier"   -> onBarrier(q, t, abort)
    [] t.kind = "eos"       -> onEndOfStream(q, t)
    [] t.kind = "record"    -> [q EXCEPT !.pending = Append(@, t)]

heldBack(q, t) == q.aligning /\ q.alignedFor[t.input]

(* Mutant: an aligned input is not held back. *)
BadHandleHoldsNothing(q, t, abort) == deliver(q, t, abort)

handle(q, t, abort) ==
  IF heldBack(q, t)
  THEN [q EXCEPT !.buffered[t.input] = Append(@, t)]
  ELSE deliver(q, t, abort)

GateState(numInputs) ==
  [ endOfStream : [1..numInputs -> BOOLEAN],
    remaining   : 0..numInputs,
    closed      : BOOLEAN,
    watermarks  : [1..numInputs -> Int],
    out         : Int,
    aligning    : BOOLEAN,
    barrier     : Tagged(numInputs),
    alignedFor  : [1..numInputs -> BOOLEAN],
    buffered    : [1..numInputs -> Seq(Tagged(numInputs))],
    replay      : Seq(Tagged(numInputs)),
    pending     : Seq(Tagged(numInputs)),
    err         : BOOLEAN ]
=============================================================================
