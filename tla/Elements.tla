------------------------------ MODULE Elements ------------------------------
(***************************************************************************)
(* What travels on a channel: pkg/core/element.go.  An element is a        *)
(* record, a watermark, a checkpoint barrier or an end-of-stream.  val is  *)
(* the watermark's time or the barrier's checkpoint ID; a record's payload *)
(* is never looked at by what these modules model, so a record is told     *)
(* apart by the input it came in on and its position there.                *)
(***************************************************************************)
EXTENDS Integers, Sequences

CONSTANTS MinTime,       \* math.MinInt64
          MaxTime        \* math.MaxInt64

ASSUME TimesAssumption == MinTime \in Int /\ MaxTime \in Int /\ MinTime < MaxTime

Kinds == {"record", "watermark", "barrier", "eos"}

Times == MinTime..MaxTime

Element == [kind : Kinds, val : Int]

(* An element as it leaves a forwarder: with the index of its input. *)
Tagged(numInputs) == [input : 0..numInputs, pos : Nat, kind : Kinds, val : Int]

(* The elements a gate makes itself belong to no input. *)
Own(kind, val) == [input |-> 0, pos |-> 0, kind |-> kind, val |-> val]
=============================================================================
