----------------------------- MODULE MCDataflow -----------------------------
(***************************************************************************)
(* Every graph of at most MaxEdges edges over four vertices: chains,       *)
(* diamonds, edges that skip a stage, cycles, dangling vertices.           *)
(***************************************************************************)
EXTENDS Dataflow

declare(id, kind, parallelism, interval) ==
  [id |-> id, kind |-> kind, parallelism |-> parallelism, factories |-> {kind},
   watermarkInterval |-> interval, outOfOrderness |-> 0, barrierInterval |-> interval]

Source == declare(1, "source", 1, 1)
Sink   == declare(4, "sink", 1, 0)

(* One thing is wrong with each of these, and nothing else need be with    *)
(* the graph it is in.                                                     *)
Misdeclared ==
  {[Source EXCEPT !.watermarkInterval = 0], [Source EXCEPT !.barrierInterval = 0],
   [Source EXCEPT !.outOfOrderness = -1],
   [Sink EXCEPT !.watermarkInterval = 1], [Sink EXCEPT !.barrierInterval = 1],
   [Sink EXCEPT !.outOfOrderness = 1],
   [Sink EXCEPT !.factories = {}], [Sink EXCEPT !.factories = {"operator", "sink"}],
   [Sink EXCEPT !.parallelism = 0], [Sink EXCEPT !.parallelism = MaxParallelism + 1]}

(* A second source or sink, so that one that is not connected may be the   *)
(* only fault; it is too wide for MaxChannels, so no job that has it runs. *)
Seconds == {declare(2, "source", 4, 1), declare(3, "sink", 4, 0)}

MCDeclarations ==
  {Source, declare(2, "operator", 1, 0), declare(3, "operator", 1, 0),
   Sink, [Sink EXCEPT !.parallelism = 2]} \cup Misdeclared \cup Seconds

(* One barrier, a record of the next epoch, and the end. *)
MCEmission == <<[kind |-> "barrier", val |-> 1], [kind |-> "record", val |-> 0],
                [kind |-> "eos", val |-> 0]>>
=============================================================================
