------------------------------ MODULE Dataflow ------------------------------
(***************************************************************************)
(* A job's goroutines and the bounded channels between them: what          *)
(* RunWithOptions starts for a graph (executor.go), transport.Channel and  *)
(* transport.Writer, the gates' forwarders, and the subtask loops down to  *)
(* where each of them blocks.  The graph is built first, in any way; only  *)
(* one that TopoOrder accepts runs.                                        *)
(*                                                                         *)
(* A subtask sends to its outputs one after the other and is stuck in the  *)
(* first that is full.  Elements carry no data here: which subtask of a    *)
(* vertex a record goes to is any choice a key's hash may make.            *)
(***************************************************************************)
EXTENDS JobGraph, GateCore

Digraph == INSTANCE Graphs

CONSTANTS Capacity,   \* transport.DefaultCapacity
          Hashes,     \* the hash values the keys have
          MaxChannels, \* bound: channels of a job that is run
          Emission    \* what a source subtask emits, end-of-stream included

ASSUME DataflowAssumption ==
  /\ Capacity \in Nat \ {0} /\ Hashes \subseteq Nat
  /\ Emission \in Seq(Element)

VARIABLES
  phase,     \* "building", then "ordered" and "running", or "rejected"
  order,     \* TopoOrder
  inputs,    \* inputs[s]: its channels, each a pair <<producer, consumer>>
  outputs,   \* outputs[s]: one group of channels for each downstream vertex
  channel,   \* channel[c]: what has been sent on c and is not on merged yet
  closed,    \* the channels their producers have closed
  exited,    \* the channels whose forwarder has returned
  merged,    \* merged[s]: the gate's channel
  gate,      \* gate[s]: the gate's fields
  outbox,    \* outbox[s]: the sends left in the Emit or Broadcast under way
  ahead,     \* ahead[s]: what source subtask s has still to emit
  ended,     \* the subtasks that have reached end-of-stream
  returned,  \* returned[s]: "no", "nil" or "error"
  cancelled  \* runCtx is done

graph    == <<phase, vertices, edges, order, inputs, outputs>>
progress == <<outbox, ahead, ended, returned>>
runtime  == <<channel, closed, exited, merged, gate, progress, cancelled>>
vars     == <<graph, runtime>>

-----------------------------------------------------------------------------
(* wire: P*Q channels for an edge.  A subtask's inputs are in the order of *)
(* the traversal, its outputs grouped by downstream vertex.                *)
subtasksOf(v) == [i \in 1..vertex(v).parallelism |-> <<v, i - 1>>]
subtasks == UNION {ToSet(subtasksOf(v)) : v \in ids}

wiredInputs(s) ==
  FlattenSeq([n \in 1..Len(order) |->
    IF <<order[n], s[1]>> \notin edges THEN << >>
    ELSE [i \in 1..Len(subtasksOf(order[n])) |-> <<subtasksOf(order[n])[i], s>>]])

wiredOutputs(s) ==
  [n \in 1..Len(Downstream(s[1])) |->
     [i \in 1..Len(subtasksOf(Downstream(s[1])[n])) |->
        <<s, subtasksOf(Downstream(s[1])[n])[i]>>]]

wired == UNION {ToSet(wiredInputs(s)) : s \in subtasks}

(* Writer.EmitRecord: one output of every group, by the key's hash. *)
EmitRecord(s, h, e) ==
  [n \in 1..Len(outputs[s]) |->
     [to |-> outputs[s][n][(h % Len(outputs[s][n])) + 1], elem |-> e]]

(* Mutant: a control element goes to one output of each group. *)
BadBroadcastPartitions(s, e) ==
  [n \in 1..Len(outputs[s]) |-> [to |-> outputs[s][n][1], elem |-> e]]

(* Writer.Broadcast: every output of every group. *)
Broadcast(s, e) ==
  LET all == FlattenSeq(outputs[s])
  IN [n \in 1..Len(all) |-> [to |-> all[n], elem |-> e]]

sends(s, h, e) == IF e.kind = "record" THEN EmitRecord(s, h, e) ELSE Broadcast(s, e)

-----------------------------------------------------------------------------
Init ==
  /\ New
  /\ phase = "building" /\ order = << >> /\ inputs = << >> /\ outputs = << >>
  /\ channel = << >> /\ closed = {} /\ exited = {}
  /\ merged = << >> /\ gate = << >>
  /\ outbox = << >> /\ ahead = << >> /\ ended = {} /\ returned = << >>
  /\ cancelled = FALSE

Build ==
  /\ phase = "building"
  /\ \/ \E d \in Declarations : AddVertex(d)
     \/ \E u, v \in ids : Connect(u, v)
  /\ UNCHANGED <<phase, order, inputs, outputs, runtime>>

TopoOrder ==
  /\ phase = "building"
  /\ phase' = IF Validate THEN "ordered" ELSE "rejected"
  /\ order' = IF Validate THEN kahn ELSE << >>
  /\ UNCHANGED <<vertices, edges, inputs, outputs, runtime>>

(* RunWithOptions goes on: wire, a gate and a goroutine for each subtask. *)
Start ==
  /\ phase = "ordered" /\ Cardinality(wired) <= MaxChannels
  /\ phase' = "running"
  /\ inputs' = [s \in subtasks |-> wiredInputs(s)]
  /\ outputs' = [s \in subtasks |-> wiredOutputs(s)]
  /\ channel' = [c \in wired |-> << >>]
  /\ merged' = [s \in subtasks |-> << >>]
  /\ gate' = [s \in subtasks |-> NewGate(Len(wiredInputs(s)))]
  /\ outbox' = [s \in subtasks |-> << >>]
  /\ ahead' = [s \in subtasks |-> IF vertex(s[1]).kind = "source" THEN Emission ELSE << >>]
  /\ returned' = [s \in subtasks |-> "no"]
  /\ UNCHANGED <<vertices, edges, order, closed, exited, ended, cancelled>>

-----------------------------------------------------------------------------
(* Subtasks.                                                               *)

running(s) == phase = "running" /\ returned[s] = "no"

(* The deferred CloseAll runs on every way out. *)
Return(s, how) ==
  /\ returned' = [returned EXCEPT ![s] = how]
  /\ closed' = closed \cup ToSet(FlattenSeq(outputs[s]))
  /\ outbox' = [outbox EXCEPT ![s] = << >>]
  /\ UNCHANGED <<graph, channel, exited, merged, gate, ahead, ended, cancelled>>

(* Mutant: off by one. *)
BadRoomForOneMore(c) == Len(channel[c]) <= IF c \in exited THEN Capacity ELSE Capacity + 1

(* A forwarder that lives takes its channel's head out at once and holds   *)
(* it while merged is full: one more element than the channel buffers.     *)
room(c) == Len(channel[c]) < IF c \in exited THEN Capacity ELSE Capacity + 1

(* Channel.Send on the output whose turn it is. *)
Send(s) ==
  /\ running(s) /\ outbox[s] # << >>
  /\ room(Head(outbox[s]).to)
  /\ channel' = [channel EXCEPT ![Head(outbox[s]).to] = Append(@, Head(outbox[s]).elem)]
  /\ outbox' = [outbox EXCEPT ![s] = Tail(@)]
  /\ UNCHANGED <<graph, closed, exited, merged, gate, ahead, ended, returned, cancelled>>

(* ... or it sees the context first, whether or not there is room. *)
SendFails(s) ==
  /\ running(s) /\ outbox[s] # << >> /\ cancelled
  /\ Return(s, "error")

(* Between two elements: sourceLoop looks at the context. *)
SourceNext(s) ==
  /\ running(s) /\ outbox[s] = << >> /\ ahead[s] # << >> /\ ~cancelled
  /\ \E h \in Hashes : outbox' = [outbox EXCEPT ![s] = sends(s, h, Head(ahead[s]))]
  /\ ahead' = [ahead EXCEPT ![s] = Tail(@)]
  /\ ended' = IF Head(ahead[s]).kind = "eos" THEN ended \cup {s} ELSE ended
  /\ UNCHANGED <<graph, channel, closed, exited, merged, gate, returned, cancelled>>

SourceStops(s) ==
  /\ running(s) /\ outbox[s] = << >> /\ ahead[s] # << >> /\ cancelled
  /\ Return(s, "error")

(* The closer goroutine closes merged when the last forwarder has returned. *)
mergedClosed(s) == ToSet(inputs[s]) \subseteq exited

receiving(s) ==
  /\ running(s) /\ inputs[s] # << >>
  /\ outbox[s] = << >> /\ s \notin ended

fromMerged(s) == gate[s].pending = << >> /\ gate[s].replay = << >>

(* Mutant: an aligned input is paused, its elements left where they are. *)
BadRecvMayPause(s) ==
  \/ ~fromMerged(s)
  \/ merged[s] # << >> /\ ~heldBack(gate[s], Head(merged[s]))

recvMay(s) == fromMerged(s) => merged[s] # << >>

(* The gate after one turn of Recv's loop. *)
afterTurn(s) ==
  LET q == gate[s]
  IN CASE q.pending # << >> -> q
       [] q.pending = << >> /\ q.replay # << >> ->
            handle([q EXCEPT !.replay = Tail(@)], Head(q.replay), FALSE)
       [] OTHER -> handle(q, Head(merged[s]), FALSE)

(* One turn of Recv; when it has something to return, the operator passes  *)
(* it on and the sink keeps it.                                            *)
Recv(s) ==
  /\ receiving(s) /\ recvMay(s)
  /\ merged' = IF fromMerged(s) THEN [merged EXCEPT ![s] = Tail(@)] ELSE merged
  /\ LET q == afterTurn(s)
         e == Head(q.pending)
     IN IF q.pending = << >>
        THEN gate' = [gate EXCEPT ![s] = q] /\ UNCHANGED <<outbox, ended>>
        ELSE /\ gate' = [gate EXCEPT ![s] = [q EXCEPT !.pending = Tail(@)]]
             /\ \E h \in Hashes :
                  outbox' = [outbox EXCEPT ![s] =
                               sends(s, h, [kind |-> e.kind, val |-> e.val])]
             /\ ended' = IF e.kind = "eos" THEN ended \cup {s} ELSE ended
  /\ UNCHANGED <<graph, channel, closed, exited, ahead, returned, cancelled>>

(* Recv reports closure with no end-of-stream: the subtask returns          *)
(* ctx.Err(), which is nil when the failed producer's cancel is still to    *)
(* come.                                                                    *)
InputsGone(s) ==
  /\ receiving(s) /\ fromMerged(s) /\ merged[s] = << >> /\ mergedClosed(s)
  /\ Return(s, IF cancelled THEN "error" ELSE "nil")

(* End-of-stream has been passed on to every output. *)
Finish(s) ==
  /\ running(s) /\ s \in ended /\ outbox[s] = << >>
  /\ Return(s, "nil")

(* The subtask itself fails, between two elements or in the middle of its  *)
(* sends.  Later failures add nothing: the job is coming apart.            *)
Fail(s) ==
  /\ running(s) /\ \A t \in DOMAIN returned : returned[t] # "error"
  /\ Return(s, "error")

(* errs <- err; cancel(). *)
Cancel ==
  /\ ~cancelled
  /\ \E s \in DOMAIN returned : returned[s] = "error"
  /\ cancelled' = TRUE
  /\ UNCHANGED <<graph, channel, closed, exited, merged, gate, progress>>

-----------------------------------------------------------------------------
(* The gate's forwarders.                                                  *)

Forward(c) ==
  /\ c \notin exited /\ channel[c] # << >>
  /\ LET s == c[2]
     IN /\ Len(merged[s]) < Len(inputs[s])
        /\ merged' = [merged EXCEPT ![s] =
             Append(@, [input |-> CHOOSE n \in DOMAIN inputs[s] : inputs[s][n] = c, pos |-> 0,
                        kind |-> Head(channel[c]).kind, val |-> Head(channel[c]).val])]
  /\ channel' = [channel EXCEPT ![c] = Tail(@)]
  /\ UNCHANGED <<graph, closed, exited, gate, progress, cancelled>>

(* The channel is closed and drained, or the context is done while the     *)
(* forwarder holds an element, which is lost.                              *)
ForwarderReturns(c) ==
  /\ c \notin exited
  /\ \/ channel[c] = << >> /\ c \in closed
     \/ channel[c] # << >> /\ cancelled
  /\ exited' = exited \cup {c}
  /\ channel' = [channel EXCEPT ![c] = IF @ = << >> THEN @ ELSE Tail(@)]
  /\ UNCHANGED <<graph, closed, merged, gate, progress, cancelled>>

-----------------------------------------------------------------------------
(* wg.Wait and every Gate.Wait have returned. *)
over == /\ phase = "running"
        /\ \A s \in DOMAIN returned : returned[s] # "no"
        /\ exited = DOMAIN channel
succeeded == over /\ \A s \in DOMAIN returned : returned[s] = "nil"

(* The steps goroutines take by themselves. *)
Step ==
  \/ \E s \in DOMAIN returned :
       \/ Send(s) \/ SendFails(s)
       \/ SourceNext(s) \/ SourceStops(s)
       \/ Recv(s) \/ InputsGone(s) \/ Finish(s)
  \/ \E c \in DOMAIN channel : Forward(c) \/ ForwarderReturns(c)
  \/ Cancel

Next ==
  \/ Build \/ TopoOrder \/ Start
  \/ Step
  \/ \E s \in DOMAIN returned : Fail(s)

Spec == Init /\ [][Next]_vars

(* Some goroutine that can run is run.  Nothing obliges a program to build *)
(* a graph, or a subtask to fail.                                          *)
FairSpec == Spec /\ WF_vars(Step)

-----------------------------------------------------------------------------
(* Types; no channel and no merged above its capacity, and no send left on  *)
(* a channel that is closed.                                                *)
TypeOK ==
  /\ phase \in {"building", "ordered", "running", "rejected"}
  /\ phase = "running" =>
       /\ \A c \in DOMAIN channel :
            channel[c] \in Seq(Element) /\ Len(channel[c]) <= Capacity + 1
       /\ \A s \in DOMAIN returned :
            /\ merged[s] \in Seq(Tagged(Len(inputs[s]))) /\ Len(merged[s]) <= Len(inputs[s])
            /\ gate[s] \in GateState(Len(inputs[s]))
            /\ \A n \in 1..Len(outbox[s]) : outbox[s][n].to \in DOMAIN channel \ closed
       /\ returned \in [DOMAIN outputs -> {"no", "nil", "error"}]
  /\ closed \cup exited \subseteq DOMAIN channel
  /\ ended \subseteq DOMAIN returned
  /\ cancelled \in BOOLEAN

(* What the runtime needs of a vertex: subtasks, code for its kind and no   *)
(* other, and the settings of its kind.  A source paces watermarks and      *)
(* barriers and allows for disorder; nobody else has a use for either.      *)
configured(d) ==
  LET paces == d.kind = "source"
  IN /\ d.parallelism > 0 /\ d.parallelism <= MaxParallelism
     /\ \A kind \in {"source", "operator", "sink"} : kind \in d.factories <=> kind = d.kind
     /\ {d.watermarkInterval, d.barrierInterval} \subseteq IF paces THEN Nat \ {0} ELSE {0}
     /\ d.outOfOrderness \in IF paces THEN Nat ELSE {0}

(* ... and of the graph: no element comes back to where it has been, each   *)
(* vertex gets elements that begin at a source, and what it sends ends in a *)
(* sink.                                                                    *)
executable ==
  LET flow == [node |-> ids, edge |-> edges]
      leads == Digraph!ConnectionsIn(flow)
      declared(kind) == {d.id : d \in {v \in vertices : v.kind = kind}}
  IN /\ vertices # {} /\ Digraph!IsDag(flow)
     /\ \A d \in vertices : configured(d)
     /\ \A v \in ids : /\ \E s \in declared("source") : leads[s, v]
                        /\ \E t \in declared("sink") : leads[v, t]
     /\ \A e \in edges : e[1] \notin declared("sink") /\ e[2] \notin declared("source")

(* TopoOrder, which looks at one vertex and its edges at a time, accepts a  *)
(* graph exactly when it is executable as a whole, and what it returns is   *)
(* an order of all the vertices that every edge follows ("a caller that     *)
(* gets an order back has a graph the runtime can execute").                *)
OrderIsExecutable ==
  /\ phase = "ordered" =>
       /\ executable
       /\ IsInjective(order) /\ ToSet(order) = ids
       /\ \A m, n \in DOMAIN order : <<order[m], order[n]>> \in edges => m < n
  /\ phase = "rejected" => ~executable

(* However little the channels buffer and wherever alignment holds an input *)
(* back, every subtask, every forwarder and so Run itself return, also when *)
(* a subtask fails at any moment (RunWithOptions: "no goroutine outlives    *)
(* Run").                                                                   *)
RunReturns == (phase = "running") ~> over

(* Every subtask saw end-of-stream on all of its inputs, and no element is  *)
(* left in any channel, merged or gate.                                     *)
delivered ==
  /\ \A s \in DOMAIN returned :
       /\ s \in ended
       /\ gate[s].pending = << >> /\ gate[s].replay = << >>
       /\ merged[s] = << >> /\ gate[s].remaining = 0
       /\ \A i \in inputsOf(gate[s]) : gate[s].buffered[i] = << >>
  /\ \A c \in DOMAIN channel : channel[c] = << >>

(* Run returns nil only if everything was delivered: a subtask that leaves  *)
(* quietly, because its producers closed without an end-of-stream, does so  *)
(* only in a run that returns some other subtask's error (runOperatorLoop). *)
NilMeansDelivered == succeeded => delivered
=============================================================================
