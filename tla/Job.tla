--------------------------------- MODULE Job ---------------------------------
(***************************************************************************)
(* A job from its first record to its last, across failures: the executor, *)
(* the subtask loops and the restore path (pkg/runtime/executor.go,        *)
(* subtask.go, source_task.go) around Coordinator and TransactionalSink.   *)
(*                                                                         *)
(* Every subtask with inputs reads them through a gate, and Gate is shown  *)
(* to implement AlignedMerge, so a gate here is what AlignedMerge says: a  *)
(* barrier is taken from all live inputs in one step, anything else as it  *)
(* comes.  Channels are unbounded here.  Watermarks are left out: what an  *)
(* operator does with them is to decide when a record it holds comes out.  *)
(* An operator here passes a record on at once, or keeps it in its state   *)
(* until some later moment, at the latest the end of its input.            *)
(*                                                                         *)
(* A run ends by a crash (all memory is lost, a file that was open is torn *)
(* or whole), by a failed subtask (the others may still take steps before  *)
(* the run is torn down) or by success.  A job that did not succeed is run *)
(* again from the latest complete checkpoint, from the beginning if there  *)
(* is none.                                                                *)
(***************************************************************************)
EXTENDS Coordinator, TransactionalSink, Sequences, SequencesExt

CONSTANTS
  Up,            \* Up[s]: the subtasks upstream of s
  Count,         \* Count[s]: records in the range of source s
  Floor,         \* Floor[s]: count / parallelism of its vertex, its share or one less
  Interval,      \* Interval[s]: BarrierIntervalElements of source s
  Dest(_, _),    \* Dest(u, r): where u sends record r, one per downstream group
  MaxFailures,   \* bound: failures of the job
  MaxLostNotifications  \* bound: notifications whose rename failed

Edges == {e \in Subtasks \X Subtasks : e[1] \in Up[e[2]]}

(* The barrier budget, the same for every subtask of a source. *)
maxBarriers(s) == IF Interval[s] = 0 THEN 0 ELSE Floor[s] \div Interval[s]

(* Graph.Validate: a sink has no outbound edge and a source no inbound one. *)
ASSUME JobAssumption ==
  /\ IDs = 1..Cardinality(IDs) /\ Cardinality(IDs) \in Nat
  /\ \A s \in Subtasks : Up[s] \subseteq Subtasks \ Sinks
  /\ Records = UNION {{<<s, n>> : n \in 1..Count[s]} : s \in Sources}
  /\ \A s \in Sources : Up[s] = {} /\ Count[s] \in Nat /\ Interval[s] \in Nat
  /\ \A s \in Sources : Floor[s] \in {Count[s] - 1, Count[s]}
  /\ \A s \in Sources : maxBarriers(s) \in IDs \cup {0}
  /\ IsFiniteSet(Records) /\ NoFile \notin [Records -> Nat]
  /\ MaxFailures \in Nat /\ MaxLostNotifications \in Nat

(* The subtasks record r can reach. *)
route(r) ==
  {x \in Subtasks : \A S \in SUBSET Subtasks :
     r[1] \in S /\ (\A u \in S \ Sinks : Dest(u, r) \subseteq S) => x \in S}

(* One outbound edge to a vertex, as every job of the repository has it    *)
(* (cmd/worker/main.go, cmd/bench/workload.go, test/chaos/run.go,          *)
(* nexmark.go): a record goes one way from its source and, the graph being *)
(* acyclic, ends in one sink.                                              *)
ASSUME RouteAssumption ==
  \A r \in Records :
    /\ \A u \in route(r) \ Sinks : \E d \in Subtasks : u \in Up[d] /\ Dest(u, r) = {d}
    /\ \E s \in Sinks : route(r) \cap Sinks = {s}

VARIABLES
  mode,        \* "running", "final" (every subtask returned nil), "down", "done"
  failed,      \* some subtask returned an error: the context is done
  restoredID,  \* the checkpoint this run resumed from, 0 for none
  position,    \* position[s]: records source s has emitted, over all runs
  injected,    \* barrierGenerator.injected
  sinceLast,   \* barrierGenerator.sinceLast
  chan,        \* chan[<<u, s>>]: what u has sent to s and s has not taken
  ended,       \* ended[s]: inputs of s that delivered end-of-stream
  returned,    \* subtasks that have returned
  held,        \* held[o]: the records in the keyed state of operator o
  pc,          \* pc[s]: where sink s is
  pending,     \* pending[s]: checkpoints sink s has staged and not committed
  todo,        \* todo[s]: the ones it has just learned are complete
  failures, lost,  \* how often the job, or a notification, has failed
  succeeded    \* history: a run has reached commitFinalEpochs

sourceVars == <<position, injected, sinceLast>>
flowVars == <<chan, ended, returned>>
sinkVars == <<pc, pending, todo>>
runVars == <<mode, failed, restoredID, failures, lost, succeeded>>
vars == <<coordinator, sourceVars, flowVars, held, sinkVars, sink, runVars>>

-----------------------------------------------------------------------------
(* Sending: a record to one channel of every group, anything else to all. *)
downstream(u) == {e \in Edges : e[1] = u}

Rec(r) == [kind |-> "record", val |-> r]
Bar(k) == [kind |-> "barrier", val |-> k]
EOS    == [kind |-> "eos", val |-> 0]

EmitRecord(c, u, r) ==
  [e \in Edges |-> IF e[1] = u /\ e[2] \in Dest(u, r) THEN Append(c[e], Rec(r)) ELSE c[e]]

Broadcast(c, u, m) == [e \in Edges |-> IF e[1] = u THEN Append(c[e], m) ELSE c[e]]

(* The gate of s as AlignedMerge has it. *)
liveInputs(s) == Up[s] \ ended[s]

headIs(u, s, kind) == chan[<<u, s>>] # << >> /\ Head(chan[<<u, s>>]).kind = kind

atCut(s, k) ==
  /\ liveInputs(s) # {}
  /\ \A u \in liveInputs(s) : headIs(u, s, "barrier") /\ Head(chan[<<u, s>>]).val = k

(* The channels once s has taken the first element of each of the inputs us. *)
taken(s, us) == [e \in Edges |-> IF e[2] = s /\ e[1] \in us THEN Tail(chan[e]) ELSE chan[e]]

up == mode = "running"

-----------------------------------------------------------------------------
(* Sources. *)

barrierDue(s) == /\ Interval[s] > 0
                 /\ injected[s] < maxBarriers(s)
                 /\ sinceLast[s] = Interval[s]

(* Mutant: the end of the range is read one record too far. *)
BadSourceRecordPastEnd(s) ==
  /\ up /\ ~failed /\ s \notin returned
  /\ ~barrierDue(s) /\ position[s] <= Count[s]
  /\ position' = [position EXCEPT ![s] = @ + 1]
  /\ sinceLast' = [sinceLast EXCEPT ![s] = IF injected[s] < maxBarriers(s) THEN @ + 1 ELSE @]
  /\ chan' = EmitRecord(chan, s, <<s, position[s] + 1>>)
  /\ UNCHANGED <<coordinator, injected, ended, returned, held, sinkVars, sink, runVars>>

SourceRecord(s) ==
  /\ up /\ ~failed /\ s \notin returned
  /\ ~barrierDue(s) /\ position[s] < Count[s]
  /\ position' = [position EXCEPT ![s] = @ + 1]
  /\ sinceLast' = [sinceLast EXCEPT ![s] = IF injected[s] < maxBarriers(s) THEN @ + 1 ELSE @]
  /\ chan' = EmitRecord(chan, s, <<s, position[s] + 1>>)
  /\ UNCHANGED <<coordinator, injected, ended, returned, held, sinkVars, sink, runVars>>

(* The position is acknowledged first, then the barrier goes out. *)
SourceBarrier(s) ==
  /\ up /\ s \notin returned /\ barrierDue(s)
  /\ Acknowledged(injected[s] + 1, s, position[s])
  /\ injected' = [injected EXCEPT ![s] = @ + 1]
  /\ sinceLast' = [sinceLast EXCEPT ![s] = 0]
  /\ chan' = Broadcast(chan, s, Bar(injected[s] + 1))
  /\ UNCHANGED <<position, ended, returned, held, sinkVars, sink, runVars>>

(* Mutant: the coordinator is not told. *)
BadSourceEndUntold(s) ==
  /\ up /\ s \notin returned /\ ~barrierDue(s) /\ position[s] = Count[s]
  /\ chan' = Broadcast(chan, s, EOS)
  /\ returned' = returned \cup {s}
  /\ UNCHANGED <<coordinator, sourceVars, ended, held, sinkVars, sink, runVars>>

(* Finished is told before end-of-stream is broadcast. *)
SourceEnd(s) ==
  /\ up /\ s \notin returned /\ ~barrierDue(s) /\ position[s] = Count[s]
  /\ FinishedOK(s, position[s])
  /\ chan' = Broadcast(chan, s, EOS)
  /\ returned' = returned \cup {s}
  /\ UNCHANGED <<sourceVars, ended, held, sinkVars, sink, runVars>>

-----------------------------------------------------------------------------
(* Operators. *)

OperatorRecord(o, u) ==
  /\ up /\ o \notin returned
  /\ u \in liveInputs(o) /\ headIs(u, o, "record")
  /\ LET r == Head(chan[<<u, o>>]).val
     IN \/ chan' = EmitRecord(taken(o, {u}), o, r) /\ UNCHANGED held
        \/ chan' = taken(o, {u}) /\ held' = [held EXCEPT ![o] = @ \cup {r}]
  /\ UNCHANGED <<coordinator, sourceVars, ended, returned, sinkVars, sink, runVars>>

(* A watermark fires the timer of something it holds. *)
OperatorFires(o) ==
  /\ up /\ o \notin returned /\ liveInputs(o) # {}
  /\ \E r \in held[o] : /\ chan' = EmitRecord(chan, o, r)
                        /\ held' = [held EXCEPT ![o] = @ \ {r}]
  /\ UNCHANGED <<coordinator, sourceVars, ended, returned, sinkVars, sink, runVars>>

(* Mutant: the first barrier to arrive is taken for all of them. *)
BadOperatorBarrierUnaligned(o, k) ==
  /\ up /\ o \notin returned
  /\ Acknowledged(k, o, held[o])
  /\ LET at == {u \in liveInputs(o) : headIs(u, o, "barrier") /\ Head(chan[<<u, o>>]).val = k}
     IN at # {} /\ chan' = Broadcast(taken(o, at), o, Bar(k))
  /\ UNCHANGED <<sourceVars, ended, returned, held, sinkVars, sink, runVars>>

(* The state is acknowledged first, then the barrier goes on. *)
OperatorBarrier(o, k) ==
  /\ up /\ o \notin returned /\ atCut(o, k)
  /\ Acknowledged(k, o, held[o])
  /\ chan' = Broadcast(taken(o, liveInputs(o)), o, Bar(k))
  /\ UNCHANGED <<sourceVars, ended, returned, held, sinkVars, sink, runVars>>

(* An input of a gate ends; the last one is what the subtask gets to see. *)
InputEnds(s, u) ==
  /\ up /\ s \notin returned
  /\ u \in liveInputs(s) /\ headIs(u, s, "eos")
  /\ chan' = taken(s, {u})
  /\ ended' = [ended EXCEPT ![s] = @ \cup {u}]
  /\ UNCHANGED <<coordinator, sourceVars, returned, held, sinkVars, sink, runVars>>

(* What o sends to s when it lets go of everything it holds. *)
flushed(o, s) ==
  LET rs == SetToSeq({r \in held[o] : s \in Dest(o, r)})
  IN [n \in 1..Len(rs) |-> Rec(rs[n])]

(* The final watermark flushes the state, then end-of-stream goes on.  The *)
(* coordinator is told nothing.                                            *)
OperatorEnd(o) ==
  /\ up /\ o \notin returned /\ liveInputs(o) = {}
  /\ chan' = Broadcast([e \in Edges |-> IF e[1] = o THEN chan[e] \o flushed(o, e[2]) ELSE chan[e]],
                       o, EOS)
  /\ held' = [held EXCEPT ![o] = {}]
  /\ returned' = returned \cup {o}
  /\ UNCHANGED <<coordinator, sourceVars, ended, sinkVars, sink, runVars>>

-----------------------------------------------------------------------------
(* Sinks. *)

(* The payload Restore gets: the epoch this sink closed, none on a fresh run. *)
restorePayload(s) == IF restoredID = 0 THEN 0 ELSE files[restoredID][s]

SinkRestoring(s) ==
  /\ up /\ pc[s] = "restore"
  /\ \/ \E e \in Epochs : SettleStaged(s, e, restorePayload(s)) /\ UNCHANGED pc
     \/ Restored(s, restorePayload(s)) /\ pc' = [pc EXCEPT ![s] = "run"]
  /\ UNCHANGED <<coordinator, sourceVars, flowVars, held, pending, todo, runVars>>

SinkRecord(s, u) ==
  /\ up /\ pc[s] = "run"
  /\ u \in liveInputs(s) /\ headIs(u, s, "record")
  /\ Write(s, Head(chan[<<u, s>>]).val)
  /\ chan' = taken(s, {u})
  /\ UNCHANGED <<coordinator, sourceVars, ended, returned, held, sinkVars, runVars>>

(* The epoch is closed and acknowledged; committing comes later. *)
SinkBarrier(s, k) ==
  /\ up /\ pc[s] = "run" /\ atCut(s, k)
  /\ Snapshot(s)
  /\ Acknowledged(k, s, epoch[s])
  /\ chan' = taken(s, liveInputs(s))
  /\ pending' = [pending EXCEPT ![s] = @ \cup {k}]
  /\ pc' = [pc EXCEPT ![s] = "ask"]
  /\ UNCHANGED <<sourceVars, ended, returned, held, todo, runVars>>

(* CompletedAmong, after every barrier. *)
SinkAsks(s) ==
  /\ up /\ pc[s] = "ask"
  /\ todo' = [todo EXCEPT ![s] = completed(pending[s])]
  /\ pc' = [pc EXCEPT ![s] = "notify"]
  /\ UNCHANGED <<coordinator, sourceVars, flowVars, held, pending, sink, runVars>>

(* notifyCompleted: one checkpoint at a time.  A rename that fails is      *)
(* logged and the checkpoint is dropped from the list all the same.        *)
SinkNotify(s) ==
  /\ up /\ pc[s] \in {"notify", "last"} /\ todo[s] # {}
  /\ LET k == CHOOSE j \in todo[s] : \A i \in todo[s] : j <= i
     IN /\ todo' = [todo EXCEPT ![s] = @ \ {k}]
        /\ pending' = [pending EXCEPT ![s] = @ \ {k}]
        /\ \/ NotifyCheckpointComplete(s, k) /\ UNCHANGED lost
           \/ /\ lost < MaxLostNotifications
              /\ lost' = lost + 1
              /\ UNCHANGED sink
  /\ UNCHANGED <<coordinator, sourceVars, flowVars, held, pc,
                 mode, failed, restoredID, failures, succeeded>>

SinkNotified(s) ==
  /\ up /\ todo[s] = {}
  /\ \/ pc[s] = "notify" /\ pc' = [pc EXCEPT ![s] = "run"] /\ UNCHANGED <<returned, sink>>
     \/ /\ pc[s] = "last"
        /\ Close(s)
        /\ pc' = [pc EXCEPT ![s] = "returned"]
        /\ returned' = returned \cup {s}
  /\ UNCHANGED <<coordinator, sourceVars, chan, ended, held, pending, todo, runVars>>

(* End of stream: AwaitCompletedAmong what is still pending. *)
SinkEnd(s) ==
  /\ up /\ pc[s] \in {"run", "await"} /\ liveInputs(s) = {}
  /\ \/ AwaitBegins(s)
     \/ AwaitChecks(s, pending[s])
     \/ failed /\ AwaitCancelled(s)
  /\ pc' = [pc EXCEPT ![s] = IF waiter'[s] = "returned" THEN "last" ELSE "await"]
  /\ todo' = [todo EXCEPT ![s] = IF waiter'[s] = "returned" THEN completed(pending[s]) ELSE {}]
  /\ UNCHANGED <<sourceVars, flowVars, held, pending, sink, runVars>>

-----------------------------------------------------------------------------
(* The end of a run. *)

FailuresLeft == failures < MaxFailures

(* What a failing subtask does to the coordinator: nothing, when it could  *)
(* not process or write an element or a fault was injected; or it could    *)
(* not snapshot, could not write the snapshot, or could not complete a     *)
(* checkpoint it was the last of.                                          *)
FailsAt(s) ==
  \/ UNCHANGED coordinator
  \/ s \in Sources /\ barrierDue(s) /\ AcknowledgeFails(injected[s] + 1, s, position[s])
  \/ s \in Sources /\ ~barrierDue(s) /\ position[s] = Count[s] /\ FinishedFails(s, position[s])
  \/ s \in Operators /\ \E k \in IDs : atCut(s, k) /\ (Fail(k, s) \/ AcknowledgeFails(k, s, held[s]))
  \/ /\ s \in Sinks /\ pc[s] = "run"
     /\ \E k \in IDs : atCut(s, k) /\ (Fail(k, s) \/ AcknowledgeFails(k, s, epoch[s]))

(* It returns the error, and a sink closes on the way out. *)
SubtaskFails(s) ==
  /\ up /\ FailuresLeft /\ ~failed /\ s \notin returned
  /\ FailsAt(s)
  /\ failed' = TRUE
  /\ returned' = returned \cup {s}
  /\ failures' = failures + 1
  /\ IF s \in Sinks THEN Close(s) /\ pc' = [pc EXCEPT ![s] = "returned"]
                    ELSE UNCHANGED <<sink, pc>>
  /\ UNCHANGED <<sourceVars, chan, ended, held, pending, todo,
                 mode, restoredID, lost, succeeded>>

(* Every goroutine of a failed run has unwound. *)
TornDown ==
  /\ up /\ failed
  /\ mode' = "down"
  /\ UNCHANGED <<coordinator, sourceVars, flowVars, held, sinkVars, sink,
                 failed, restoredID, failures, lost, succeeded>>

(* The process dies.  What an open staging file holds on disk is all that  *)
(* was written to it or nothing.                                           *)
Crash ==
  /\ mode \in {"running", "final"} /\ FailuresLeft
  /\ mode' = "down"
  /\ failures' = failures + 1
  /\ \E torn \in SUBSET {s \in Sinks : opened[s]} :
       staging' = [s \in Sinks |-> IF s \in torn THEN [staging[s] EXCEPT ![epoch[s]] = empty]
                                   ELSE staging[s]]
  /\ UNCHANGED <<coordinator, sourceVars, flowVars, held, sinkVars, sinkMemory, committed,
                 failed, restoredID, lost, succeeded>>

(* Storage.Latest. *)
Latest == IF \E k \in IDs : marker[k] THEN Max({k \in IDs : marker[k]}) ELSE 0

(* loadRestorePoint and the start of every subtask.  A root without a      *)
(* complete checkpoint is refused, and the job is then run from scratch.   *)
Restart ==
  /\ mode = "down"
  /\ mode' = "running"
  /\ failed' = FALSE
  /\ restoredID' = Latest
  /\ status' = fresh.status /\ acked' = fresh.acked
  /\ done' = fresh.done /\ waiter' = fresh.waiter
  /\ position' = [s \in Sources |-> IF Latest = 0 THEN 0 ELSE files[Latest][s]]
  /\ injected' = [s \in Sources |-> Latest]
  /\ sinceLast' = [s \in Sources |-> 0]
  /\ chan' = [e \in Edges |-> << >>]
  /\ ended' = [s \in Subtasks |-> {}]
  /\ returned' = {}
  /\ held' = [o \in Operators |-> IF Latest = 0 THEN {} ELSE files[Latest][o]]
  /\ pc' = [s \in Sinks |-> "restore"]
  /\ pending' = [s \in Sinks |-> {}]
  /\ todo' = [s \in Sinks |-> {}]
  /\ epoch' = newSink.epoch /\ firstEpoch' = newSink.firstEpoch
  /\ opened' = newSink.opened /\ written' = newSink.written
  /\ UNCHANGED <<disk, sinkDisk, failures, lost, succeeded>>

(* Mutant: the executor waits for the sources only. *)
BadAllReturnedSources ==
  /\ up /\ ~failed /\ Sources \subseteq returned
  /\ mode' = "final"
  /\ succeeded' = TRUE
  /\ UNCHANGED <<coordinator, sourceVars, flowVars, held, sinkVars, sink,
                 failed, restoredID, failures, lost>>

(* Every subtask has returned and none with an error. *)
AllReturned ==
  /\ up /\ ~failed /\ returned = Subtasks
  /\ mode' = "final"
  /\ succeeded' = TRUE
  /\ UNCHANGED <<coordinator, sourceVars, flowVars, held, sinkVars, sink,
                 failed, restoredID, failures, lost>>

(* commitFinalEpochs goes through the sinks in the order they opened, which *)
(* is any order.                                                           *)
CommitFinal(s) ==
  /\ mode = "final"
  /\ CommitFinalEpoch(s)
  /\ UNCHANGED <<coordinator, sourceVars, flowVars, held, sinkVars, runVars>>

JobSucceeds ==
  /\ mode = "final" /\ \A s \in Sinks : leftStaged(s) = {}
  /\ mode' = "done"
  /\ UNCHANGED <<coordinator, sourceVars, flowVars, held, sinkVars, sink,
                 failed, restoredID, failures, lost, succeeded>>

Succeeded == mode = "done" /\ UNCHANGED vars

-----------------------------------------------------------------------------
Init ==
  /\ CoordinatorInit
  /\ SinkInit
  /\ mode = "running" /\ failed = FALSE /\ restoredID = 0
  /\ position = [s \in Sources |-> 0]
  /\ injected = [s \in Sources |-> 0]
  /\ sinceLast = [s \in Sources |-> 0]
  /\ chan = [e \in Edges |-> << >>]
  /\ ended = [s \in Subtasks |-> {}]
  /\ returned = {}
  /\ held = [o \in Operators |-> {}]
  /\ pc = [s \in Sinks |-> "restore"]
  /\ pending = [s \in Sinks |-> {}]
  /\ todo = [s \in Sinks |-> {}]
  /\ failures = 0 /\ lost = 0 /\ succeeded = FALSE

SourceStep(s) == SourceRecord(s) \/ SourceBarrier(s) \/ SourceEnd(s)

OperatorStep(o) ==
  \/ \E u \in Up[o] : OperatorRecord(o, u) \/ InputEnds(o, u)
  \/ \E k \in IDs : OperatorBarrier(o, k)
  \/ OperatorFires(o) \/ OperatorEnd(o)

SinkStep(s) ==
  \/ SinkRestoring(s)
  \/ \E u \in Up[s] : SinkRecord(s, u) \/ (pc[s] = "run" /\ InputEnds(s, u))
  \/ \E k \in IDs : SinkBarrier(s, k)
  \/ SinkAsks(s) \/ SinkNotify(s) \/ SinkNotified(s) \/ SinkEnd(s)

ExecutorStep ==
  \/ TornDown \/ Restart \/ AllReturned \/ JobSucceeds
  \/ \E s \in Sinks : CommitFinal(s)

Next ==
  \/ \E s \in Sources : SourceStep(s)
  \/ \E o \in Operators : OperatorStep(o)
  \/ \E s \in Sinks : SinkStep(s)
  \/ ExecutorStep
  \/ \E s \in Subtasks : SubtaskFails(s)
  \/ Crash
  \/ Succeeded

Spec == Init /\ [][Next]_vars

(* Goroutines are scheduled, and someone runs a failed job again; nothing  *)
(* makes it fail.                                                          *)
FairSpec ==
  /\ Spec
  /\ \A s \in Sources : WF_vars(SourceStep(s))
  /\ \A o \in Operators : WF_vars(OperatorStep(o))
  /\ \A s \in Sinks : WF_vars(SinkStep(s))
  /\ WF_vars(ExecutorStep)

-----------------------------------------------------------------------------
(* Every variable that is not the coordinator's or the sink's has its type. *)
TypeOK ==
  /\ mode \in {"running", "final", "down", "done"}
  /\ failed \in BOOLEAN /\ succeeded \in BOOLEAN
  /\ restoredID \in IDs \cup {0}
  /\ \A s \in Sources : /\ position[s] \in 0..Count[s]
                        /\ injected[s] \in IDs \cup {0}
                        /\ sinceLast[s] \in 0..Interval[s]
  /\ \A s \in Subtasks : ended[s] \subseteq Up[s]
  /\ returned \subseteq Subtasks
  /\ \A o \in Operators : held[o] \subseteq Records
  /\ \A s \in Sinks :
       /\ pc[s] \in {"restore", "run", "ask", "notify", "await", "last", "returned"}
       /\ todo[s] \subseteq pending[s] /\ pending[s] \subseteq IDs
  /\ failures \in 0..MaxFailures /\ lost \in 0..MaxLostNotifications

copies(file, r) == IF file = NoFile THEN 0 ELSE file[r]

(* Where record r is in the committed directory. *)
committedIn(r) == {p \in Sinks \X Epochs : copies(committed[p[1]][p[2]], r) > 0}

below(k) == {r \in Records : r[2] <= files[k][r[1]]}

(* Where a job resumed at checkpoint k finds record r: in the state of an  *)
(* operator, or in a file that is committed or that Restore will commit.   *)
recoverable(k, r) ==
  LET holds(dir, p) == copies(dir[p[1]][p[2]], r) > 0
      upTo == Sinks \X (1..k)
  IN [state     : {o \in Operators : r \in files[k][o]}]
       \cup [staging   : {p \in upTo : holds(staging, p)}]
       \cup [committed : {p \in upTo : holds(committed, p)}]

(* Every complete checkpoint is a consistent cut of the whole job, at any  *)
(* later moment: a record the sources are past is in exactly one place a   *)
(* resumed job looks, and a record they will emit again is in none.        *)
CheckpointsAreCuts ==
  \A k \in IDs : marker[k] =>
    \A r \in Records :
      Cardinality(recoverable(k, r)) = IF r \in below(k) THEN 1 ELSE 0

(* Invariant 4: nothing is output before it is covered by a complete       *)
(* checkpoint, unless a run of the job got to its end.                     *)
CommittedIsCovered ==
  \A s \in Sinks, e \in Epochs :
    committed[s][e] # NoFile => succeeded \/ \E k \in IDs : k >= e /\ marker[k]

(* No record is output twice, whatever failed and however often: not in    *)
(* two files and not twice in one.                                         *)
NoDuplicates ==
  /\ \A r \in Records : Cardinality(committedIn(r)) <= 1
  /\ \A s \in Sinks, e \in Epochs : \A r \in Records : copies(committed[s][e], r) <= 1

(* A job that succeeded has output every record. *)
NothingMissing ==
  mode = "done" => \A r \in Records : committedIn(r) # {}

(* The sink never meets ErrStagedFileMissing: its epochs and the checkpoint *)
(* IDs it is notified of do not drift apart.                               *)
NoDrift ==
  \A s \in Sinks : up => \A k \in todo[s] : ~missing(s, k)

(* The output as its reader sees it, against Output: records appear, each  *)
(* once, none is ever withdrawn, and the job ends only when all are there. *)
Published == INSTANCE Output WITH
  out  <- {r \in Records : \E s \in Sinks, e \in Epochs : copies(committed[s][e], r) > 0},
  over <- mode = "done"

ImplementsOutput == Published!Spec

(* The job ends, however many of the bounded failures it meets: no sink    *)
(* waits for a checkpoint that nobody is going to complete.                *)
Termination == <>(mode = "done")
=============================================================================
