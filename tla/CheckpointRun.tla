---------------------------- MODULE CheckpointRun ----------------------------
(***************************************************************************)
(* The coordinator with the subtasks of one run as its callers             *)
(* (pkg/runtime/subtask.go).  A subtask acknowledges the checkpoints in    *)
(* order, then stops: a source after Finished, a sink after                *)
(* AwaitCompletedAmong, an operator without a word.  In which order they   *)
(* reach a barrier is left open, so every topology is covered.             *)
(* A subtask's payload for checkpoint k is k and its last one is 0.        *)
(***************************************************************************)
EXTENDS Coordinator

CONSTANT MaxID   \* barriers of the longest source

ASSUME IDsAssumption ==
  /\ MaxID \in Nat
  /\ IDs = 1..MaxID
  /\ IDs \cup {0} \subseteq Payloads

VARIABLES
  next,       \* next[s]: the checkpoint whose barrier s reaches next
  stopped,    \* stopped[s]: "no", "ok" (returned nil) or "failed"
  cancelled   \* the job's context is done

vars == <<coordinator, next, stopped, cancelled>>

Init ==
  /\ CoordinatorInit
  /\ next = [s \in Subtasks |-> 1]
  /\ stopped = [s \in Subtasks |-> "no"]
  /\ cancelled = FALSE

running(s) == stopped[s] = "no" /\ (s \in Sinks => waiter[s] = "no")

(* The barrier's snapshot is acknowledged and the subtask goes on. *)
SubtaskAcknowledges(s) ==
  /\ running(s) /\ next[s] \in IDs
  /\ Acknowledged(next[s], s, next[s])
  /\ next' = [next EXCEPT ![s] = @ + 1]
  /\ UNCHANGED <<stopped, cancelled>>

(* Acknowledge returned an error, which is the subtask's own failure. *)
SubtaskAcknowledgeFails(s) ==
  /\ running(s) /\ next[s] \in IDs
  /\ AcknowledgeFails(next[s], s, next[s])
  /\ stopped' = [stopped EXCEPT ![s] = "failed"]
  /\ UNCHANGED <<next, cancelled>>

(* The snapshot itself failed. *)
SubtaskSnapshotFails(s) ==
  /\ running(s) /\ next[s] \in IDs
  /\ Fail(next[s], s)
  /\ stopped' = [stopped EXCEPT ![s] = "failed"]
  /\ UNCHANGED <<next, cancelled>>

SourceFinishes(s) ==
  /\ running(s)
  /\ \/ FinishedOK(s, 0) /\ stopped' = [stopped EXCEPT ![s] = "ok"]
     \/ FinishedFails(s, 0) /\ stopped' = [stopped EXCEPT ![s] = "failed"]
  /\ UNCHANGED <<next, cancelled>>

(* An operator at end of stream broadcasts it and returns. *)
OperatorReturns(s) ==
  /\ running(s)
  /\ stopped' = [stopped EXCEPT ![s] = "ok"]
  /\ UNCHANGED <<coordinator, next, cancelled>>

acknowledgedBy(s) == {k \in IDs : k < next[s]}

SinkEnds(s) ==
  /\ stopped[s] = "no"
  /\ \/ AwaitBegins(s) /\ UNCHANGED stopped
     \/ AwaitChecks(s, acknowledgedBy(s)) /\ UNCHANGED stopped
     \/ cancelled /\ AwaitCancelled(s) /\ UNCHANGED stopped
     \/ /\ waiter[s] = "returned"
        /\ stopped' = [stopped EXCEPT ![s] = "ok"]
        /\ UNCHANGED coordinator
  /\ UNCHANGED <<next, cancelled>>

(* The executor cancels the job on the first error. *)
Cancel ==
  /\ ~cancelled
  /\ \E s \in Subtasks : stopped[s] = "failed"
  /\ cancelled' = TRUE
  /\ UNCHANGED <<coordinator, next, stopped>>

Next ==
  \/ \E s \in Subtasks : \/ SubtaskAcknowledges(s)
                         \/ SubtaskAcknowledgeFails(s)
                         \/ SubtaskSnapshotFails(s)
  \/ \E s \in Sources : SourceFinishes(s)
  \/ \E s \in Operators : OperatorReturns(s)
  \/ \E s \in Sinks : SinkEnds(s)
  \/ Cancel

Spec == Init /\ [][Next]_vars

-----------------------------------------------------------------------------
(* Every variable has its type, and only an open checkpoint has a set of   *)
(* acknowledgements.                                                       *)
TypeOK ==
  /\ status \in [IDs -> {"unknown", "open", "complete", "abandoned"}]
  /\ acked \in [IDs -> SUBSET Subtasks]
  /\ \A k \in IDs : acked[k] # {} => status[k] = "open"
  /\ done \in [Subtasks -> Payloads \cup {NoFile}]
  /\ files \in [IDs -> [Subtasks -> Payloads \cup {NoFile}]]
  /\ marker \in [IDs -> BOOLEAN]
  /\ waiter \in [Sinks -> {"no", "checking", "asleep", "woken", "returned"}]
  /\ next \in [Subtasks -> Nat]
  /\ stopped \in [Subtasks -> {"no", "ok", "failed"}]
  /\ cancelled \in BOOLEAN

(* A _COMPLETE marker vouches for a file of every subtask, and that file   *)
(* is the subtask's snapshot at that very barrier unless the subtask had   *)
(* finished, in which case it is its last one.  It holds of a marker left  *)
(* by a completion that failed after the rename, too.                      *)
MarkerVouches ==
  \A k \in IDs :
    /\ status[k] = "complete" => marker[k]
    /\ marker[k] =>
         \A s \in Subtasks :
           \/ files[k][s] = k /\ next[s] >= k
           \/ /\ files[k][s] = done[s] /\ done[s] # NoFile
              /\ stopped[s] # "no" /\ next[s] <= k

(* No checkpoint completes without a subtask that is still going to        *)
(* acknowledge it, so Acknowledge never meets errDuplicateAck.             *)
NeverRefused ==
  \A s \in Subtasks : running(s) /\ next[s] \in IDs => ~refused(next[s], s)

(* A checkpoint that nobody is outstanding for has been completed, by the  *)
(* last acknowledgement or by the last Finished, whichever came second;    *)
(* one that is left open is left by a failure the job is stopping for.     *)
NoneLeftReady ==
  (\A s \in Subtasks : stopped[s] # "failed") => ready(done) = {}

(* A sink that sleeps has something to wait for: every way a checkpoint    *)
(* ends wakes it, and it cannot fall asleep after the last wake-up.        *)
NoLostWakeup ==
  \A s \in Sinks : waiter[s] = "asleep" => ~settled(acknowledgedBy(s))

(* Complete and abandoned are final, and nothing touches the files of a    *)
(* complete checkpoint again.                                              *)
TerminalIsFinal ==
  [][\A k \in IDs :
       /\ terminal(k) => status'[k] = status[k]
       /\ status[k] = "complete" => files'[k] = files[k] /\ marker'[k]]_vars
=============================================================================
