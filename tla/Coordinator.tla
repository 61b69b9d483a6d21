----------------------------- MODULE Coordinator -----------------------------
(***************************************************************************)
(* The checkpoint coordinator: pkg/checkpoint/coordinator.go, with what it *)
(* leaves on disk through pkg/checkpoint/storage.go.                       *)
(*                                                                         *)
(* Every method runs under one mutex held across its disk writes, so a     *)
(* method is one action; AwaitCompletedAmong gives the mutex up to sleep   *)
(* and is several.  The actions are what other modules conjoin to a        *)
(* subtask's own step: CheckpointRun with subtasks that do nothing else,   *)
(* Job with sources, operators and sinks.                                  *)
(*                                                                         *)
(* A directory's files are named here by checkpoint and subtask.  Writes   *)
(* may fail: then the method abandons the checkpoint and returns an error. *)
(***************************************************************************)
EXTENDS Shape

CONSTANT Payloads     \* what a subtask may hand over to be written

ASSUME PayloadsAssumption == NoFile \notin Payloads

VARIABLES
  status,   \* status[k]: "unknown" (not in state), "open", "complete", "abandoned"
  acked,    \* acked[k]: subtasks whose acknowledgement of k has been counted
  done,     \* done[s]: the payload of a finished subtask, NoFile if it is live
  files,    \* disk: files[k][s], the .state file of subtask s in checkpoint k
  marker,   \* disk: marker[k], does checkpoint k have its _COMPLETE file?
  waiter    \* waiter[s]: where sink s is in AwaitCompletedAmong

memory == <<status, acked, done, waiter>>
disk == <<files, marker>>
coordinator == <<memory, disk>>

terminal(k) == status[k] \in {"complete", "abandoned"}

(* Mutant: sinks are left out of the count. *)
BadOutstandingWithoutSinks(who, over) ==
  {s \in Subtasks \ Sinks : s \notin who /\ over[s] = NoFile}

(* Live subtasks that have not acknowledged, given who has and who is done. *)
outstanding(who, over) == {s \in Subtasks : s \notin who /\ over[s] = NoFile}

(* Closing the channel changed wakes every sleeper. *)
announced == [s \in Sinks |-> IF waiter[s] = "asleep" THEN "woken" ELSE waiter[s]]

(* Mutant: nobody writes the files of the finished. *)
BadFilledLeavesGaps(row, who, over) == row

(* The missing files of checkpoint k are those of finished subtasks. *)
filled(row, who, over) == [s \in Subtasks |-> IF s \in who THEN row[s] ELSE over[s]]

(* What a completion that failed half way left behind: some of the missing *)
(* files, and the marker only if it was renamed into place before the last *)
(* directory sync failed.                                                  *)
partlyFilled(row, who, over) ==
  {[s \in Subtasks |-> IF s \in who \/ s \in w THEN filled(row, who, over)[s] ELSE row[s]] :
     w \in SUBSET (Subtasks \ who)}

(* NewCoordinator: the memory of a run that starts or resumes. *)
fresh == [status |-> [k \in IDs |-> "unknown"],
          acked  |-> [k \in IDs |-> {}],
          done   |-> [s \in Subtasks |-> NoFile],
          waiter |-> [s \in Sinks |-> "no"]]

CoordinatorInit ==
  /\ status = fresh.status
  /\ acked = fresh.acked
  /\ done = fresh.done
  /\ waiter = fresh.waiter
  /\ files = [k \in IDs |-> [s \in Subtasks |-> NoFile]]
  /\ marker = [k \in IDs |-> FALSE]

-----------------------------------------------------------------------------
(* Acknowledge, one action for each of its returns. *)

(* Mutant: an abandoned checkpoint is recorded to all the same. *)
BadMayAcknowledgeAbandoned(k, s) == status[k] # "complete" /\ s \notin acked[k]

mayAcknowledge(k, s) == ~terminal(k) /\ s \notin acked[k]

(* Some other subtask has already failed at k: nothing to record, no error. *)
AckIgnored(k, s) ==
  /\ status[k] = "abandoned"
  /\ UNCHANGED coordinator

(* errDuplicateAck: complete, or acknowledged before.  No subtask asks for *)
(* it (NeverRefused in CheckpointRun), so it is not an action.             *)
refused(k, s) == status[k] = "complete" \/ s \in acked[k]

AckRecorded(k, s, payload) ==
  /\ mayAcknowledge(k, s)
  /\ outstanding(acked[k] \cup {s}, done) # {}
  /\ status' = [status EXCEPT ![k] = "open"]
  /\ acked' = [acked EXCEPT ![k] = @ \cup {s}]
  /\ files' = [files EXCEPT ![k][s] = payload]
  /\ UNCHANGED <<done, marker, waiter>>

(* The last one: complete writes the files of the finished, then the marker. *)
AckCompletes(k, s, payload) ==
  /\ mayAcknowledge(k, s)
  /\ outstanding(acked[k] \cup {s}, done) = {}
  /\ status' = [status EXCEPT ![k] = "complete"]
  /\ acked' = [acked EXCEPT ![k] = {}]
  /\ files' = [files EXCEPT ![k] =
                 filled([@ EXCEPT ![s] = payload], acked[k] \cup {s}, done)]
  /\ marker' = [marker EXCEPT ![k] = TRUE]
  /\ waiter' = announced
  /\ UNCHANGED done

(* Mutant: the waiters are not woken. *)
BadAckWriteFailsSilently(k, s) ==
  /\ mayAcknowledge(k, s)
  /\ status' = [status EXCEPT ![k] = "abandoned"]
  /\ acked' = [acked EXCEPT ![k] = {}]
  /\ UNCHANGED <<done, files, marker, waiter>>

(* Mutant: the acknowledgements of an abandoned checkpoint are kept. *)
BadAckWriteFailsKeepsAcks(k, s) ==
  /\ mayAcknowledge(k, s)
  /\ status' = [status EXCEPT ![k] = "abandoned"]
  /\ waiter' = announced
  /\ UNCHANGED <<acked, done, files, marker>>

(* The subtask's own file could not be written: an error. *)
AckWriteFails(k, s) ==
  /\ mayAcknowledge(k, s)
  /\ status' = [status EXCEPT ![k] = "abandoned"]
  /\ acked' = [acked EXCEPT ![k] = {}]
  /\ waiter' = announced
  /\ UNCHANGED <<done, files, marker>>

(* It was the last one and complete failed: an error. *)
AckCompleteFails(k, s, payload) ==
  /\ mayAcknowledge(k, s)
  /\ outstanding(acked[k] \cup {s}, done) = {}
  /\ status' = [status EXCEPT ![k] = "abandoned"]
  /\ acked' = [acked EXCEPT ![k] = {}]
  /\ LET who == acked[k] \cup {s}
         row == [files[k] EXCEPT ![s] = payload]
     IN \E left \in partlyFilled(row, who, done), marked \in SUBSET {k} :
          /\ k \in marked => left = filled(row, who, done)
          /\ files' = [files EXCEPT ![k] = left]
          /\ marker' = [marker EXCEPT ![k] = @ \/ k \in marked]
  /\ waiter' = announced
  /\ UNCHANGED done

(* Acknowledge returned nil. *)
Acknowledged(k, s, payload) ==
  AckIgnored(k, s) \/ AckRecorded(k, s, payload) \/ AckCompletes(k, s, payload)

(* Acknowledge returned an error. *)
AcknowledgeFails(k, s, payload) ==
  AckWriteFails(k, s) \/ AckCompleteFails(k, s, payload)

-----------------------------------------------------------------------------
(* Finished: the checkpoints that were waiting only for s complete here. *)

ready(over) == {k \in IDs : status[k] = "open" /\ outstanding(acked[k], over) = {}}

(* Mutant: a checkpoint that waited only for s stays open. *)
BadFinishedCompletesNothing(s, payload) ==
  /\ done[s] = NoFile
  /\ done' = [done EXCEPT ![s] = payload]
  /\ UNCHANGED <<status, acked, files, marker, waiter>>

FinishedOK(s, payload) ==
  /\ done[s] = NoFile
  /\ done' = [done EXCEPT ![s] = payload]
  /\ LET now == ready([done EXCEPT ![s] = payload])
     IN /\ status' = [k \in IDs |-> IF k \in now THEN "complete" ELSE status[k]]
        /\ acked' = [k \in IDs |-> IF k \in now THEN {} ELSE acked[k]]
        /\ files' = [k \in IDs |-> IF k \in now
                       THEN filled(files[k], acked[k], [done EXCEPT ![s] = payload])
                       ELSE files[k]]
        /\ marker' = [k \in IDs |-> k \in now \/ marker[k]]
        /\ waiter' = IF now = {} THEN waiter ELSE announced

(* One of those completions failed.  The map is walked in no fixed order,  *)
(* so any of the others may have completed before it; the rest stay open.  *)
StopsAt(bad, before, left, marked, over) ==
  /\ status' = [k \in IDs |-> IF k \in before THEN "complete"
                              ELSE IF k = bad THEN "abandoned" ELSE status[k]]
  /\ acked' = [k \in IDs |-> IF k \in before \/ k = bad THEN {} ELSE acked[k]]
  /\ files' = [k \in IDs |-> IF k \in before THEN filled(files[k], acked[k], over)
                             ELSE IF k = bad THEN left ELSE files[k]]
  /\ marker' = [k \in IDs |-> k \in before \/ k \in marked \/ marker[k]]
  /\ waiter' = announced

FinishedFails(s, payload) ==
  /\ done[s] = NoFile
  /\ done' = [done EXCEPT ![s] = payload]
  /\ LET over == [done EXCEPT ![s] = payload]
     IN \E bad \in ready(over) :
        \E before \in SUBSET (ready(over) \ {bad}), marked \in SUBSET {bad} :
        \E left \in partlyFilled(files[bad], acked[bad], over) :
          /\ bad \in marked => left = filled(files[bad], acked[bad], over)
          /\ StopsAt(bad, before, left, marked, over)

(* Fail: the subtask could not snapshot.  A complete checkpoint stays so. *)
Fail(k, s) ==
  /\ status' = [status EXCEPT ![k] = IF @ = "complete" THEN @ ELSE "abandoned"]
  /\ acked' = [acked EXCEPT ![k] = {}]
  /\ waiter' = IF status[k] = "complete" THEN waiter ELSE announced
  /\ UNCHANGED <<done, disk>>

-----------------------------------------------------------------------------
(* CompletedAmong and AwaitCompletedAmong. *)

(* Mutant: what has been staged may be committed. *)
BadCompletedAll(ids) == ids

completed(ids) == {k \in ids : status[k] = "complete"}

settled(ids) == \A k \in ids : terminal(k)

AwaitBegins(s) ==
  /\ waiter[s] = "no"
  /\ waiter' = [waiter EXCEPT ![s] = "checking"]
  /\ UNCHANGED <<status, acked, done, disk>>

(* The critical section: examine the state and, if it is not settled, take *)
(* the channel that the next announcement closes.                          *)
AwaitChecks(s, ids) ==
  /\ waiter[s] \in {"checking", "woken"}
  /\ waiter' = [waiter EXCEPT ![s] = IF settled(ids) THEN "returned" ELSE "asleep"]
  /\ UNCHANGED <<status, acked, done, disk>>

AwaitCancelled(s) ==
  /\ waiter[s] \in {"asleep", "woken"}
  /\ waiter' = [waiter EXCEPT ![s] = "returned"]
  /\ UNCHANGED <<status, acked, done, disk>>
=============================================================================
