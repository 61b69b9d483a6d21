-------------------------- MODULE TransactionalSink --------------------------
(***************************************************************************)
(* The file sink that commits by renaming: pkg/sinks/transactional.go.     *)
(*                                                                         *)
(* Records of an epoch go to a staging file named after the subtask and    *)
(* the checkpoint that will close the epoch; the rename into the committed *)
(* directory is the commit.  Like Coordinator, this module has the state   *)
(* and the methods; Job calls them.  A directory maps a subtask and an     *)
(* epoch to the file of that name.  A file counts the copies of each       *)
(* record, so that a record written twice shows.                           *)
(***************************************************************************)
EXTENDS Shape

CONSTANT Records      \* what the sink's subtasks are sent

(* The last epoch is the one no checkpoint closes. *)
Epochs == IDs \cup {Cardinality(IDs) + 1}

VARIABLES
  epoch,       \* epoch[s]: the checkpoint the current staging file belongs to
  firstEpoch,  \* firstEpoch[s]: the first epoch of this instance
  opened,      \* opened[s]: the staging file of the current epoch is open
  written,     \* written[s]: epochs this instance opened a staging file for
  staging,     \* disk: staging[s][e]
  committed    \* disk: committed[s][e]

sinkMemory == <<epoch, firstEpoch, opened, written>>
sinkDisk == <<staging, committed>>
sink == <<sinkMemory, sinkDisk>>

empty == [r \in Records |-> 0]

noFiles == [s \in Sinks |-> [e \in Epochs |-> NoFile]]

staged(s, e) == staging[s][e] # NoFile

(* New: the first epoch is 1 until Restore says otherwise. *)
newSink == [epoch      |-> [s \in Sinks |-> 1],
            firstEpoch |-> [s \in Sinks |-> 1],
            opened     |-> [s \in Sinks |-> FALSE],
            written    |-> [s \in Sinks |-> {}]]

SinkInit ==
  /\ epoch = newSink.epoch
  /\ firstEpoch = newSink.firstEpoch
  /\ opened = newSink.opened
  /\ written = newSink.written
  /\ staging = noFiles
  /\ committed = noFiles

(* The file of the current epoch is created, or truncated, by its first    *)
(* record (openEpoch) and appended to by the others.                       *)
Write(s, r) ==
  LET file == IF opened[s] THEN staging[s][epoch[s]] ELSE empty
  IN /\ staging' = [staging EXCEPT ![s][epoch[s]] = [file EXCEPT ![r] = @ + 1]]
     /\ opened' = [opened EXCEPT ![s] = TRUE]
     /\ written' = [written EXCEPT ![s] = @ \cup {epoch[s]}]
     /\ UNCHANGED <<epoch, firstEpoch, committed>>

(* Snapshot closes the epoch durably and begins the next; its payload is   *)
(* the number of the epoch it closed.                                      *)
Snapshot(s) ==
  /\ opened' = [opened EXCEPT ![s] = FALSE]
  /\ epoch' = [epoch EXCEPT ![s] = @ + 1]
  /\ UNCHANGED <<firstEpoch, written, sinkDisk>>

(* Close flushes what is staged and commits nothing. *)
Close(s) ==
  /\ opened' = [opened EXCEPT ![s] = FALSE]
  /\ UNCHANGED <<epoch, firstEpoch, written, sinkDisk>>

(* os.Rename from staging to committed, replacing what was there; without  *)
(* a staging file there is nothing to rename.                              *)
Rename(s, e) ==
  IF staged(s, e)
  THEN /\ committed' = [committed EXCEPT ![s][e] = staging[s][e]]
       /\ staging' = [staging EXCEPT ![s][e] = NoFile]
  ELSE UNCHANGED sinkDisk

(* ErrStagedFileMissing: a file this instance wrote is in neither directory. *)
missing(s, k) ==
  /\ ~staged(s, k) /\ committed[s][k] = NoFile
  /\ k \in firstEpoch[s]..epoch[s]-1
  /\ k \in written[s]

NotifyCheckpointComplete(s, k) == Rename(s, k) /\ UNCHANGED sinkMemory

(* Mutant: everything that was left is committed. *)
BadSettleCommitsAll(s, e, k) ==
  /\ staged(s, e)
  /\ Rename(s, e)
  /\ UNCHANGED sinkMemory

(* Mutant: the files of the other subtasks are taken for one's own. *)
BadSettleTakesAll(s, e, k) ==
  /\ \E x \in Sinks :
       /\ staged(x, e)
       /\ IF e > k
          THEN staging' = [staging EXCEPT ![x][e] = NoFile] /\ UNCHANGED committed
          ELSE Rename(x, e)
  /\ UNCHANGED sinkMemory

(* settleStaged deals with one file of this subtask at a time: what is at  *)
(* or below the restored checkpoint k is committed, what is above is removed.*)
SettleStaged(s, e, k) ==
  /\ staged(s, e)
  /\ IF e > k
     THEN staging' = [staging EXCEPT ![s][e] = NoFile] /\ UNCHANGED committed
     ELSE Rename(s, e)
  /\ UNCHANGED sinkMemory

(* Restore sets the epoch once everything is settled. *)
Restored(s, k) ==
  /\ \A e \in Epochs : ~staged(s, e)
  /\ epoch' = [epoch EXCEPT ![s] = k + 1]
  /\ firstEpoch' = [firstEpoch EXCEPT ![s] = k + 1]
  /\ written' = [written EXCEPT ![s] = {}]
  /\ UNCHANGED <<opened, sinkDisk>>

(* Mutant: only the epoch that is open is looked for. *)
BadLeftStagedCurrent(s) == {e \in {epoch[s]} : staged(s, e)}

(* CommitFinalEpoch renames every epoch of this instance that is still     *)
(* staged, lowest first.                                                   *)
leftStaged(s) == {e \in firstEpoch[s]..epoch[s] : staged(s, e)}

CommitFinalEpoch(s) ==
  /\ leftStaged(s) # {}
  /\ Rename(s, CHOOSE e \in leftStaged(s) : \A f \in leftStaged(s) : e <= f)
  /\ UNCHANGED sinkMemory
=============================================================================
