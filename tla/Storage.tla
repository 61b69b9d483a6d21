------------------------------- MODULE Storage -------------------------------
(***************************************************************************)
(* checkpoint.Storage down to its file system calls: what is in the page   *)
(* cache, what of it is on the disk, and what a killed process and a power *)
(* loss leave.  The coordinator's mutex lets one operation run at a time.  *)
(*                                                                         *)
(* A rename is seen at once and reaches the disk at any later moment, each *)
(* name on its own, and by the directory's fsync at the latest.  A power   *)
(* loss replaces the cache by the disk.  Temporary files are never read:   *)
(* a new write truncates what a crash left of them.                        *)
(***************************************************************************)
EXTENDS Integers, Sequences

CONSTANTS AllSubtasks, \* the subtasks of any job that uses this root
          Jobs,        \* the shapes a run may have: Metadata.Subtasks()
          MaxID,       \* bound: the last checkpoint ID
          MaxRuns,     \* bound: how often the process is started
          None         \* no entry of that name

ASSUME StorageAssumption ==
  /\ Jobs \subseteq SUBSET AllSubtasks \ {{}}
  /\ MaxID \in Nat \ {0} /\ MaxRuns \in Nat \ {0}
  /\ "_METADATA" \notin AllSubtasks /\ "_COMPLETE" \notin AllSubtasks

IDs == 1..MaxID
Names == AllSubtasks \cup {"_METADATA", "_COMPLETE"}

VARIABLES
  dirs,       \* the checkpoint directories in the root, as a process sees them
  rootOnDisk, \* those of them whose entry in the root is on the disk
  entry,      \* entry[k][n]: the file a process sees under name n of chk-k
  onDisk,     \* onDisk[k][n]: the file the disk has under that name
  ordered,    \* this file system writes a new directory's own entry with its fsync
  run, job,   \* the number of the current run, and its shape
  up,         \* whether its process is alive
  restored,   \* the checkpoint it resumed from, 0 for none
  op, pc,     \* the operation in flight and its next step
  temp,       \* the temporary file that operation has written
  acked,      \* acked[k]: the subtasks whose state of checkpoint k is in place
  abandoned,  \* the checkpoints this run has given up
  announced   \* history: the checkpoints Complete has returned nil for

files   == <<dirs, rootOnDisk, entry, onDisk>>
process == <<run, job, up, restored>>
vars    == <<files, ordered, process, op, pc, temp, acked, abandoned, announced>>

(* A file: the run that wrote it, the subtasks it lists if it is metadata,  *)
(* and whether its contents were fsynced before it got its name.  On the    *)
(* disk a file that was not is one decodeSubtaskState or decodeMetadata     *)
(* refuses (magic, length, CRC).                                            *)
File == [by : 1..MaxRuns, lists : SUBSET AllSubtasks, synced : BOOLEAN]

ASSUME NoneAssumption == None \notin File

idle == [do |-> "nothing", id |-> 0, key |-> None]
EmptyDir == [n \in Names |-> None]

-----------------------------------------------------------------------------
(* The operations as the file system calls they make, in order.             *)

(* Mutant: the metadata's rename is not made durable before the marker. *)
BadCompleteOneSync ==
  <<[call |-> "mkdir",  name |-> None],
    [call |-> "write",  name |-> "_METADATA"],
    [call |-> "rename", name |-> "_METADATA"],
    [call |-> "write",  name |-> "_COMPLETE"],
    [call |-> "rename", name |-> "_COMPLETE"],
    [call |-> "sync",   name |-> None]>>

(* Mutant: nothing makes the marker's rename durable. *)
BadCompleteUnsyncedMarker ==
  <<[call |-> "mkdir",  name |-> None],
    [call |-> "write",  name |-> "_METADATA"],
    [call |-> "rename", name |-> "_METADATA"],
    [call |-> "sync",   name |-> None],
    [call |-> "write",  name |-> "_COMPLETE"],
    [call |-> "rename", name |-> "_COMPLETE"]>>

Complete ==
  <<[call |-> "mkdir",  name |-> None],
    [call |-> "write",  name |-> "_METADATA"],
    [call |-> "rename", name |-> "_METADATA"],
    [call |-> "sync",   name |-> None],
    [call |-> "write",  name |-> "_COMPLETE"],
    [call |-> "rename", name |-> "_COMPLETE"],
    [call |-> "sync",   name |-> None]>>

WriteSubtaskState(s) ==
  <<[call |-> "mkdir",  name |-> None],
    [call |-> "write",  name |-> s],
    [call |-> "rename", name |-> s]>>

program == IF op.do = "state" THEN WriteSubtaskState(op.key) ELSE Complete
running(call) == up /\ op # idle /\ pc <= Len(program) /\ program[pc].call = call

MkdirAll ==
  /\ running("mkdir")
  /\ dirs' = dirs \cup {op.id}
  /\ pc' = pc + 1
  /\ UNCHANGED <<rootOnDisk, entry, onDisk, ordered, process, op, temp, acked,
                 abandoned, announced>>

(* writeFileSynced up to its rename: create or truncate, write, fsync, close. *)
WriteTemp ==
  /\ running("write")
  /\ temp' = [by |-> run, synced |-> TRUE,
              lists |-> IF program[pc].name = "_METADATA" THEN job ELSE {}]
  /\ pc' = pc + 1
  /\ UNCHANGED <<files, ordered, process, op, acked, abandoned, announced>>

Rename ==
  /\ running("rename")
  /\ entry' = [entry EXCEPT ![op.id][program[pc].name] = temp]
  /\ temp' = None
  /\ pc' = pc + 1
  /\ UNCHANGED <<dirs, rootOnDisk, onDisk, ordered, process, op, acked, abandoned,
                 announced>>

(* The directory's fsync: its names are on the disk.  Its own name in the  *)
(* root is not its business, unless the file system orders the two.        *)
SyncDir ==
  /\ running("sync")
  /\ onDisk' = [onDisk EXCEPT ![op.id] = entry[op.id]]
  /\ rootOnDisk' = IF ordered THEN rootOnDisk \cup {op.id} ELSE rootOnDisk
  /\ pc' = pc + 1
  /\ UNCHANGED <<dirs, entry, ordered, process, op, temp, acked, abandoned, announced>>

(* Any of those calls fails: the operation stops there, and the coordinator *)
(* gives the checkpoint up.                                                 *)
CallFails ==
  /\ up /\ op # idle /\ pc <= Len(program)
  /\ abandoned' = abandoned \cup {op.id}
  /\ op' = idle /\ pc' = 1 /\ temp' = None
  /\ UNCHANGED <<files, ordered, process, acked, announced>>

-----------------------------------------------------------------------------
(* Who calls them: Coordinator.Acknowledge, with its mutex held throughout. *)

(* Mutant: IDs continue from the one restored, that one included. *)
BadAcknowledgeRestoredID(k, s) ==
  /\ up /\ op = idle
  /\ k >= restored /\ k \notin abandoned
  /\ s \in job /\ s \notin acked[k]
  /\ \A j \in IDs : j \in restored .. k - 1 => s \in acked[j] \/ j \in abandoned
  /\ op' = [do |-> "state", id |-> k, key |-> s]
  /\ pc' = 1
  /\ UNCHANGED <<files, ordered, process, temp, acked, abandoned, announced>>

(* A subtask acknowledges its barriers in order. *)
Acknowledge(k, s) ==
  /\ up /\ op = idle
  /\ k > restored /\ k \notin abandoned
  /\ s \in job /\ s \notin acked[k]
  /\ \A j \in restored + 1 .. k - 1 : s \in acked[j] \/ j \in abandoned
  /\ op' = [do |-> "state", id |-> k, key |-> s]
  /\ pc' = 1
  /\ UNCHANGED <<files, ordered, process, temp, acked, abandoned, announced>>

(* WriteSubtaskState returned nil; the last subtask goes on to Complete. *)
StateInPlace ==
  /\ up /\ op.do = "state" /\ pc > Len(program)
  /\ acked' = [acked EXCEPT ![op.id] = @ \cup {op.key}]
  /\ op' = IF job \subseteq acked'[op.id]
             THEN [do |-> "complete", id |-> op.id, key |-> None] ELSE idle
  /\ pc' = 1
  /\ UNCHANGED <<files, ordered, process, temp, abandoned, announced>>

(* Complete returned nil: the coordinator tells the sinks. *)
Announce ==
  /\ up /\ op.do = "complete" /\ pc > Len(program)
  /\ announced' = announced \cup {op.id}
  /\ op' = idle /\ pc' = 1
  /\ UNCHANGED <<files, ordered, process, temp, acked, abandoned>>

-----------------------------------------------------------------------------
(* The file system, and what takes a process down.                         *)

(* One name of one directory reaches the disk. *)
WriteBack(k, n) ==
  /\ onDisk[k][n] # entry[k][n]
  /\ onDisk' = [onDisk EXCEPT ![k][n] = entry[k][n]]
  /\ UNCHANGED <<dirs, rootOnDisk, entry, ordered, process, op, pc, temp, acked,
                 abandoned, announced>>

(* One directory's name reaches the disk. *)
WriteBackRoot(k) ==
  /\ k \in dirs \ rootOnDisk
  /\ rootOnDisk' = rootOnDisk \cup {k}
  /\ UNCHANGED <<dirs, entry, onDisk, ordered, process, op, pc, temp, acked,
                 abandoned, announced>>

stopped ==
  /\ up /\ up' = FALSE
  /\ op' = idle /\ pc' = 1 /\ temp' = None
  /\ job' = {} /\ restored' = 0
  /\ acked' = [k \in IDs |-> {}] /\ abandoned' = {}
  /\ UNCHANGED <<ordered, run, announced>>

(* The process is killed, or its job fails: the cache outlives it. *)
Kill == stopped /\ UNCHANGED files

(* The machine stops: only what is on the disk outlives it. *)
surviving(k) == IF k \in rootOnDisk THEN onDisk[k] ELSE EmptyDir

loseCache ==
  /\ dirs' = rootOnDisk
  /\ entry' = [k \in IDs |-> surviving(k)]
  /\ onDisk' = [k \in IDs |-> surviving(k)]
  /\ UNCHANGED rootOnDisk

PowerLoss == stopped /\ loseCache

(* ... or between two runs. *)
PowerLossWhileDown ==
  /\ ~up /\ run > 0
  /\ loseCache
  /\ entry' # entry \/ onDisk' # onDisk \/ dirs' # dirs
  /\ UNCHANGED <<ordered, process, op, pc, temp, acked, abandoned, announced>>

-----------------------------------------------------------------------------
(* Starting: loadRestorePoint.                                             *)

marked == {k \in dirs : entry[k]["_COMPLETE"] # None}

(* Mutant: the first complete checkpoint met is taken. *)
BadLatestIsFirst(k) == k \in marked /\ \A j \in marked : j >= k

(* Latest returns k: directories without the marker are skipped, and        *)
(* nothing else is looked at.                                               *)
Latest(k) == k \in marked /\ \A j \in marked : j <= k

(* The file is there, whole and of the format (newReader). *)
decodeMetadata(file) == file # None /\ file.synced

(* ... and the checkpoint and the subtask it names are the ones asked for, *)
(* which is so for everything WriteSubtaskState puts under that name.      *)
decodeSubtaskState(file) == file # None /\ file.synced

(* Load: the metadata and every state file it lists are there and decode. *)
Loads(k) ==
  /\ decodeMetadata(entry[k]["_METADATA"])
  /\ \A s \in entry[k]["_METADATA"].lists : decodeSubtaskState(entry[k][s])

CheckAgainst(k, shape) == entry[k]["_METADATA"].lists = shape

begin(from, shape) ==
  /\ ~up /\ run < MaxRuns
  /\ run' = run + 1 /\ job' = shape /\ up' = TRUE /\ restored' = from
  /\ UNCHANGED <<files, ordered, op, pc, temp, acked, abandoned, announced>>

(* Whoever starts the job asks it to resume when there is something to      *)
(* resume from.                                                             *)
StartFresh(shape) == marked = {} /\ begin(0, shape)

Resume(k, shape) == Latest(k) /\ Loads(k) /\ CheckAgainst(k, shape) /\ begin(k, shape)

Init ==
  /\ dirs = {} /\ rootOnDisk = {}
  /\ entry = [k \in IDs |-> EmptyDir]
  /\ onDisk = [k \in IDs |-> EmptyDir]
  /\ ordered \in BOOLEAN
  /\ run = 0 /\ job = {} /\ up = FALSE /\ restored = 0
  /\ op = idle /\ pc = 1 /\ temp = None
  /\ acked = [k \in IDs |-> {}]
  /\ abandoned = {} /\ announced = {}

Next ==
  \/ \E k \in IDs, s \in AllSubtasks : Acknowledge(k, s)
  \/ MkdirAll \/ WriteTemp \/ Rename \/ SyncDir \/ CallFails
  \/ StateInPlace \/ Announce
  \/ \E k \in IDs, n \in Names : WriteBack(k, n)
  \/ \E k \in IDs : WriteBackRoot(k)
  \/ Kill \/ PowerLoss \/ PowerLossWhileDown
  \/ \E shape \in Jobs : StartFresh(shape) \/ \E k \in IDs : Resume(k, shape)

Spec == Init /\ [][Next]_vars

-----------------------------------------------------------------------------
(* Types, and: an operation in flight is one of the run's own checkpoints,  *)
(* above the one it resumed from.                                           *)
TypeOK ==
  /\ rootOnDisk \subseteq dirs /\ dirs \subseteq IDs
  /\ entry \in [IDs -> [Names -> File \cup {None}]]
  /\ onDisk \in [IDs -> [Names -> File \cup {None}]]
  /\ ordered \in BOOLEAN
  /\ run \in 0..MaxRuns /\ job \in Jobs \cup {{}} /\ up \in BOOLEAN
  /\ restored \in 0..MaxID
  /\ temp \in File \cup {None}
  /\ acked \in [IDs -> SUBSET AllSubtasks]
  /\ abandoned \subseteq IDs /\ announced \subseteq IDs
  /\ op = idle \/ /\ up /\ op.id \in restored + 1 .. MaxID
                  /\ \/ op.do = "state" /\ op.key \in job /\ pc \in 1..4
                     \/ op.do = "complete" /\ op.key = None /\ pc \in 1..8

(* Every file that the marker of directory d vouches for: the metadata, and *)
(* the state of each subtask it lists, all of one run and all decodable.    *)
Vouched(d) ==
  LET meta == d["_METADATA"]
  IN /\ meta # None /\ meta.synced
     /\ \A s \in meta.lists : d[s] # None /\ d[s].synced /\ d[s].by = meta.by

(* Whatever moment a kill or a power loss comes at, and whichever renames   *)
(* had reached the disk by then, a directory with a _COMPLETE marker holds  *)
(* everything the marker vouches for, from one run (storage.go: "There is   *)
(* no state in which _COMPLETE is durable and the files it vouches for are  *)
(* not").  As far as the caller of Run keeps to StartFresh: a run that does *)
(* not restore is given a root without complete checkpoints, which the      *)
(* executor does not check.                                                 *)
MarkerVouches ==
  \A k \in IDs : /\ entry[k]["_COMPLETE"] # None => Vouched(entry[k])
                 /\ onDisk[k]["_COMPLETE"] # None => Vouched(onDisk[k])

(* A checkpoint the sinks were told about outlives everything (the          *)
(* coordinator's complete: "_COMPLETE is on the disk and fsynced").         *)
AnnouncedSurvives == \A k \in announced : entry[k]["_COMPLETE"] # None

(* On a file system that writes a directory's own entry with its fsync, the *)
(* two fsyncs of Complete are enough for that.                              *)
AnnouncedSurvivesIfOrdered == ordered => AnnouncedSurvives

(* No run writes into a directory that already has its marker, whatever was *)
(* killed or lost before (executor.go: "a resumed run does not write over   *)
(* the checkpoint it came from"; nor over any other that can be resumed),   *)
(* under the same contract: who does not restore starts on a root without   *)
(* complete checkpoints.                                                    *)
CompleteIsFinal ==
  [][\A k \in IDs : entry[k]["_COMPLETE"] # None =>
       entry'[k] = entry[k] \/ entry'[k] = surviving(k)]_vars
=============================================================================
