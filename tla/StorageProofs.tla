--------------------------- MODULE StorageProofs ---------------------------
(***************************************************************************)
(* Proofs about Storage: for every set of subtasks and of job shapes, any  *)
(* number of checkpoints and of runs, kills and power losses at any moment *)
(* and renames that reach the disk in any order.                           *)
(***************************************************************************)
EXTENDS Storage, TLAPS

Dir == [Names -> File \cup {None}]

(* What the current run writes. *)
own(lists) == [by |-> run, lists |-> lists, synced |-> TRUE]

hasMarker(k) == entry[k]["_COMPLETE"] # None

(* What a marker vouches for is on the disk as it is in the cache. *)
Settled(k) ==
  /\ onDisk[k]["_METADATA"] = entry[k]["_METADATA"]
  /\ \A s \in entry[k]["_METADATA"].lists : onDisk[k][s] = entry[k][s]

(* A marker on the disk is one in the cache, and stands for settled files. *)
Markers ==
  \A k \in IDs : /\ (\E n \in Names : entry[k][n] # None) => k \in dirs
                 /\ onDisk[k]["_COMPLETE"] # None => hasMarker(k)
                 /\ hasMarker(k) => Vouched(entry[k]) /\ Settled(k)

(* What has been acknowledged is in place, and a run only writes where     *)
(* there is no marker: the old ones are at or below the one it resumed     *)
(* from, its own are on checkpoints all subtasks have acknowledged.        *)
Acks ==
  /\ \A k \in IDs : \A s \in acked[k] :
       k > restored /\ entry[k][s] # None /\ entry[k][s].by = run /\ entry[k][s].synced
  /\ up => run > 0 /\ \A k \in IDs : hasMarker(k) => k <= restored \/ job \subseteq acked[k]
  /\ ~up => op = idle /\ acked = [k \in IDs |-> {}]

(* How far a write of a state file has got. *)
Writing ==
  op.do = "state" =>
    /\ op.key \notin acked[op.id]
    /\ pc = 3 => temp = own({})
    /\ pc = 4 => entry[op.id][op.key] = own({})

(* How far Complete has got. *)
Completing ==
  op.do = "complete" =>
    /\ job \subseteq acked[op.id]
    /\ pc = 3 => temp = own(job)
    /\ pc = 6 => temp = own({})
    /\ pc \in 1..6 <=> ~hasMarker(op.id)
    /\ pc \in 4..8 => entry[op.id]["_METADATA"] = own(job)
    /\ pc \in 5..8 => /\ onDisk[op.id]["_METADATA"] = entry[op.id]["_METADATA"]
                      /\ \A s \in job : onDisk[op.id][s] = entry[op.id][s]
                      /\ ordered => op.id \in rootOnDisk
    /\ pc = 8 => onDisk[op.id]["_COMPLETE"] # None

(* The directory is made before anything is put in it. *)
MadeFirst == op # idle /\ pc > 1 => op.id \in dirs

Durable ==
  ordered => \A k \in announced : k \in rootOnDisk /\ onDisk[k]["_COMPLETE"] # None

IInv == TypeOK /\ Markers /\ Acks /\ Writing /\ Completing /\ MadeFirst /\ Durable

-----------------------------------------------------------------------------
(* The calls a write of a state file makes. *)
LEMMA StateProgram ==
  ASSUME op.do = "state"
  PROVE  /\ Len(program) = 3
         /\ program[1] = [call |-> "mkdir", name |-> None]
         /\ program[2] = [call |-> "write", name |-> op.key]
         /\ program[3] = [call |-> "rename", name |-> op.key]
BY DEF program, WriteSubtaskState

(* The calls Complete makes. *)
LEMMA CompleteProgram ==
  ASSUME op.do = "complete"
  PROVE  /\ Len(program) = 7
         /\ program[1] = [call |-> "mkdir", name |-> None]
         /\ program[2] = [call |-> "write", name |-> "_METADATA"]
         /\ program[3] = [call |-> "rename", name |-> "_METADATA"]
         /\ program[4] = [call |-> "sync", name |-> None]
         /\ program[5] = [call |-> "write", name |-> "_COMPLETE"]
         /\ program[6] = [call |-> "rename", name |-> "_COMPLETE"]
         /\ program[7] = [call |-> "sync", name |-> None]
BY DEF program, Complete

(* Where in which operation each call is made. *)
LEMMA Calls ==
  ASSUME TypeOK
  PROVE  /\ running("mkdir") => pc = 1
         /\ running("write") => \/ op.do = "state" /\ pc = 2 /\ program[pc].name = op.key
                                \/ op.do = "complete" /\ pc = 2 /\ program[pc].name = "_METADATA"
                                \/ op.do = "complete" /\ pc = 5 /\ program[pc].name = "_COMPLETE"
         /\ running("rename") => \/ op.do = "state" /\ pc = 3 /\ program[pc].name = op.key
                                 \/ op.do = "complete" /\ pc = 3 /\ program[pc].name = "_METADATA"
                                 \/ op.do = "complete" /\ pc = 6 /\ program[pc].name = "_COMPLETE"
         /\ running("sync") => op.do = "complete" /\ pc \in {4, 7}
         /\ \A call \in {"mkdir", "write", "rename", "sync"} :
              running(call) => /\ up /\ op # idle /\ op.id \in IDs /\ op.id > restored
                               /\ pc \in Nat
                               /\ op.do = "state" => pc \in 1..3 /\ op.key \in job
                               /\ op.do = "complete" => pc \in 1..7 /\ op.key = None
<1>1. CASE op = idle
  BY <1>1 DEF running
<1>2. CASE op # idle /\ op.do = "state"
  <2>1. pc \in 1..4 /\ op.id \in restored + 1 .. MaxID /\ op.key \in job /\ restored \in Nat
    BY <1>2 DEF TypeOK, idle
  <2>2. op.id \in IDs /\ op.id > restored
    BY <2>1, StorageAssumption DEF IDs
  <2>3. ASSUME NEW call, running(call)
        PROVE  up /\ pc \in 1..3 /\ program[pc].call = call
    <3>1. up /\ pc <= Len(program) /\ program[pc].call = call
      BY <2>3 DEF running
    <3>2. Len(program) = 3
      BY <1>2, StateProgram
    <3>. QED
      BY <2>1, <3>1, <3>2
  <2>4. /\ program[1].call = "mkdir"
        /\ program[2].call = "write" /\ program[2].name = op.key
        /\ program[3].call = "rename" /\ program[3].name = op.key
    BY <1>2, StateProgram
  <2>5. /\ running("mkdir") => pc = 1
        /\ running("write") => pc = 2
        /\ running("rename") => pc = 3
        /\ ~running("sync")
    BY <2>3, <2>4
  <2>. QED
    BY <1>2, <2>1, <2>2, <2>3, <2>4, <2>5
<1>3. CASE op # idle /\ op.do = "complete"
  <2>1. pc \in 1..8 /\ op.id \in restored + 1 .. MaxID /\ op.key = None /\ restored \in Nat
    BY <1>3 DEF TypeOK, idle
  <2>2. op.id \in IDs /\ op.id > restored
    BY <2>1, StorageAssumption DEF IDs
  <2>3. ASSUME NEW call, running(call)
        PROVE  up /\ pc \in 1..7 /\ program[pc].call = call
    <3>1. up /\ pc <= Len(program) /\ program[pc].call = call
      BY <2>3 DEF running
    <3>2. Len(program) = 7
      BY <1>3, CompleteProgram
    <3>. QED
      BY <2>1, <3>1, <3>2
  <2>4. /\ program[1].call = "mkdir"
        /\ program[2].call = "write" /\ program[2].name = "_METADATA"
        /\ program[3].call = "rename" /\ program[3].name = "_METADATA"
        /\ program[4].call = "sync"
        /\ program[5].call = "write" /\ program[5].name = "_COMPLETE"
        /\ program[6].call = "rename" /\ program[6].name = "_COMPLETE"
        /\ program[7].call = "sync"
    BY <1>3, CompleteProgram
  <2>5. /\ running("mkdir") => pc = 1
        /\ running("write") => pc \in {2, 5}
        /\ running("rename") => pc \in {3, 6}
        /\ running("sync") => pc \in {4, 7}
    BY <2>3, <2>4
  <2>. QED
    BY <1>3, <2>1, <2>2, <2>3, <2>4, <2>5
<1>. QED
  BY <1>1, <1>2, <1>3 DEF TypeOK

(* The names a directory has are told apart. *)
LEMMA NamesDiffer ==
  /\ "_METADATA" \in Names /\ "_COMPLETE" \in Names /\ AllSubtasks \subseteq Names
  /\ \A s \in AllSubtasks : s # "_METADATA" /\ s # "_COMPLETE"
  /\ "_METADATA" # "_COMPLETE"
BY StorageAssumption DEF Names

-----------------------------------------------------------------------------
(* Nothing is there at the start. *)
LEMMA InitIInv == Init => IInv
<1>. SUFFICES ASSUME Init PROVE IInv
  OBVIOUS
<1>1. op = idle /\ op.do # "state" /\ op.do # "complete"
  BY DEF Init, idle
<1>2. entry \in [IDs -> [Names -> File \cup {None}]] /\ onDisk \in [IDs -> [Names -> File \cup {None}]]
  BY DEF Init, EmptyDir
<1>3. TypeOK
  <2>1. /\ run \in 0..MaxRuns /\ restored \in 0..MaxID
        /\ acked \in [IDs -> SUBSET AllSubtasks]
    BY StorageAssumption DEF Init
  <2>2. ordered \in BOOLEAN /\ up \in BOOLEAN /\ job \in Jobs \cup {{}}
    BY DEF Init
  <2>. QED
    BY <1>1, <1>2, <2>1, <2>2 DEF Init, TypeOK
<1>4. Markers
  BY NamesDiffer DEF Init, Markers, hasMarker, EmptyDir
<1>. QED
  BY <1>1, <1>3, <1>4 DEF Init, IInv, Acks, Writing, Completing, MadeFirst, Durable

(* An acknowledgement begins a write where there is no marker. *)
LEMMA AcknowledgeKeeps ==
  ASSUME IInv, NEW k \in IDs, NEW s \in AllSubtasks, Acknowledge(k, s)
  PROVE  IInv'
<1>1. /\ op' = [do |-> "state", id |-> k, key |-> s] /\ pc' = 1 /\ up /\ k > restored
      /\ s \in job /\ s \notin acked[k]
      /\ UNCHANGED <<dirs, rootOnDisk, entry, onDisk, ordered, run, job, up, restored, temp, acked,
                     abandoned, announced>>
  BY DEF Acknowledge, files, process
<1>2. TypeOK'
  BY <1>1, StorageAssumption DEF IInv, TypeOK, IDs
<1>3. op'.do = "state" /\ op'.id = k /\ op'.key = s /\ op' # idle
  BY <1>1 DEF idle
<1>4. Markers' /\ Acks' /\ Durable'
  BY <1>1 DEF IInv, Markers, Acks, Durable, hasMarker, Settled
<1>5. Writing' /\ Completing' /\ MadeFirst'
  BY <1>1, <1>3 DEF Writing, Completing, MadeFirst
<1>. QED
  BY <1>2, <1>4, <1>5 DEF IInv

(* A directory is made before anything goes into it. *)
LEMMA MkdirAllKeeps ==
  ASSUME IInv, MkdirAll
  PROVE  IInv'
<1>. USE DEF files, process
<1>1. /\ dirs' = dirs \cup {op.id} /\ pc' = pc + 1
      /\ UNCHANGED <<rootOnDisk, entry, onDisk, ordered, run, job, up, restored, op, temp, acked,
                     abandoned, announced>>
  BY DEF MkdirAll
<1>2. /\ pc = 1 /\ op # idle /\ op.id \in IDs /\ up
      /\ op.do = "state" => op.key \in job
      /\ op.do = "complete" => op.key = None
  BY Calls DEF MkdirAll, IInv
<1>3. TypeOK'
  BY <1>1, <1>2 DEF IInv, TypeOK
<1>4. Markers' /\ Acks' /\ Durable'
  BY <1>1 DEF IInv, Markers, Acks, Durable, hasMarker, Settled
<1>5. Writing' /\ MadeFirst'
  BY <1>1, <1>2 DEF IInv, Writing, MadeFirst
<1>6. Completing'
  BY <1>1, <1>2 DEF IInv, Completing, hasMarker
<1>. QED
  BY <1>3, <1>4, <1>5, <1>6 DEF IInv

(* The temporary file is the run's own. *)
LEMMA WriteTempKeeps ==
  ASSUME IInv, WriteTemp
  PROVE  IInv'
<1>. USE DEF files, process
<1>1. /\ temp' = own(IF program[pc].name = "_METADATA" THEN job ELSE {}) /\ pc' = pc + 1
      /\ UNCHANGED <<dirs, rootOnDisk, entry, onDisk, ordered, run, job, up, restored, op, acked,
                     abandoned, announced>>
  BY DEF WriteTemp, own
<1>2. /\ \/ op.do = "state" /\ pc = 2 /\ program[pc].name = op.key
         \/ op.do = "complete" /\ pc = 2 /\ program[pc].name = "_METADATA"
         \/ op.do = "complete" /\ pc = 5 /\ program[pc].name = "_COMPLETE"
      /\ op # idle /\ op.id \in IDs /\ up
      /\ op.do = "state" => op.key \in job
      /\ op.do = "complete" => op.key = None
  BY Calls DEF WriteTemp, IInv
<1>3. job \in SUBSET AllSubtasks /\ run \in 1..MaxRuns
  BY <1>2, StorageAssumption DEF IInv, TypeOK, Acks
<1>4. temp' \in File
  BY <1>1, <1>3 DEF own, File
<1>5. TypeOK'
  BY <1>1, <1>2, <1>4 DEF IInv, TypeOK
<1>6. Markers' /\ Acks' /\ Durable'
  BY <1>1 DEF IInv, Markers, Acks, Durable, hasMarker, Settled
<1>7. /\ op.do = "state" => pc' = 3 /\ temp' = own({})
      /\ op.do = "complete" /\ pc = 2 => temp' = own(job)
      /\ op.do = "complete" /\ pc = 5 => temp' = own({})
  BY <1>1, <1>2, <1>3, NamesDiffer
<1>8. own(job)' = own(job) /\ own({})' = own({})
  BY <1>1 DEF own
<1>9. Writing' /\ MadeFirst'
  BY <1>1, <1>2, <1>7, <1>8 DEF IInv, Writing, MadeFirst
<1>10. ASSUME op.do = "complete", pc = 2 PROVE Completing'
  BY <1>1, <1>7, <1>8, <1>10 DEF IInv, Completing, hasMarker
<1>11. ASSUME op.do = "complete", pc = 5 PROVE Completing'
  BY <1>1, <1>7, <1>8, <1>11 DEF IInv, Completing, hasMarker
<1>12. ASSUME op.do = "state" PROVE Completing'
  BY <1>1, <1>12 DEF Completing
<1>. QED
  BY <1>2, <1>5, <1>6, <1>9, <1>10, <1>11, <1>12 DEF IInv

(* A rename puts the run's own file where there is no marker yet. *)
LEMMA RenameKeeps ==
  ASSUME IInv, Rename
  PROVE  IInv'
<1>. USE DEF files, process
<1>. DEFINE n == program[pc].name
            d == op.id
<1>1. /\ entry' = [entry EXCEPT ![d][n] = temp] /\ temp' = None /\ pc' = pc + 1
      /\ UNCHANGED <<dirs, rootOnDisk, onDisk, ordered, run, job, up, restored, op, acked,
                     abandoned, announced>>
  BY DEF Rename
<1>2. /\ \/ op.do = "state" /\ pc = 3 /\ n = op.key
         \/ op.do = "complete" /\ pc = 3 /\ n = "_METADATA"
         \/ op.do = "complete" /\ pc = 6 /\ n = "_COMPLETE"
      /\ op # idle /\ d \in IDs /\ d > restored /\ up
      /\ op.do = "state" => op.key \in job
      /\ op.do = "complete" => op.key = None
  BY Calls DEF Rename, IInv
<1>3. job \in SUBSET AllSubtasks /\ run \in 1..MaxRuns
  BY <1>2, StorageAssumption DEF IInv, TypeOK, Acks
<1>4. \A l \in SUBSET AllSubtasks : own(l) \in File /\ own(l) # None
  <2>1. \A l \in SUBSET AllSubtasks : own(l) \in File
    BY <1>3 DEF own, File
  <2>. QED
    BY <2>1, NoneAssumption
<1>5. /\ n = "_METADATA" => temp = own(job)
      /\ n # "_METADATA" => temp = own({})
      /\ temp \in File /\ temp # None /\ n \in Names
  BY <1>2, <1>3, <1>4, NamesDiffer DEF IInv, Writing, Completing
<1>6. \A l : own(l)' = own(l)
  BY <1>1 DEF own
<1>7. /\ entry \in [IDs -> Dir]
      /\ entry' \in [IDs -> Dir]
      /\ \A k \in IDs, m \in Names :
           entry'[k][m] = IF k = d /\ m = n THEN temp ELSE entry[k][m]
  BY <1>1, <1>2, <1>5 DEF IInv, TypeOK, Dir
<1>8. ~hasMarker(d) /\ d \in dirs /\ onDisk[d]["_COMPLETE"] = None
  <2>1. ASSUME op.do = "state" PROVE ~hasMarker(d)
    BY <1>2, <2>1 DEF IInv, Writing, Acks, TypeOK, IDs
  <2>2. ASSUME op.do = "complete" PROVE ~hasMarker(d)
    BY <1>2, <2>2 DEF IInv, Completing
  <2>. QED
    BY <1>2, <2>1, <2>2 DEF IInv, Markers, MadeFirst
<1>. HIDE DEF n, d
<1>9. TypeOK'
  BY <1>1, <1>2, <1>7 DEF IInv, TypeOK, Dir
<1>10. \A k \in IDs : \A s \in acked[k] : s \in AllSubtasks
  BY DEF IInv, TypeOK
<1>11. Acks'
  <2>1. ASSUME NEW k \in IDs, NEW s \in acked[k]
        PROVE  k > restored /\ entry'[k][s] # None /\ entry'[k][s].by = run /\ entry'[k][s].synced
    <3>1. CASE k = d /\ s = n
      BY <1>2, <1>3, <1>5, <1>7, <1>10, <3>1, NamesDiffer DEF own, d
    <3>2. CASE ~(k = d /\ s = n)
      BY <1>7, <1>10, <3>2, NamesDiffer DEF IInv, Acks
    <3>. QED
      BY <3>1, <3>2
  <2>2. ASSUME NEW k \in IDs, entry'[k]["_COMPLETE"] # None
        PROVE  k <= restored \/ job \subseteq acked[k]
    <3>1. CASE k = d /\ n = "_COMPLETE"
      BY <1>2, <1>3, <3>1, NamesDiffer DEF IInv, Completing, d
    <3>2. CASE ~(k = d /\ n = "_COMPLETE")
      BY <1>2, <1>7, <2>2, <3>2, NamesDiffer DEF IInv, Acks, hasMarker
    <3>. QED
      BY <3>1, <3>2
  <2>. QED
    BY <1>1, <1>2, <2>1, <2>2 DEF IInv, Acks, hasMarker
<1>12. Markers'
  <2>. SUFFICES ASSUME NEW k \in IDs
                PROVE  /\ (\E m \in Names : entry'[k][m] # None) => k \in dirs
                       /\ onDisk[k]["_COMPLETE"] # None => entry'[k]["_COMPLETE"] # None
                       /\ entry'[k]["_COMPLETE"] # None => Vouched(entry'[k]) /\ Settled(k)'
    BY <1>1 DEF Markers, hasMarker
  <2>1. CASE k # d
    <3>1. entry'[k] = entry[k]
      BY <1>7, <2>1 DEF Dir
    <3>. QED
      BY <1>1, <3>1 DEF IInv, Markers, Settled, hasMarker
  <2>2. CASE k = d /\ n # "_COMPLETE"
    BY <1>7, <1>8, <2>2, NamesDiffer DEF hasMarker
  <2>3. CASE k = d /\ n = "_COMPLETE"
    <3>1. /\ entry[d]["_METADATA"] = own(job) /\ onDisk[d]["_METADATA"] = own(job)
          /\ \A s \in job : onDisk[d][s] = entry[d][s]
          /\ job \subseteq acked[d]
      BY <1>2, <1>3, <2>3, NamesDiffer DEF IInv, Completing, d
    <3>2. entry'[d]["_METADATA"] = own(job) /\ \A s \in job : entry'[d][s] = entry[d][s]
      BY <1>2, <1>3, <1>7, <2>3, <3>1, NamesDiffer
    <3>3. \A s \in job : entry[d][s] # None /\ entry[d][s].synced /\ entry[d][s].by = run
      BY <1>2, <3>1 DEF IInv, Acks
    <3>4. own(job).lists = job /\ own(job).synced /\ own(job).by = run /\ own(job) # None
      BY <1>3, <1>4 DEF own
    <3>5. Vouched(entry'[d])
      BY <3>2, <3>3, <3>4 DEF Vouched
    <3>6. Settled(k)'
      BY <1>1, <2>3, <3>1, <3>2, <3>4 DEF Settled
    <3>. QED
      BY <1>8, <2>3, <3>5, <3>6
  <2>. QED
    BY <2>1, <2>2, <2>3
<1>13. Writing' /\ MadeFirst' /\ Durable'
  <2>1. op.do = "state" => entry'[d][op.key] = own({})
    BY <1>2, <1>3, <1>5, <1>7, NamesDiffer
  <2>. QED
    BY <1>1, <1>2, <1>6, <2>1 DEF IInv, Writing, MadeFirst, Durable, d
<1>14. Completing'
  <2>1. CASE op.do = "state"
    BY <1>1, <2>1 DEF Completing
  <2>2. CASE op.do = "complete" /\ pc = 3
    <3>1. n = "_METADATA"
      BY <1>2, <2>2
    <3>2. entry'[d]["_METADATA"] = own(job) /\ entry'[d]["_COMPLETE"] = None
      BY <1>2, <1>5, <1>7, <1>8, <3>1, NamesDiffer DEF hasMarker
    <3>. QED
      BY <1>1, <1>6, <2>2, <3>2 DEF IInv, Completing, hasMarker, d
  <2>3. CASE op.do = "complete" /\ pc = 6
    <3>1. n = "_COMPLETE"
      BY <1>2, <2>3
    <3>2. /\ entry'[d]["_METADATA"] = entry[d]["_METADATA"] /\ entry'[d]["_COMPLETE"] # None
          /\ \A s \in job : entry'[d][s] = entry[d][s]
      BY <1>2, <1>3, <1>5, <1>7, <3>1, NamesDiffer
    <3>. QED
      BY <1>1, <1>6, <2>3, <3>2 DEF IInv, Completing, hasMarker, d
  <2>. QED
    BY <1>2, <2>1, <2>2, <2>3
<1>. QED
  BY <1>9, <1>11, <1>12, <1>13, <1>14 DEF IInv

(* Whatever of a directory reaches the disk, when only what is on the disk *)
(* changes.                                                                *)
LEMMA DiskKeeps ==
  ASSUME IInv, TypeOK', pc' = pc \/ (pc' = pc + 1 /\ running("sync")),
         NEW d \in IDs, NEW S \in SUBSET Names,
         \A k \in IDs, n \in Names :
           onDisk'[k][n] = IF k = d /\ n \in S THEN entry[k][n] ELSE onDisk[k][n],
         rootOnDisk \subseteq rootOnDisk',
         running("sync") /\ pc' = pc + 1 => /\ d = op.id /\ S = Names
                                            /\ ordered => op.id \in rootOnDisk',
         UNCHANGED <<dirs, entry, ordered, process, op, temp, acked, abandoned, announced>>
  PROVE  IInv'
<1>. USE DEF process
<1>0. TypeOK
  BY DEF IInv
<1>1. Markers'
  <2>. SUFFICES ASSUME NEW k \in IDs
                PROVE  /\ (\E m \in Names : entry[k][m] # None) => k \in dirs
                       /\ onDisk'[k]["_COMPLETE"] # None => hasMarker(k)
                       /\ hasMarker(k) => Vouched(entry[k]) /\ Settled(k)'
    BY DEF Markers, hasMarker
  <2>1. onDisk'[k]["_COMPLETE"] # None => hasMarker(k)
    BY NamesDiffer DEF IInv, Markers, hasMarker
  <2>2. ASSUME hasMarker(k) PROVE Settled(k)'
    <3>1. Settled(k) /\ Vouched(entry[k])
      BY <2>2 DEF IInv, Markers
    <3>2. entry[k]["_METADATA"] \in File
      BY <1>0, <3>1, NamesDiffer DEF TypeOK, Vouched
    <3>3. entry[k]["_METADATA"].lists \subseteq Names
      BY <3>2, NamesDiffer DEF File
    <3>4. \A n \in Names : onDisk[k][n] = entry[k][n] => onDisk'[k][n] = entry[k][n]
      OBVIOUS
    <3>. QED
      BY <3>1, <3>3, <3>4, NamesDiffer DEF Settled
  <2>. QED
    BY <2>1, <2>2 DEF IInv, Markers
<1>2. Acks' /\ Writing' /\ MadeFirst'
  <2>1. Acks'
    BY DEF IInv, Acks, hasMarker
  <2>2. MadeFirst'
    BY Calls, <1>0 DEF IInv, MadeFirst
  <2>3. Writing'
    BY Calls, <1>0 DEF IInv, Writing, own
  <2>. QED
    BY <2>1, <2>2, <2>3
<1>3. Durable'
  BY <1>0, NamesDiffer DEF IInv, Durable, Markers, hasMarker, TypeOK
<1>4. Completing'
  <2>. SUFFICES ASSUME op.do = "complete" PROVE Completing'
    BY DEF Completing
  <2>1. op.id \in IDs /\ job \subseteq Names /\ pc \in 1..8
    BY <1>0, StorageAssumption, NamesDiffer DEF TypeOK, idle, IDs
  <2>2. \A l : own(l)' = own(l)
    BY DEF own
  <2>3. \A n \in Names : onDisk[op.id][n] = entry[op.id][n] => onDisk'[op.id][n] = entry[op.id][n]
    BY <2>1
  <2>4. onDisk[op.id]["_COMPLETE"] # None => onDisk'[op.id]["_COMPLETE"] # None
    BY <2>1, NamesDiffer DEF IInv, Markers, hasMarker
  <2>5. CASE pc' = pc
    BY <2>1, <2>2, <2>3, <2>4, <2>5, NamesDiffer DEF IInv, Completing, hasMarker
  <2>6. CASE pc' = pc + 1 /\ running("sync")
    <3>1. pc \in {4, 7}
      BY <1>0, <2>6, Calls
    <3>2. \A n \in Names : onDisk'[op.id][n] = entry[op.id][n]
      BY <2>1, <2>6
    <3>3. ordered => op.id \in rootOnDisk'
      BY <2>6
    <3>4. CASE pc = 4
      BY <2>1, <2>2, <2>6, <3>2, <3>3, <3>4, NamesDiffer DEF IInv, Completing, hasMarker
    <3>5. CASE pc = 7
      BY <2>1, <2>2, <2>6, <3>2, <3>3, <3>5, NamesDiffer DEF IInv, Completing, hasMarker
    <3>. QED
      BY <3>1, <3>4, <3>5
  <2>. QED
    BY <2>5, <2>6
<1>. QED
  BY <1>1, <1>2, <1>3, <1>4 DEF IInv

(* The directory's fsync. *)
LEMMA SyncDirKeeps ==
  ASSUME IInv, SyncDir
  PROVE  IInv'
<1>0. TypeOK
  BY DEF IInv
<1>1. /\ op.id \in IDs /\ op # idle /\ op.do = "complete" /\ pc \in {4, 7} /\ up
      /\ op.id > restored /\ op.key = None
  BY <1>0, Calls DEF SyncDir
<1>2. op.id \in dirs
  BY <1>1 DEF IInv, MadeFirst
<1>3. \A k \in IDs, n \in Names :
        onDisk'[k][n] = IF k = op.id /\ n \in Names THEN entry[k][n] ELSE onDisk[k][n]
  BY <1>0, <1>1 DEF SyncDir, TypeOK
<1>4. /\ rootOnDisk \subseteq rootOnDisk' /\ rootOnDisk' \subseteq dirs
      /\ ordered => op.id \in rootOnDisk'
  BY <1>0, <1>2 DEF SyncDir, TypeOK
<1>5. onDisk' \in [IDs -> [Names -> File \cup {None}]]
  BY <1>0, <1>1 DEF SyncDir, TypeOK
<1>6. TypeOK'
  BY <1>0, <1>1, <1>4, <1>5 DEF SyncDir, TypeOK, process
<1>7. /\ pc' = pc + 1 /\ running("sync")
      /\ UNCHANGED <<dirs, entry, ordered, process, op, temp, acked, abandoned, announced>>
  BY DEF SyncDir
<1>. QED
  BY <1>1, <1>3, <1>4, <1>6, <1>7, DiskKeeps

(* One name is written back. *)
LEMMA WriteBackKeeps ==
  ASSUME IInv, NEW d \in IDs, NEW m \in Names, WriteBack(d, m)
  PROVE  IInv'
<1>. DEFINE T == {m}
<1>0. TypeOK
  BY DEF IInv
<1>1. \A k \in IDs, n \in Names :
        onDisk'[k][n] = IF k = d /\ n \in T THEN entry[k][n] ELSE onDisk[k][n]
  BY <1>0 DEF WriteBack, TypeOK
<1>2. onDisk' \in [IDs -> [Names -> File \cup {None}]]
  BY <1>0 DEF WriteBack, TypeOK
<1>3. TypeOK'
  BY <1>0, <1>2 DEF WriteBack, TypeOK, process
<1>4. pc' = pc /\ rootOnDisk' = rootOnDisk
      /\ UNCHANGED <<dirs, entry, ordered, process, op, temp, acked, abandoned, announced>>
  BY DEF WriteBack
<1>5. T \in SUBSET Names /\ ~(running("sync") /\ pc' = pc + 1)
  BY <1>0, <1>4, Calls
<1>6. /\ pc' = pc \/ (pc' = pc + 1 /\ running("sync"))
      /\ rootOnDisk \subseteq rootOnDisk'
      /\ running("sync") /\ pc' = pc + 1 => /\ d = op.id /\ T = Names
                                            /\ ordered => op.id \in rootOnDisk'
  BY <1>4, <1>5
<1>. HIDE DEF T
<1>. QED
  BY <1>1, <1>3, <1>4, <1>5, <1>6, DiskKeeps

(* One directory's name is written back. *)
LEMMA WriteBackRootKeeps ==
  ASSUME IInv, NEW d \in IDs, WriteBackRoot(d)
  PROVE  IInv'
<1>. USE DEF process
<1>0. TypeOK
  BY DEF IInv
<1>1. /\ rootOnDisk' = rootOnDisk \cup {d} /\ d \in dirs
      /\ UNCHANGED <<dirs, entry, onDisk, ordered, run, job, up, restored, op, pc, temp, acked,
                     abandoned, announced>>
  BY DEF WriteBackRoot
<1>2. TypeOK'
  BY <1>0, <1>1 DEF TypeOK
<1>3. Markers' /\ Acks' /\ Writing' /\ MadeFirst' /\ Durable'
  BY <1>1 DEF IInv, Markers, Acks, Writing, MadeFirst, Durable, hasMarker, Settled, own
<1>4. Completing'
  BY <1>1 DEF IInv, Completing, hasMarker, own
<1>. QED
  BY <1>2, <1>3, <1>4 DEF IInv

(* A call fails: nothing is undone, and nothing is in flight. *)
LEMMA CallFailsKeeps ==
  ASSUME IInv, CallFails
  PROVE  IInv'
<1>. USE DEF files, process
<1>0. TypeOK
  BY DEF IInv
<1>1. /\ op' = idle /\ temp' = None /\ up /\ op # idle /\ abandoned' = abandoned \cup {op.id}
      /\ UNCHANGED <<dirs, rootOnDisk, entry, onDisk, ordered, run, job, up, restored, acked,
                     announced>>
  BY DEF CallFails
<1>2. op.id \in IDs
  BY <1>0, <1>1, StorageAssumption DEF TypeOK, IDs
<1>3. op'.do # "state" /\ op'.do # "complete"
  BY <1>1 DEF idle
<1>4. TypeOK'
  BY <1>0, <1>1, <1>2 DEF TypeOK, idle
<1>5. Markers' /\ Acks' /\ Durable'
  BY <1>1 DEF IInv, Markers, Acks, Durable, hasMarker, Settled
<1>. QED
  BY <1>1, <1>3, <1>4, <1>5 DEF IInv, Writing, Completing, MadeFirst, idle

(* A state file is in place; the last one starts Complete. *)
LEMMA StateInPlaceKeeps ==
  ASSUME IInv, StateInPlace
  PROVE  IInv'
<1>. USE DEF files, process
<1>0. TypeOK
  BY DEF IInv
<1>. DEFINE d == op.id
<1>1. /\ up /\ op.do = "state" /\ pc > Len(program)
      /\ acked' = [acked EXCEPT ![d] = @ \cup {op.key}] /\ pc' = 1
      /\ op' = IF job \subseteq acked'[d]
               THEN [do |-> "complete", id |-> d, key |-> None] ELSE idle
      /\ UNCHANGED <<dirs, rootOnDisk, entry, onDisk, ordered, run, job, up, restored, temp,
                     abandoned, announced>>
  BY DEF StateInPlace
<1>2. /\ d \in IDs /\ d \in restored + 1 .. MaxID /\ op.key \in job /\ op.key \in AllSubtasks
      /\ job \subseteq AllSubtasks /\ op # idle /\ restored \in Nat
  BY <1>0, <1>1, StorageAssumption DEF TypeOK, IDs, idle
<1>3. pc = 4
  <2>1. pc \in 1..4
    BY <1>0, <1>1 DEF TypeOK, idle
  <2>2. Len(program) = 3
    BY <1>1, StateProgram
  <2>. QED
    BY <1>1, <2>1, <2>2
<1>4. ~hasMarker(d)
  BY <1>1, <1>2 DEF IInv, Acks, Writing
<1>5. \A k \in IDs : acked'[k] = IF k = d THEN acked[k] \cup {op.key} ELSE acked[k]
  BY <1>0, <1>1 DEF TypeOK
<1>6. acked' \in [IDs -> SUBSET AllSubtasks]
  BY <1>0, <1>1, <1>2 DEF TypeOK
<1>7. entry[d][op.key] = own({}) /\ own({}).by = run /\ own({}).synced /\ own({}) # None
  <2>1. entry[d][op.key] = own({})
    BY <1>1, <1>3 DEF IInv, Writing
  <2>2. own({}) \in File /\ own({}).by = run /\ own({}).synced
    BY <1>0, <1>1 DEF own, File, TypeOK, IInv, Acks
  <2>. QED
    BY <2>1, <2>2, NoneAssumption
<1>. HIDE DEF d
<1>8. Acks'
  <2>1. ASSUME NEW k \in IDs, NEW s \in acked'[k]
        PROVE  k > restored /\ entry[k][s] # None /\ entry[k][s].by = run /\ entry[k][s].synced
    <3>1. CASE k = d /\ s = op.key
      BY <1>2, <1>7, <3>1
    <3>2. CASE s \in acked[k]
      BY <3>2 DEF IInv, Acks
    <3>. QED
      BY <1>5, <3>1, <3>2
  <2>2. \A k \in IDs : acked[k] \subseteq acked'[k]
    BY <1>5
  <2>. QED
    BY <1>1, <2>1, <2>2 DEF IInv, Acks, hasMarker
<1>9. Markers' /\ Durable'
  BY <1>1 DEF IInv, Markers, Durable, hasMarker, Settled
<1>10. CASE job \subseteq acked'[d]
  <2>1. op' = [do |-> "complete", id |-> d, key |-> None]
    BY <1>1, <1>10 DEF d
  <2>2. /\ op'.do = "complete" /\ op'.id = d /\ op'.key = None /\ op' # idle /\ op'.do # "state"
    BY <2>1 DEF idle
  <2>3. TypeOK'
    BY <1>0, <1>1, <1>2, <1>6, <2>2 DEF TypeOK
  <2>4. Completing'
    BY <1>1, <1>4, <1>10, <2>2 DEF Completing, hasMarker
  <2>. QED
    BY <1>1, <1>8, <1>9, <2>2, <2>3, <2>4 DEF IInv, Writing, MadeFirst
<1>11. CASE ~(job \subseteq acked'[d])
  <2>1. op' = idle
    BY <1>1, <1>11 DEF d
  <2>2. op'.do # "complete" /\ op'.do # "state"
    BY <2>1 DEF idle
  <2>3. TypeOK'
    BY <1>0, <1>1, <1>6, <2>1 DEF TypeOK
  <2>. QED
    BY <1>8, <1>9, <2>1, <2>2, <2>3 DEF IInv, Writing, Completing, MadeFirst, idle
<1>. QED
  BY <1>10, <1>11

(* Complete has returned: its marker, and on an ordered file system its    *)
(* directory's name, are on the disk.                                      *)
LEMMA AnnounceKeeps ==
  ASSUME IInv, Announce
  PROVE  IInv'
<1>. USE DEF files, process
<1>0. TypeOK
  BY DEF IInv
<1>1. /\ up /\ op.do = "complete" /\ pc > Len(program)
      /\ announced' = announced \cup {op.id} /\ op' = idle
      /\ UNCHANGED <<dirs, rootOnDisk, entry, onDisk, ordered, run, job, up, restored, temp,
                     acked, abandoned>>
  BY DEF Announce
<1>2. pc = 8 /\ op.id \in IDs
  <2>1. pc \in 1..8 /\ op.id \in IDs
    BY <1>0, <1>1, StorageAssumption DEF TypeOK, idle, IDs
  <2>2. Len(program) = 7
    BY <1>1, CompleteProgram
  <2>. QED
    BY <1>1, <2>1, <2>2
<1>3. onDisk[op.id]["_COMPLETE"] # None /\ (ordered => op.id \in rootOnDisk)
  BY <1>1, <1>2 DEF IInv, Completing
<1>4. Durable'
  BY <1>1, <1>3 DEF IInv, Durable
<1>5. op'.do # "complete" /\ op'.do # "state"
  BY <1>1 DEF idle
<1>6. TypeOK'
  BY <1>0, <1>1, <1>2 DEF TypeOK
<1>7. Markers' /\ Acks'
  BY <1>1 DEF IInv, Markers, Acks, hasMarker, Settled
<1>. QED
  BY <1>1, <1>4, <1>5, <1>6, <1>7 DEF IInv, Writing, Completing, MadeFirst

(* No process runs, and the files are as they were. *)
LEMMA KillKeeps ==
  ASSUME IInv, Kill
  PROVE  IInv'
<1>. USE DEF files
<1>0. TypeOK
  BY DEF IInv
<1>1. /\ up' = FALSE /\ op' = idle /\ temp' = None /\ job' = {} /\ restored' = 0
      /\ acked' = [k \in IDs |-> {}] /\ abandoned' = {}
      /\ UNCHANGED <<dirs, rootOnDisk, entry, onDisk, ordered, run, announced>>
  BY DEF Kill, stopped
<1>2. TypeOK'
  <2>1. 0 \in 0..MaxID /\ [k \in IDs |-> {}] \in [IDs -> SUBSET AllSubtasks]
    BY StorageAssumption
  <2>. QED
    BY <1>0, <1>1, <2>1 DEF TypeOK
<1>3. op'.do # "complete" /\ op'.do # "state"
  BY <1>1 DEF idle
<1>4. Markers' /\ Acks' /\ Durable'
  BY <1>1 DEF IInv, Markers, Acks, Durable, hasMarker, Settled
<1>. QED
  BY <1>1, <1>2, <1>3, <1>4 DEF IInv, Writing, Completing, MadeFirst

(* No process runs, and the cache is what was on the disk. *)
LEMMA LoseCacheKeeps ==
  ASSUME IInv, loseCache, up' = FALSE, op' = idle, temp' \in File \cup {None},
         job' \in Jobs \cup {{}}, restored' \in 0..MaxID, acked' = [k \in IDs |-> {}],
         abandoned' \subseteq IDs, UNCHANGED <<ordered, run, announced>>
  PROVE  IInv'
<1>0. TypeOK
  BY DEF IInv
<1>1. \A k \in IDs : surviving(k) \in [Names -> File \cup {None}]
  BY <1>0 DEF surviving, EmptyDir, TypeOK
<1>2. /\ dirs' = rootOnDisk /\ rootOnDisk' = rootOnDisk /\ rootOnDisk \subseteq IDs
      /\ \A k \in IDs : entry'[k] = surviving(k) /\ onDisk'[k] = surviving(k)
      /\ entry' \in [IDs -> [Names -> File \cup {None}]]
      /\ onDisk' \in [IDs -> [Names -> File \cup {None}]]
  BY <1>0, <1>1 DEF loseCache, TypeOK
<1>3. TypeOK'
  BY <1>0, <1>2 DEF TypeOK
<1>4. Markers'
  <2>. SUFFICES ASSUME NEW k \in IDs
                PROVE  /\ (\E m \in Names : entry'[k][m] # None) => k \in dirs'
                       /\ onDisk'[k]["_COMPLETE"] # None => entry'[k]["_COMPLETE"] # None
                       /\ entry'[k]["_COMPLETE"] # None => Vouched(entry'[k]) /\ Settled(k)'
    BY DEF Markers, hasMarker
  <2>1. Settled(k)'
    BY <1>2 DEF Settled
  <2>2. CASE k \notin rootOnDisk
    BY <1>2, <2>2, NamesDiffer DEF surviving, EmptyDir
  <2>3. CASE k \in rootOnDisk
    <3>1. entry'[k] = onDisk[k] /\ onDisk'[k] = onDisk[k]
      BY <1>2, <2>3 DEF surviving
    <3>2. ASSUME onDisk[k]["_COMPLETE"] # None PROVE Vouched(onDisk[k])
      BY <3>2 DEF IInv, Markers, Settled, Vouched
    <3>. QED
      BY <1>2, <2>1, <2>3, <3>1, <3>2
  <2>. QED
    BY <2>2, <2>3
<1>5. Durable'
  BY <1>0, <1>2 DEF IInv, Durable, surviving, TypeOK
<1>6. op'.do # "complete" /\ op'.do # "state"
  BY DEF idle
<1>. QED
  BY <1>3, <1>4, <1>5, <1>6 DEF IInv, Acks, Writing, Completing, MadeFirst

(* A run starts above every marker there is. *)
LEMMA BeginKeeps ==
  ASSUME IInv, NEW from \in 0..MaxID, NEW shape \in Jobs, begin(from, shape),
         \A k \in marked : k <= from
  PROVE  IInv'
<1>. USE DEF files
<1>0. TypeOK
  BY DEF IInv
<1>1. /\ ~up /\ run < MaxRuns /\ run' = run + 1 /\ job' = shape /\ up' = TRUE /\ restored' = from
      /\ UNCHANGED <<dirs, rootOnDisk, entry, onDisk, ordered, op, pc, temp, acked, abandoned,
                     announced>>
  BY DEF begin
<1>2. op = idle /\ acked = [k \in IDs |-> {}]
  BY <1>1 DEF IInv, Acks
<1>3. TypeOK'
  BY <1>0, <1>1, <1>2, StorageAssumption DEF TypeOK
<1>4. op'.do # "complete" /\ op'.do # "state" /\ op' = idle
  BY <1>1, <1>2 DEF idle
<1>5. \A k \in IDs : hasMarker(k) => k <= from
  BY NamesDiffer DEF IInv, Markers, hasMarker, marked
<1>6. Acks'
  BY <1>0, <1>1, <1>2, <1>5 DEF Acks, hasMarker, TypeOK
<1>7. Markers' /\ Durable'
  BY <1>1 DEF IInv, Markers, Durable, hasMarker, Settled
<1>. QED
  BY <1>3, <1>4, <1>6, <1>7 DEF IInv, Writing, Completing, MadeFirst

-----------------------------------------------------------------------------
(* Every step keeps the invariant. *)
LEMMA NextIInv == IInv /\ [Next]_vars => IInv'
<1>. SUFFICES ASSUME IInv, [Next]_vars PROVE IInv'
  OBVIOUS
<1>1. ASSUME NEW k \in IDs, NEW s \in AllSubtasks, Acknowledge(k, s) PROVE IInv'
  BY <1>1, AcknowledgeKeeps
<1>2. ASSUME NEW k \in IDs, NEW n \in Names, WriteBack(k, n) PROVE IInv'
  BY <1>2, WriteBackKeeps
<1>3. ASSUME NEW k \in IDs, WriteBackRoot(k) PROVE IInv'
  BY <1>3, WriteBackRootKeeps
<1>4. CASE PowerLoss
  <2>1. /\ loseCache /\ up' = FALSE /\ op' = idle /\ temp' = None /\ job' = {} /\ restored' = 0
        /\ acked' = [k \in IDs |-> {}] /\ abandoned' = {}
        /\ UNCHANGED <<ordered, run, announced>>
    BY <1>4 DEF PowerLoss, stopped
  <2>2. 0 \in 0..MaxID
    BY StorageAssumption
  <2>. QED
    BY <2>1, <2>2, LoseCacheKeeps
<1>5. CASE PowerLossWhileDown
  <2>1. /\ loseCache /\ ~up
        /\ UNCHANGED <<ordered, run, job, up, restored, op, temp, acked, abandoned, announced>>
    BY <1>5 DEF PowerLossWhileDown, process
  <2>2. /\ up = FALSE /\ op = idle /\ acked = [k \in IDs |-> {}] /\ temp \in File \cup {None}
        /\ job \in Jobs \cup {{}} /\ restored \in 0..MaxID /\ abandoned \subseteq IDs
    BY <2>1 DEF IInv, TypeOK, Acks
  <2>. QED
    BY <2>1, <2>2, LoseCacheKeeps
<1>6. ASSUME NEW shape \in Jobs, StartFresh(shape) PROVE IInv'
  <2>1. 0 \in 0..MaxID /\ begin(0, shape) /\ \A k \in marked : k <= 0
    BY <1>6, StorageAssumption DEF StartFresh
  <2>. QED
    BY <2>1, BeginKeeps
<1>7. ASSUME NEW shape \in Jobs, NEW k \in IDs, Resume(k, shape) PROVE IInv'
  <2>1. k \in 0..MaxID /\ begin(k, shape) /\ \A j \in marked : j <= k
    BY <1>7, StorageAssumption DEF Resume, Latest, IDs
  <2>. QED
    BY <2>1, BeginKeeps
<1>8. CASE UNCHANGED vars
  <2>1. UNCHANGED <<dirs, rootOnDisk, entry, onDisk, ordered, run, job, up, restored, op, pc, temp,
                    acked, abandoned, announced>>
    BY <1>8 DEF vars, files, process
  <2>2. TypeOK' /\ Markers' /\ Acks' /\ Durable'
    BY <2>1 DEF IInv, TypeOK, Markers, Acks, Durable, hasMarker, Settled
  <2>3. Writing' /\ Completing' /\ MadeFirst'
    BY <2>1 DEF IInv, Writing, Completing, MadeFirst, own, hasMarker
  <2>. QED
    BY <2>2, <2>3 DEF IInv
<1>. QED
  BY <1>1, <1>2, <1>3, <1>4, <1>5, <1>6, <1>7, <1>8, MkdirAllKeeps, WriteTempKeeps, RenameKeeps,
     SyncDirKeeps, CallFailsKeeps, StateInPlaceKeeps, AnnounceKeeps, KillKeeps DEF Next

(* The invariant holds throughout. *)
LEMMA Invariance == Spec => []IInv
BY InitIInv, NextIInv, PTL DEF Spec

(* Every variable keeps its type, and no run writes at or below the        *)
(* checkpoint it resumed from.                                             *)
THEOREM TypeCorrect == Spec => []TypeOK
<1>1. IInv => TypeOK
  BY DEF IInv
<1>. QED
  BY Invariance, <1>1, PTL

(* A directory with a marker, in the cache or on the disk, holds all its   *)
(* marker vouches for, whenever a kill or a power loss comes.  StartFresh  *)
(* is a contract with the caller of Run: no complete checkpoint is on the  *)
(* root of a run that does not restore.                                    *)
THEOREM MarkersVouch == Spec => []MarkerVouches
<1>1. IInv => MarkerVouches
  <2>. SUFFICES ASSUME IInv, NEW k \in IDs
                PROVE  /\ entry[k]["_COMPLETE"] # None => Vouched(entry[k])
                       /\ onDisk[k]["_COMPLETE"] # None => Vouched(onDisk[k])
    BY DEF MarkerVouches
  <2>1. ASSUME onDisk[k]["_COMPLETE"] # None PROVE Vouched(onDisk[k])
    BY <2>1 DEF IInv, Markers, Settled, Vouched
  <2>. QED
    BY <2>1 DEF IInv, Markers, hasMarker
<1>. QED
  BY Invariance, <1>1, PTL

(* With a directory's own entry written by its fsync, what Complete has    *)
(* returned nil for outlives every kill and every power loss.              *)
THEOREM AnnouncedSurvive == Spec => []AnnouncedSurvivesIfOrdered
<1>1. IInv => AnnouncedSurvivesIfOrdered
  BY DEF IInv, Durable, Markers, hasMarker, AnnouncedSurvivesIfOrdered, AnnouncedSurvives, TypeOK
<1>. QED
  BY Invariance, <1>1, PTL

(* A directory that has its marker is never written into again, if callers *)
(* keep to StartFresh: a run that does not restore is given a root without *)
(* complete checkpoints.                                                   *)
THEOREM CompleteStaysFinal == Spec => CompleteIsFinal
<1>. DEFINE Final == \A k \in IDs : entry[k]["_COMPLETE"] # None =>
                       entry'[k] = entry[k] \/ entry'[k] = surviving(k)
<1>1. ASSUME IInv, [Next]_vars PROVE [Final]_vars
  <2>1. CASE Rename
    <3>1. entry' = [entry EXCEPT ![op.id][program[pc].name] = temp] /\ running("rename")
      BY <2>1 DEF Rename
    <3>2. op.id \in IDs /\ op.id > restored /\ up
      BY <1>1, <3>1, Calls DEF IInv
    <3>3. ~hasMarker(op.id)
      <4>1. ASSUME op.do = "state" PROVE op.key \in job /\ op.key \notin acked[op.id]
        BY <1>1, <3>1, <4>1, Calls DEF IInv, Writing
      <4>2. ASSUME op.do = "complete" PROVE pc \in 1..6
        BY <1>1, <3>1, <4>2, Calls DEF IInv
      <4>3. op.do = "state" \/ op.do = "complete"
        BY <1>1, <3>1, Calls DEF IInv
      <4>4. restored \in Nat /\ op.id \in Nat
        BY <1>1, <3>2 DEF IInv, TypeOK, IDs
      <4>. QED
        BY <1>1, <3>2, <4>1, <4>2, <4>3, <4>4 DEF IInv, Acks, Completing
    <3>. QED
      BY <1>1, <3>1, <3>2, <3>3 DEF IInv, TypeOK, hasMarker
  <2>2. CASE loseCache
    BY <2>2 DEF loseCache
  <2>3. CASE entry' = entry
    BY <2>3
  <2>4. Rename \/ loseCache \/ entry' = entry
    BY <1>1 DEF Next, vars, files, Acknowledge, MkdirAll, WriteTemp, SyncDir, CallFails,
       StateInPlace, Announce, WriteBack, WriteBackRoot, Kill, PowerLoss, PowerLossWhileDown,
       StartFresh, Resume, begin
  <2>. QED
    BY <2>1, <2>2, <2>3, <2>4
<1>. QED
  BY Invariance, <1>1, PTL DEF Spec, CompleteIsFinal
=============================================================================
