------------------------------ MODULE JobProofs ------------------------------
(***************************************************************************)
(* Proofs about Job, for any topology, any number of subtasks, records and *)
(* checkpoints, and any number of failures: its types, that nothing is     *)
(* committed that no complete checkpoint covers, that a sink's epochs and  *)
(* the checkpoints it is notified of do not drift apart, that complete     *)
(* checkpoints are consistent cuts, that every record is output exactly    *)
(* once, and that the job implements Output.                               *)
(*                                                                         *)
(* What ties the first three together is the number of a barrier.  The     *)
(* sink counts its epochs, the sources count their barriers, and all that  *)
(* carries one count to the other are the channels between them; Levels    *)
(* says that no barrier is lost, doubled or overtaken on the way.          *)
(*                                                                         *)
(* The rest follows from where a record can be.  For every checkpoint in   *)
(* the making, the levels divide the job in what is before the cut and     *)
(* what is behind it, and a record that its source emitted before the cut  *)
(* is in one place before it: in the state of an operator, in a channel    *)
(* ahead of the barrier, or in a file of a sink.  A checkpoint that        *)
(* completes is that cut with nothing left on the way; a restart takes it  *)
(* for the state of the next run; and the end of a run is the cut after    *)
(* the last checkpoint.                                                    *)
(***************************************************************************)
EXTENDS Job, DataLemmas, FiniteSetTheorems

(* What a channel carries. *)
Messages == {Rec(r) : r \in Records} \cup {Bar(k) : k \in IDs} \cup {EOS}

Channels == [Edges -> Seq(Messages)]

(* What a subtask hands over to be written. *)
Snapshots == Nat \cup (SUBSET Records) \cup {NoFile}

Files == [Records -> Nat] \cup {NoFile}

-----------------------------------------------------------------------------
(* The inductive invariant, part by part.                                  *)

Types ==
  /\ status \in [IDs -> {"unknown", "open", "complete", "abandoned"}]
  /\ acked \in [IDs -> SUBSET Subtasks]
  /\ done \in [Subtasks -> Snapshots]
  /\ files \in [IDs -> [Subtasks -> Snapshots]]
  /\ marker \in [IDs -> BOOLEAN]
  /\ waiter \in [Sinks -> {"no", "checking", "asleep", "woken", "returned"}]

RunTypes ==
  /\ mode \in {"running", "final", "down", "done"}
  /\ failed \in BOOLEAN /\ succeeded \in BOOLEAN
  /\ restoredID \in IDs \cup {0}
  /\ failures \in 0..MaxFailures /\ lost \in 0..MaxLostNotifications

FlowTypes ==
  /\ position \in [Sources -> Nat] /\ \A s \in Sources : position[s] <= Count[s]
  /\ injected \in [Sources -> IDs \cup {0}]
  /\ sinceLast \in [Sources -> Nat] /\ \A s \in Sources : sinceLast[s] <= Interval[s]
  /\ chan \in Channels
  /\ ended \in [Subtasks -> SUBSET Subtasks] /\ \A s \in Subtasks : ended[s] \subseteq Up[s]
  /\ returned \subseteq Subtasks
  /\ held \in [Operators -> SUBSET Records]

SinkTypes ==
  /\ pc \in [Sinks -> {"restore", "run", "ask", "notify", "await", "last", "returned"}]
  /\ pending \in [Sinks -> SUBSET IDs]
  /\ todo \in [Sinks -> SUBSET IDs] /\ \A s \in Sinks : todo[s] \subseteq pending[s]
  /\ epoch \in [Sinks -> Epochs]
  /\ firstEpoch \in [Sinks -> Epochs]
  /\ opened \in [Sinks -> BOOLEAN]
  /\ written \in [Sinks -> SUBSET Epochs]
  /\ staging \in [Sinks -> [Epochs -> Files]]
  /\ committed \in [Sinks -> [Epochs -> Files]]

(* The file of subtask s in checkpoint k is one it can be restored from; a *)
(* sink's is the number of the checkpoint.                                 *)
Restorable(k, s, file) ==
  /\ s \in Sources => file \in 0..Count[s]
  /\ s \in Operators => file \in SUBSET Records
  /\ s \in Sinks => file = k

(* Who is counted has written its file. *)
AckedWrote == \A k \in IDs : \A s \in acked[k] : Restorable(k, s, files[k][s])

(* Only sources tell that they have finished. *)
DoneAreSources == \A s \in Subtasks : done[s] # NoFile => s \in Sources /\ done[s] \in 0..Count[s]

(* A marker is of a checkpoint that is over, in this run or before it, and *)
(* stands for files to restore from.                                       *)
MarkedRestores ==
  \A k \in IDs : marker[k] =>
    /\ k <= restoredID \/ terminal(k)
    /\ \A s \in Subtasks : Restorable(k, s, files[k][s])

(* A run knows only checkpoints after the one it resumed from. *)
KnownAreNew == \A k \in IDs : status[k] # "unknown" => k > restoredID

CompleteAreMarked == \A k \in IDs : status[k] = "complete" => marker[k]

Coordinated ==
  /\ Types /\ AckedWrote /\ DoneAreSources /\ MarkedRestores /\ KnownAreNew /\ CompleteAreMarked

(* The barriers in channel c are those of checkpoints lo + 1 to hi, each   *)
(* once and in this order.                                                 *)
Between(c, lo, hi) ==
  /\ lo <= hi
  /\ \A n \in 1..Len(c) : c[n].kind = "barrier" => lo < c[n].val /\ c[n].val <= hi
  /\ \A n \in 1..Len(c) : \A m \in 1..n-1 :
       c[m].kind = "barrier" /\ c[n].kind = "barrier" => c[m].val < c[n].val
  /\ \A v \in lo+1..hi : \E n \in 1..Len(c) : c[n].kind = "barrier" /\ c[n].val = v

(* The channels c of inputs that have not ended, by the level of the        *)
(* subtasks at their ends.                                                 *)
Leveled(c, over, level) ==
  \A e \in Edges : e[1] \notin over[e[2]] => Between(c[e], level[e[2]], level[e[1]])

(* level[s] is the last barrier subtask s has sent or taken. *)
LeveledBy(level) ==
  /\ \A s \in Subtasks : restoredID <= level[s]
  /\ \A s \in Sources : injected[s] = level[s]
  /\ \A s \in Sinks : /\ pc[s] = "restore" => level[s] = restoredID
                      /\ pc[s] \notin {"restore", "returned"} => epoch[s] = level[s] + 1
  /\ Leveled(chan, ended, level)

Levels == \E level \in [Subtasks -> IDs \cup {0}] : LeveledBy(level)

(* What a sink commits in the course of a run has been marked. *)
TodoAreMarked == \A s \in Sinks : \A k \in todo[s] : marker[k]

RestoredIsMarked == restoredID # 0 => marker[restoredID]

FinalIsSuccess == mode = "final" => succeeded

(* A file a sink has written is on disk, under one name or the other; the  *)
(* one that is open has not been renamed.                                  *)
WrittenExist ==
  \A s \in Sinks :
    /\ pc[s] = "restore" => written[s] = {} /\ pending[s] = {}
    /\ s \in returned \/ mode = "final" => pc[s] = "returned"
    /\ pc[s] \in {"restore", "returned"} => ~opened[s]
    /\ opened[s] => staged(s, epoch[s])
    /\ \A e \in written[s] : staged(s, e) \/ committed[s][e] # NoFile
    /\ \A k \in pending[s] : k < epoch[s]

IInv ==
  /\ RunTypes /\ FlowTypes /\ SinkTypes
  /\ Coordinated
  /\ Levels
  /\ TodoAreMarked /\ RestoredIsMarked /\ FinalIsSuccess
  /\ WrittenExist
  /\ CommittedIsCovered
-----------------------------------------------------------------------------
(* The constants. *)

LEMMA Numbers ==
  /\ IDs \subseteq Nat /\ \A k \in IDs : k >= 1 /\ k \in Nat
  /\ Cardinality(IDs) \in Nat /\ \A k : k \in IDs <=> k \in 1..Cardinality(IDs)
  /\ Epochs = 1..Cardinality(IDs)+1
  /\ \A k \in IDs : k \in Epochs /\ k + 1 \in Epochs
  /\ 1 \in Epochs
BY JobAssumption DEF Epochs

(* There is a number after one that is not the last. *)
LEMMA NextNumber ==
  ASSUME NEW n \in IDs \cup {0}, NEW m \in IDs \cup {0}, n < m
  PROVE  n + 1 \in IDs
<1>1. n \in Nat /\ m \in 1..Cardinality(IDs) /\ Cardinality(IDs) \in Nat
  BY Numbers
<1>2. n + 1 \in 1..Cardinality(IDs)
  BY <1>1
<1>. QED
  BY <1>2, Numbers

-----------------------------------------------------------------------------
(* The coordinator, whoever calls it. *)

(* Markers stay, and the files behind them. *)
Grows == \A k \in IDs : marker[k] => marker'[k] /\ files'[k] = files[k]

LEMMA AnnouncedType ==
  ASSUME Types
  PROVE  announced \in [Sinks -> {"no", "checking", "asleep", "woken", "returned"}]
BY DEF Types, announced

LEMMA FilledRestores ==
  ASSUME DoneAreSources, NEW k \in IDs, NEW row \in [Subtasks -> Snapshots], NEW who,
         NEW over \in [Subtasks -> Snapshots],
         \A s \in Subtasks : over[s] # NoFile => s \in Sources /\ over[s] \in 0..Count[s],
         \A s \in Subtasks \cap who : Restorable(k, s, row[s])
  PROVE  /\ filled(row, who, over) \in [Subtasks -> Snapshots]
         /\ outstanding(who, over) = {} =>
              \A s \in Subtasks : Restorable(k, s, filled(row, who, over)[s])
<1>1. filled(row, who, over) \in [Subtasks -> Snapshots]
  BY DEF filled
<1>2. ASSUME outstanding(who, over) = {}, NEW s \in Subtasks
      PROVE  Restorable(k, s, filled(row, who, over)[s])
  <2>1. CASE s \in who
    BY <2>1 DEF filled
  <2>2. CASE s \notin who
    <3>1. over[s] # NoFile
      BY <1>2, <2>2 DEF outstanding
    <3>2. s \in Sources /\ over[s] \in 0..Count[s] /\ s \notin Operators /\ s \notin Sinks
      BY <3>1, ShapeAssumption DEF Operators
    <3>3. filled(row, who, over)[s] = over[s]
      BY <2>2 DEF filled
    <3>. QED
      BY <3>2, <3>3 DEF Restorable
  <2>. QED
    BY <2>1, <2>2
<1>. QED
  BY <1>1, <1>2

LEMMA PartlyFilledType ==
  ASSUME NEW row \in [Subtasks -> Snapshots], NEW who, NEW over \in [Subtasks -> Snapshots],
         NEW left \in partlyFilled(row, who, over)
  PROVE  left \in [Subtasks -> Snapshots]
<1>1. filled(row, who, over) \in [Subtasks -> Snapshots]
  BY DEF filled
<1>2. PICK w \in SUBSET (Subtasks \ who) :
        left = [s \in Subtasks |-> IF s \in who \/ s \in w THEN filled(row, who, over)[s] ELSE row[s]]
  BY DEF partlyFilled
<1>. QED
  BY <1>1, <1>2

(* A subtask acknowledges a checkpoint of this run, or fails to. *)
LEMMA AckKeeps ==
  ASSUME Coordinated, restoredID \in Nat, restoredID' = restoredID,
         NEW k \in IDs, k > restoredID, NEW s \in Subtasks,
         NEW payload \in Snapshots, Restorable(k, s, payload),
         Acknowledged(k, s, payload) \/ AcknowledgeFails(k, s, payload) \/ Fail(k, s)
  PROVE  Coordinated' /\ Grows
<1>. DEFINE who == acked[k] \cup {s}
            row == [files[k] EXCEPT ![s] = payload]
            full == filled(row, who, done)
<1>1. Types /\ AckedWrote /\ DoneAreSources /\ MarkedRestores /\ KnownAreNew /\ CompleteAreMarked
  BY DEF Coordinated
<1>2. /\ row \in [Subtasks -> Snapshots] /\ row[s] = payload
      /\ \A x \in Subtasks : x # s => row[x] = files[k][x]
  BY <1>1 DEF Types
<1>3. \A x \in Subtasks \cap who : Restorable(k, x, row[x])
  BY <1>1, <1>2 DEF AckedWrote
<1>4. /\ full \in [Subtasks -> Snapshots]
      /\ outstanding(who, done) = {} => \A x \in Subtasks : Restorable(k, x, full[x])
  BY <1>1, <1>2, <1>3, FilledRestores DEF Types, DoneAreSources
<1>5. ~terminal(k) => ~marker[k]
  BY <1>1, Numbers DEF MarkedRestores
<1>6. Restorable(k, s, row[s])
  BY <1>2
<1>. HIDE DEF row, full
<1>7. CASE AckIgnored(k, s)
  BY <1>1, <1>7 DEF AckIgnored, coordinator, memory, disk, Coordinated, Types, AckedWrote, DoneAreSources,
     MarkedRestores, KnownAreNew, CompleteAreMarked, terminal, Grows
<1>8. CASE AckRecorded(k, s, payload)
  <2>1. /\ status' = [status EXCEPT ![k] = "open"] /\ acked' = [acked EXCEPT ![k] = @ \cup {s}]
        /\ files' = [files EXCEPT ![k] = row] /\ ~terminal(k)
        /\ done' = done /\ marker' = marker /\ waiter' = waiter
    BY <1>8, <1>1 DEF AckRecorded, mayAcknowledge, row, Types
  <2>2. Types'
    BY <1>1, <1>2, <2>1 DEF Types
  <2>3. AckedWrote'
    BY <1>1, <1>3, <2>1 DEF AckedWrote, Types
  <2>4. MarkedRestores' /\ Grows
    BY <1>1, <1>5, <2>1 DEF MarkedRestores, terminal, Types, Grows
  <2>5. KnownAreNew' /\ CompleteAreMarked' /\ DoneAreSources'
    BY <1>1, <2>1 DEF KnownAreNew, CompleteAreMarked, DoneAreSources, Types
  <2>. QED
    BY <2>2, <2>3, <2>4, <2>5 DEF Coordinated
<1>9. CASE AckCompletes(k, s, payload)
  <2>1. /\ status' = [status EXCEPT ![k] = "complete"] /\ acked' = [acked EXCEPT ![k] = {}]
        /\ files' = [files EXCEPT ![k] = full] /\ ~terminal(k) /\ outstanding(who, done) = {}
        /\ done' = done /\ marker' = [marker EXCEPT ![k] = TRUE] /\ waiter' = announced
    BY <1>9, <1>1 DEF AckCompletes, mayAcknowledge, row, full, Types
  <2>2. Types'
    BY <1>1, <1>4, <2>1, AnnouncedType DEF Types
  <2>3. AckedWrote'
    BY <1>1, <2>1 DEF AckedWrote, Types
  <2>4. MarkedRestores' /\ Grows
    BY <1>1, <1>4, <1>5, <2>1 DEF MarkedRestores, terminal, Types, Grows
  <2>5. KnownAreNew' /\ CompleteAreMarked' /\ DoneAreSources'
    BY <1>1, <2>1 DEF KnownAreNew, CompleteAreMarked, DoneAreSources, Types
  <2>. QED
    BY <2>2, <2>3, <2>4, <2>5 DEF Coordinated
<1>10. CASE AckWriteFails(k, s)
  <2>1. /\ status' = [status EXCEPT ![k] = "abandoned"] /\ acked' = [acked EXCEPT ![k] = {}]
        /\ files' = files /\ ~terminal(k)
        /\ done' = done /\ marker' = marker /\ waiter' = announced
    BY <1>10 DEF AckWriteFails, mayAcknowledge
  <2>2. Types'
    BY <1>1, <2>1, AnnouncedType DEF Types
  <2>3. AckedWrote'
    BY <1>1, <2>1 DEF AckedWrote, Types
  <2>4. MarkedRestores' /\ Grows
    BY <1>1, <1>5, <2>1 DEF MarkedRestores, terminal, Types, Grows
  <2>5. KnownAreNew' /\ CompleteAreMarked' /\ DoneAreSources'
    BY <1>1, <2>1 DEF KnownAreNew, CompleteAreMarked, DoneAreSources, Types
  <2>. QED
    BY <2>2, <2>3, <2>4, <2>5 DEF Coordinated
<1>11. CASE AckCompleteFails(k, s, payload)
  <2>1. PICK left \in partlyFilled(row, who, done), marked \in SUBSET {k} :
          /\ status' = [status EXCEPT ![k] = "abandoned"] /\ acked' = [acked EXCEPT ![k] = {}]
          /\ files' = [files EXCEPT ![k] = left] /\ ~terminal(k) /\ outstanding(who, done) = {}
          /\ k \in marked => left = full
          /\ marker' = [marker EXCEPT ![k] = @ \/ k \in marked]
          /\ done' = done /\ waiter' = announced
    BY <1>11 DEF AckCompleteFails, mayAcknowledge, row, full
  <2>2. left \in [Subtasks -> Snapshots]
    BY <1>1, <1>2, PartlyFilledType DEF Types
  <2>3. Types'
    <3>1. marker' \in [IDs -> BOOLEAN]
      BY <1>1, <2>1 DEF Types
    <3>. QED
      BY <1>1, <2>1, <2>2, <3>1, AnnouncedType DEF Types
  <2>4. AckedWrote'
    BY <1>1, <2>1 DEF AckedWrote, Types
  <2>5. marker'[k] <=> k \in marked
    BY <1>1, <1>5, <2>1 DEF Types
  <2>6. \A j \in IDs : j # k => marker'[j] = marker[j]
    BY <1>1, <2>1 DEF Types
  <2>7. MarkedRestores' /\ Grows
    <3>1. Grows
      BY <1>1, <1>5, <2>1, <2>6 DEF Grows, Types, terminal
    <3>2. /\ status'[k] = "abandoned" /\ \A j \in IDs : j # k => status'[j] = status[j]
          /\ files'[k] = left /\ \A j \in IDs : j # k => files'[j] = files[j]
      BY <1>1, <2>1 DEF Types
    <3>3. marker'[k] => \A x \in Subtasks : Restorable(k, x, files'[k][x])
      BY <1>4, <2>1, <2>5, <3>2
    <3>. QED
      BY <1>1, <2>6, <3>1, <3>2, <3>3 DEF MarkedRestores, terminal
  <2>8. KnownAreNew' /\ CompleteAreMarked' /\ DoneAreSources'
    BY <1>1, <2>1, <2>5, <2>6 DEF KnownAreNew, CompleteAreMarked, DoneAreSources, Types
  <2>. QED
    BY <2>3, <2>4, <2>7, <2>8 DEF Coordinated
<1>12. CASE Fail(k, s)
  <2>. DEFINE st == IF status[k] = "complete" THEN "complete" ELSE "abandoned"
  <2>1. /\ status' = [status EXCEPT ![k] = st] /\ acked' = [acked EXCEPT ![k] = {}]
        /\ files' = files /\ st \in {"complete", "abandoned"}
        /\ done' = done /\ marker' = marker /\ waiter' \in {waiter, announced}
    BY <1>12, <1>1 DEF Fail, disk, Types
  <2>2. Types'
    BY <1>1, <2>1, AnnouncedType DEF Types
  <2>3. AckedWrote'
    BY <1>1, <2>1 DEF AckedWrote, Types
  <2>4. MarkedRestores' /\ Grows
    BY <1>1, <2>1 DEF MarkedRestores, terminal, Types, Grows
  <2>5. KnownAreNew' /\ CompleteAreMarked' /\ DoneAreSources'
    BY <1>1, <2>1 DEF KnownAreNew, CompleteAreMarked, DoneAreSources, Types
  <2>. QED
    BY <2>2, <2>3, <2>4, <2>5 DEF Coordinated
<1>. QED
  BY <1>7, <1>8, <1>9, <1>10, <1>11, <1>12 DEF Acknowledged, AcknowledgeFails

(* A source finishes, and some of the completions this brings may fail. *)
LEMMA FinishedKeeps ==
  ASSUME Coordinated, restoredID \in Nat, restoredID' = restoredID,
         NEW s \in Sources, NEW payload \in 0..Count[s],
         FinishedOK(s, payload) \/ FinishedFails(s, payload)
  PROVE  Coordinated' /\ Grows
<1>. DEFINE over == [done EXCEPT ![s] = payload]
            full(k) == filled(files[k], acked[k], over)
<1>1. Types /\ AckedWrote /\ DoneAreSources /\ MarkedRestores /\ KnownAreNew /\ CompleteAreMarked
  BY DEF Coordinated
<1>2. /\ over \in [Subtasks -> Snapshots]
      /\ \A x \in Subtasks : over[x] # NoFile => x \in Sources /\ over[x] \in 0..Count[x]
  <2>1. payload \in Snapshots /\ s \in Subtasks
    BY ShapeAssumption, JobAssumption DEF Snapshots
  <2>. QED
    BY <1>1, <2>1 DEF Types, DoneAreSources
<1>3. ASSUME NEW k \in IDs
      PROVE  /\ full(k) \in [Subtasks -> Snapshots]
             /\ k \in ready(over) => \A x \in Subtasks : Restorable(k, x, full(k)[x])
  <2>1. files[k] \in [Subtasks -> Snapshots] /\ \A x \in Subtasks \cap acked[k] : Restorable(k, x, files[k][x])
    BY <1>1 DEF Types, AckedWrote
  <2>. QED
    BY <1>1, <1>2, <2>1, FilledRestores DEF ready
<1>4. \A k \in ready(over) : k \in IDs /\ k > restoredID /\ ~terminal(k) /\ ~marker[k]
  BY <1>1, Numbers DEF ready, KnownAreNew, MarkedRestores, terminal
<1>. HIDE DEF over
<1>. HIDE DEF full
<1>5. CASE FinishedOK(s, payload)
  <2>1. /\ done' = over
        /\ status' = [k \in IDs |-> IF k \in ready(over) THEN "complete" ELSE status[k]]
        /\ acked' = [k \in IDs |-> IF k \in ready(over) THEN {} ELSE acked[k]]
        /\ files' = [k \in IDs |-> IF k \in ready(over) THEN full(k) ELSE files[k]]
        /\ marker' = [k \in IDs |-> k \in ready(over) \/ marker[k]]
        /\ waiter' \in {waiter, announced}
    BY <1>5 DEF FinishedOK, over, full
  <2>2. Types'
    BY <1>1, <1>2, <1>3, <2>1, AnnouncedType DEF Types
  <2>3. AckedWrote'
    BY <1>1, <2>1 DEF AckedWrote
  <2>4. MarkedRestores' /\ Grows
    BY <1>1, <1>3, <1>4, <2>1 DEF MarkedRestores, terminal, Types, Grows
  <2>5. KnownAreNew' /\ CompleteAreMarked'
    BY <1>1, <1>4, <2>1 DEF KnownAreNew, CompleteAreMarked
  <2>6. DoneAreSources'
    BY <1>2, <2>1 DEF DoneAreSources
  <2>. QED
    BY <2>2, <2>3, <2>4, <2>5, <2>6 DEF Coordinated
<1>6. CASE FinishedFails(s, payload)
  <2>. PICK bad \in ready(over) :
         /\ done' = over
         /\ \E before \in SUBSET (ready(over) \ {bad}), marked \in SUBSET {bad} :
            \E left \in partlyFilled(files[bad], acked[bad], over) :
              /\ bad \in marked => left = full(bad)
              /\ StopsAt(bad, before, left, marked, over)
    BY <1>6 DEF FinishedFails, over, full
  <2>1. PICK before \in SUBSET (ready(over) \ {bad}), marked \in SUBSET {bad},
             left \in partlyFilled(files[bad], acked[bad], over) :
          /\ done' = over
          /\ bad \in marked => left = full(bad)
          /\ StopsAt(bad, before, left, marked, over)
    OBVIOUS
  <2>2. /\ status' = [k \in IDs |-> IF k \in before THEN "complete"
                                    ELSE IF k = bad THEN "abandoned" ELSE status[k]]
        /\ acked' = [k \in IDs |-> IF k \in before \/ k = bad THEN {} ELSE acked[k]]
        /\ files' = [k \in IDs |-> IF k \in before THEN full(k)
                                   ELSE IF k = bad THEN left ELSE files[k]]
        /\ marker' = [k \in IDs |-> k \in before \/ k \in marked \/ marker[k]]
        /\ waiter' = announced
    BY <2>1 DEF StopsAt, full
  <2>3. left \in [Subtasks -> Snapshots] /\ bad \in IDs /\ bad \notin before
    BY <1>1, <1>2, <1>4, <2>1, PartlyFilledType DEF Types
  <2>4. Types'
    BY <1>1, <1>2, <1>3, <2>1, <2>2, <2>3, AnnouncedType DEF Types
  <2>5. AckedWrote'
    BY <1>1, <2>2 DEF AckedWrote
  <2>6. MarkedRestores' /\ Grows
    <3>1. \A k \in IDs : marker'[k] =>
            \/ k \in before
            \/ k = bad /\ files'[k] = full(k) /\ k \notin before
            \/ k \notin before /\ k # bad /\ marker[k] /\ files'[k] = files[k] /\ status'[k] = status[k]
      BY <1>4, <2>1, <2>2, <2>3
    <3>2. MarkedRestores'
      BY <1>1, <1>3, <2>1, <2>2, <3>1 DEF MarkedRestores, terminal
    <3>3. Grows
      BY <1>4, <2>1, <2>2 DEF Grows
    <3>. QED
      BY <3>2, <3>3
  <2>7. KnownAreNew' /\ CompleteAreMarked'
    BY <1>1, <1>4, <2>1, <2>2 DEF KnownAreNew, CompleteAreMarked
  <2>8. DoneAreSources'
    BY <1>2, <2>1 DEF DoneAreSources
  <2>. QED
    BY <2>4, <2>5, <2>6, <2>7, <2>8 DEF Coordinated
<1>. QED
  BY <1>5, <1>6

(* A sink waits. *)
LEMMA AwaitKeeps ==
  ASSUME Coordinated, restoredID' = restoredID, NEW s \in Sinks, NEW ids,
         AwaitBegins(s) \/ AwaitChecks(s, ids) \/ AwaitCancelled(s)
  PROVE  Coordinated' /\ Grows
<1>1. /\ status' = status /\ acked' = acked /\ done' = done /\ files' = files /\ marker' = marker
      /\ \E w \in {"no", "checking", "asleep", "woken", "returned"} : waiter' = [waiter EXCEPT ![s] = w]
  BY DEF AwaitBegins, AwaitChecks, AwaitCancelled, disk
<1>. QED
  BY <1>1 DEF Coordinated, Types, AckedWrote, DoneAreSources, MarkedRestores, KnownAreNew,
     CompleteAreMarked, terminal, Grows

(* Nobody calls. *)
LEMMA CoordinatorRests ==
  ASSUME Coordinated, restoredID' = restoredID, UNCHANGED coordinator
  PROVE  Coordinated' /\ Grows
BY DEF coordinator, memory, disk, Coordinated, Types, AckedWrote, DoneAreSources, MarkedRestores,
   KnownAreNew, CompleteAreMarked, terminal, Grows

-----------------------------------------------------------------------------
(* The channels. *)

LEMMA MessageIs ==
  ASSUME NEW m \in Messages
  PROVE  /\ m.kind \in {"record", "barrier", "eos"}
         /\ m.kind = "record" => m.val \in Records
         /\ m.kind = "barrier" => m.val \in IDs
<1>1. CASE m \in {Rec(r) : r \in Records}
  BY <1>1 DEF Rec
<1>2. CASE m \in {Bar(k) : k \in IDs}
  BY <1>2 DEF Bar
<1>3. CASE m = EOS
  BY <1>3 DEF EOS
<1>. QED
  BY <1>1, <1>2, <1>3 DEF Messages

LEMMA TailIs ==
  ASSUME NEW T, NEW c \in Seq(T), c # << >>
  PROVE  /\ Tail(c) \in Seq(T) /\ Len(c) \in Nat /\ Len(Tail(c)) = Len(c) - 1 /\ Head(c) = c[1] /\ Head(c) \in T
         /\ 1 \in 1..Len(c)
         /\ \A n \in 1..Len(Tail(c)) : n + 1 \in 1..Len(c) /\ Tail(c)[n] = c[n + 1]
         /\ \A n \in 1..Len(c) : n # 1 => n - 1 \in 1..Len(Tail(c)) /\ Tail(c)[n - 1] = c[n]
OBVIOUS

(* A barrier is not taken before the ones it follows. *)
LEMMA BetweenTail ==
  ASSUME NEW c \in Seq(Messages), c # << >>, NEW lo \in Nat, NEW hi \in Nat, Between(c, lo, hi)
  PROVE  /\ Head(c).kind # "barrier" => Between(Tail(c), lo, hi)
         /\ Head(c).kind = "barrier" => Head(c).val = lo + 1 /\ Between(Tail(c), lo + 1, hi)
<1>. DEFINE t == Tail(c)
<1>1. /\ t \in Seq(Messages) /\ Len(c) \in Nat /\ Len(t) = Len(c) - 1 /\ Head(c) = c[1] /\ Head(c) \in Messages
      /\ 1 \in 1..Len(c)
      /\ \A n \in 1..Len(t) : n + 1 \in 1..Len(c) /\ t[n] = c[n + 1]
      /\ \A n \in 1..Len(c) : n # 1 => n - 1 \in 1..Len(t) /\ t[n - 1] = c[n]
  BY TailIs
<1>. HIDE DEF t
<1>2. /\ \A n \in 1..Len(c) : c[n].kind = "barrier" => lo < c[n].val /\ c[n].val <= hi
      /\ \A n \in 1..Len(c) : \A m \in 1..n-1 :
           c[m].kind = "barrier" /\ c[n].kind = "barrier" => c[m].val < c[n].val
      /\ \A v \in lo+1..hi : \E n \in 1..Len(c) : c[n].kind = "barrier" /\ c[n].val = v
      /\ lo <= hi
  BY Zenon DEF Between
<1>3. /\ \A n \in 1..Len(t) : t[n].kind = "barrier" => lo < t[n].val /\ t[n].val <= hi
  BY <1>1, <1>2
<1>4. \A n \in 1..Len(t) : \A m \in 1..n-1 :
        t[m].kind = "barrier" /\ t[n].kind = "barrier" => t[m].val < t[n].val
  <2>1. ASSUME NEW n \in 1..Len(t), NEW m \in 1..n-1, t[m].kind = "barrier", t[n].kind = "barrier"
        PROVE  t[m].val < t[n].val
    <3>1. /\ m \in 1..Len(t) /\ n + 1 \in 1..Len(c) /\ m + 1 \in 1..(n+1)-1
          /\ t[n] = c[n+1] /\ t[m] = c[m+1]
      <4>1. m \in 1..Len(t) /\ m + 1 \in 1..(n+1)-1
        BY <1>1
      <4>. QED
        BY <1>1, <4>1
    <3>. QED
      BY <1>2, <2>1, <3>1
  <2>. QED
    BY <2>1
<1>5. CASE Head(c).kind # "barrier"
  <2>1. ASSUME NEW v \in lo+1..hi PROVE \E n \in 1..Len(t) : t[n].kind = "barrier" /\ t[n].val = v
    <3>1. PICK n \in 1..Len(c) : c[n].kind = "barrier" /\ c[n].val = v
      BY <1>2
    <3>2. n # 1
      BY <1>1, <1>5, <3>1
    <3>. QED
      BY <1>1, <3>1, <3>2
  <2>. QED
    BY <1>2, <1>3, <1>4, <1>5, <2>1, Zenon DEF Between, t
<1>6. CASE Head(c).kind = "barrier"
  <2>1. c[1].kind = "barrier" /\ lo < c[1].val /\ c[1].val <= hi /\ c[1].val \in Nat
    BY <1>1, <1>2, <1>6, MessageIs, Numbers
  <2>2. c[1].val = lo + 1
    <3>1. PICK n \in 1..Len(c) : c[n].kind = "barrier" /\ c[n].val = lo + 1
      <4>1. lo + 1 \in lo+1..hi
        BY <2>1
      <4>. QED
        BY <1>2, <4>1
    <3>2. n = 1 \/ 1 \in 1..n-1
      BY <1>1
    <3>. QED
      BY <1>2, <2>1, <3>1, <3>2
  <2>3. lo + 1 <= hi
    BY <2>1, <2>2
  <2>4. ASSUME NEW n \in 1..Len(t), t[n].kind = "barrier" PROVE lo + 1 < t[n].val
    <3>1. n + 1 \in 1..Len(c) /\ 1 \in 1..(n+1)-1 /\ t[n] = c[n+1]
      BY <1>1
    <3>. QED
      BY <1>2, <2>1, <2>2, <2>4, <3>1
  <2>5. ASSUME NEW v \in (lo+1)+1..hi PROVE \E n \in 1..Len(t) : t[n].kind = "barrier" /\ t[n].val = v
    <3>1. PICK n \in 1..Len(c) : c[n].kind = "barrier" /\ c[n].val = v
      BY <1>2
    <3>2. n # 1
      BY <2>2, <3>1
    <3>. QED
      BY <1>1, <3>1, <3>2
  <2>6. Between(t, lo + 1, hi)
    BY <1>3, <1>4, <2>3, <2>4, <2>5 DEF Between
  <2>. QED
    BY <1>1, <1>6, <2>2, <2>6 DEF t
<1>. QED
  BY <1>5, <1>6

(* What is no barrier may follow. *)
LEMMA BetweenConcat ==
  ASSUME NEW c \in Seq(Messages), NEW q \in Seq(Messages), NEW lo \in Nat, NEW hi \in Nat,
         Between(c, lo, hi), \A n \in 1..Len(q) : q[n].kind # "barrier"
  PROVE  Between(c \o q, lo, hi)
<1>. DEFINE h == c \o q
<1>1. /\ Len(c) \in Nat /\ Len(h) = Len(c) + Len(q) /\ Len(q) \in Nat
      /\ \A n \in 1..Len(c) : n \in 1..Len(h) /\ h[n] = c[n]
      /\ \A n \in 1..Len(h) : n \notin 1..Len(c) => n - Len(c) \in 1..Len(q) /\ h[n] = q[n - Len(c)]
  OBVIOUS
<1>. HIDE DEF h
<1>2. \A n \in 1..Len(h) : h[n].kind = "barrier" => n \in 1..Len(c)
  BY <1>1
<1>3. \A n \in 1..Len(c) : \A m \in 1..n-1 : m \in 1..Len(c)
  BY <1>1
<1>4. \A n \in 1..Len(h) : \A m \in 1..n-1 :
        h[m].kind = "barrier" /\ h[n].kind = "barrier" => h[m].val < h[n].val
  <2>1. ASSUME NEW n \in 1..Len(h), NEW m \in 1..n-1, h[m].kind = "barrier", h[n].kind = "barrier"
        PROVE  h[m].val < h[n].val
    <3>1. n \in 1..Len(c) /\ m \in 1..Len(c)
      BY <1>2, <1>3, <2>1
    <3>. QED
      BY <1>1, <2>1, <3>1 DEF Between
  <2>. QED
    BY <2>1
<1>5. \A n \in 1..Len(h) : h[n].kind = "barrier" => lo < h[n].val /\ h[n].val <= hi
  BY <1>1, <1>2 DEF Between
<1>6. \A v \in lo+1..hi : \E n \in 1..Len(h) : h[n].kind = "barrier" /\ h[n].val = v
  BY <1>1 DEF Between
<1>. QED
  BY <1>4, <1>5, <1>6 DEF Between, h

LEMMA BetweenAppend ==
  ASSUME NEW c \in Seq(Messages), NEW m \in Messages, NEW lo \in Nat, NEW hi \in Nat,
         Between(c, lo, hi)
  PROVE  /\ m.kind # "barrier" => Between(Append(c, m), lo, hi)
         /\ m.kind = "barrier" /\ m.val = hi + 1 => Between(Append(c, m), lo, hi + 1)
<1>. DEFINE h == Append(c, m)
<1>1. /\ Len(c) \in Nat /\ Len(h) = Len(c) + 1 /\ h[Len(c) + 1] = m
      /\ \A n \in 1..Len(c) : n \in 1..Len(h) /\ h[n] = c[n]
      /\ \A n \in 1..Len(h) : n \in 1..Len(c) \/ n = Len(c) + 1
  OBVIOUS
<1>2. CASE m.kind # "barrier"
  <2>1. <<m>> \in Seq(Messages) /\ h = c \o <<m>> /\ \A n \in 1..Len(<<m>>) : <<m>>[n].kind # "barrier"
    BY <1>2
  <2>. QED
    BY <1>2, <2>1, BetweenConcat
<1>. HIDE DEF h
<1>3. CASE m.kind = "barrier" /\ m.val = hi + 1
  <2>1. \A n \in 1..Len(h) : h[n].kind = "barrier" => lo < h[n].val /\ h[n].val <= hi + 1
    <3>1. ASSUME NEW n \in 1..Len(c), c[n].kind = "barrier" PROVE lo < c[n].val /\ c[n].val <= hi + 1
      <4>1. lo < c[n].val /\ c[n].val <= hi
        BY <3>1 DEF Between
      <4>2. c[n].val \in Nat
        BY <3>1, MessageIs, Numbers
      <4>. QED
        BY <4>1, <4>2
    <3>2. lo < hi + 1
      BY DEF Between
    <3>. QED
      BY <1>1, <1>3, <3>1, <3>2
  <2>2. \A n \in 1..Len(h) : \A p \in 1..n-1 :
          h[p].kind = "barrier" /\ h[n].kind = "barrier" => h[p].val < h[n].val
    <3>1. ASSUME NEW n \in 1..Len(h), NEW p \in 1..n-1, h[p].kind = "barrier", h[n].kind = "barrier"
          PROVE  h[p].val < h[n].val
      <4>1. p \in 1..Len(c) /\ h[p] = c[p] /\ c[p].val \in Nat
        <5>1. p \in 1..Len(c) /\ h[p] = c[p]
          BY <1>1
        <5>. QED
          BY <3>1, <5>1, MessageIs, Numbers
      <4>2. CASE n \in 1..Len(c)
        BY <1>1, <3>1, <4>1, <4>2 DEF Between
      <4>3. CASE n = Len(c) + 1
        <5>1. c[p].val <= hi
          BY <3>1, <4>1 DEF Between
        <5>. QED
          BY <1>1, <1>3, <4>1, <4>3, <5>1
      <4>. QED
        BY <1>1, <4>2, <4>3
    <3>. QED
      BY <3>1
  <2>3. \A v \in lo+1..hi+1 : \E n \in 1..Len(h) : h[n].kind = "barrier" /\ h[n].val = v
    <3>1. \A v \in lo+1..hi+1 : v \in lo+1..hi \/ v = hi + 1
      OBVIOUS
    <3>2. Len(c) + 1 \in 1..Len(h)
      BY <1>1
    <3>3. \A v \in lo+1..hi : \E n \in 1..Len(h) : h[n].kind = "barrier" /\ h[n].val = v
      BY <1>1 DEF Between
    <3>. QED
      BY <1>1, <1>3, <3>1, <3>2, <3>3
  <2>4. lo <= hi + 1
    BY DEF Between
  <2>5. Between(h, lo, hi + 1)
    BY <2>1, <2>2, <2>3, <2>4, Zenon DEF Between
  <2>. QED
    BY <1>3, <2>5 DEF h
<1>. QED
  BY <1>2, <1>3

LEMMA EdgeIs ==
  /\ \A e \in Edges : e[1] \in Subtasks /\ e[2] \in Subtasks /\ e[1] \in Up[e[2]] /\ e = <<e[1], e[2]>>
  /\ \A s \in Subtasks : \A u \in Up[s] : <<u, s>> \in Edges
BY JobAssumption DEF Edges

(* A subtask takes something other than a barrier from one input. *)
LEMMA TakeKeeps ==
  ASSUME chan \in Channels, NEW level \in [Subtasks -> Nat], Leveled(chan, ended, level),
         NEW s \in Subtasks, NEW u \in Up[s],
         chan[<<u, s>>] # << >>, Head(chan[<<u, s>>]).kind # "barrier"
  PROVE  taken(s, {u}) \in Channels /\ Leveled(taken(s, {u}), ended, level)
<1>1. ASSUME NEW e \in Edges, e[2] = s, e[1] \in {u}
      PROVE  e = <<u, s>> /\ Tail(chan[e]) \in Seq(Messages)
  <2>1. e = <<u, s>>
    BY <1>1, EdgeIs
  <2>. QED
    BY <2>1, TailIs DEF Channels
<1>2. taken(s, {u}) \in Channels
  BY <1>1 DEF taken, Channels
<1>3. ASSUME NEW e \in Edges, e[1] \notin ended[e[2]]
      PROVE  Between(taken(s, {u})[e], level[e[2]], level[e[1]])
  <2>1. Between(chan[e], level[e[2]], level[e[1]])
    BY <1>3 DEF Leveled
  <2>2. CASE e[2] = s /\ e[1] \in {u}
    <3>1. e = <<u, s>> /\ taken(s, {u})[e] = Tail(chan[e])
      BY <1>1, <2>2 DEF taken
    <3>2. level[e[2]] \in Nat /\ level[e[1]] \in Nat /\ chan[e] \in Seq(Messages)
      BY EdgeIs DEF Channels
    <3>. QED
      BY <2>1, <3>1, <3>2, BetweenTail
  <2>3. CASE ~(e[2] = s /\ e[1] \in {u})
    BY <2>1, <2>3 DEF taken
  <2>. QED
    BY <2>2, <2>3
<1>. QED
  BY <1>2, <1>3 DEF Leveled

LEMMA EmitKeeps ==
  ASSUME NEW c \in Channels, NEW over, NEW level \in [Subtasks -> Nat], Leveled(c, over, level),
         NEW u, NEW r \in Records
  PROVE  EmitRecord(c, u, r) \in Channels /\ Leveled(EmitRecord(c, u, r), over, level)
<1>1. Rec(r) \in Messages /\ Rec(r).kind # "barrier"
  BY DEF Messages, Rec
<1>2. EmitRecord(c, u, r) \in Channels
  BY <1>1 DEF EmitRecord, Channels
<1>3. ASSUME NEW e \in Edges, e[1] \notin over[e[2]]
      PROVE  Between(EmitRecord(c, u, r)[e], level[e[2]], level[e[1]])
  <2>1. /\ Between(c[e], level[e[2]], level[e[1]])
        /\ level[e[2]] \in Nat /\ level[e[1]] \in Nat /\ c[e] \in Seq(Messages)
    BY <1>3, EdgeIs DEF Leveled, Channels
  <2>2. Between(Append(c[e], Rec(r)), level[e[2]], level[e[1]])
    BY <1>1, <2>1, BetweenAppend
  <2>. QED
    BY <2>1, <2>2 DEF EmitRecord
<1>. QED
  BY <1>2, <1>3 DEF Leveled

(* The end of a stream, after what was held back. *)
LEMMA EndKeeps ==
  ASSUME NEW c \in Channels, NEW over, NEW level \in [Subtasks -> Nat], Leveled(c, over, level), NEW u
  PROVE  Broadcast(c, u, EOS) \in Channels /\ Leveled(Broadcast(c, u, EOS), over, level)
<1>1. EOS \in Messages /\ EOS.kind # "barrier"
  BY DEF Messages, EOS
<1>2. Broadcast(c, u, EOS) \in Channels
  BY <1>1 DEF Broadcast, Channels
<1>3. ASSUME NEW e \in Edges, e[1] \notin over[e[2]]
      PROVE  Between(Broadcast(c, u, EOS)[e], level[e[2]], level[e[1]])
  <2>1. /\ Between(c[e], level[e[2]], level[e[1]])
        /\ level[e[2]] \in Nat /\ level[e[1]] \in Nat /\ c[e] \in Seq(Messages)
    BY <1>3, EdgeIs DEF Leveled, Channels
  <2>2. Between(Append(c[e], EOS), level[e[2]], level[e[1]])
    BY <1>1, <2>1, BetweenAppend
  <2>. QED
    BY <2>1, <2>2 DEF Broadcast
<1>. QED
  BY <1>2, <1>3 DEF Leveled

(* SetToSeq enumerates a finite set. *)
LEMMA SetToSeqIs ==
  ASSUME NEW S, IsFiniteSet(S)
  PROVE  SetToSeq(S) \in [1..Cardinality(S) -> S] /\ Cardinality(S) \in Nat
<1>1. Cardinality(S) \in Nat /\ ExistsBijection(1..Cardinality(S), S)
  BY FS_CardinalityType
<1>2. PICK f : f \in Bijection(1..Cardinality(S), S)
  BY <1>1 DEF ExistsBijection
<1>3. f \in [1..Cardinality(S) -> S] /\ IsInjective(f)
  BY <1>2 DEF Bijection, Injection, Surjection, IsInjective
<1>. QED
  BY <1>1, <1>3 DEF SetToSeq

LEMMA FlushKeeps ==
  ASSUME chan \in Channels, NEW level \in [Subtasks -> Nat], Leveled(chan, ended, level),
         held \in [Operators -> SUBSET Records], NEW o \in Operators,
         NEW c, c = [e \in Edges |-> IF e[1] = o THEN chan[e] \o flushed(o, e[2]) ELSE chan[e]]
  PROVE  c \in Channels /\ Leveled(c, ended, level)
<1>1. ASSUME NEW s
      PROVE  flushed(o, s) \in Seq(Messages) /\ \A n \in 1..Len(flushed(o, s)) : flushed(o, s)[n].kind # "barrier"
  <2>. DEFINE S == {r \in held[o] : s \in Dest(o, r)}
              rs == SetToSeq(S)
  <2>1. S \subseteq Records /\ IsFiniteSet(S)
    BY FS_Subset, JobAssumption
  <2>2. rs \in [1..Cardinality(S) -> S] /\ Cardinality(S) \in Nat
    BY <2>1, SetToSeqIs
  <2>3. Len(rs) \in Nat /\ \A n \in 1..Len(rs) : rs[n] \in Records
    <3>. HIDE DEF rs, S
    <3>. QED
      BY <2>1, <2>2
  <2>4. flushed(o, s) = [n \in 1..Len(rs) |-> Rec(rs[n])]
    BY DEF flushed
  <2>. HIDE DEF rs
  <2>5. \A n \in 1..Len(rs) : Rec(rs[n]) \in Messages /\ Rec(rs[n]).kind # "barrier"
    BY <2>3 DEF Messages, Rec
  <2>. QED
    BY <2>3, <2>4, <2>5
<1>2. c \in Channels
  BY <1>1 DEF Channels
<1>3. ASSUME NEW e \in Edges, e[1] \notin ended[e[2]]
      PROVE  Between(c[e], level[e[2]], level[e[1]])
  <2>1. /\ Between(chan[e], level[e[2]], level[e[1]])
        /\ level[e[2]] \in Nat /\ level[e[1]] \in Nat /\ chan[e] \in Seq(Messages)
    BY <1>3, EdgeIs DEF Leveled, Channels
  <2>2. Between(chan[e] \o flushed(o, e[2]), level[e[2]], level[e[1]])
    BY <1>1, <2>1, BetweenConcat
  <2>. QED
    BY <2>1, <2>2
<1>. QED
  BY <1>2, <1>3 DEF Leveled

(* A subtask takes a barrier from all its live inputs and sends it on. *)
LEMMA BarrierKeeps ==
  ASSUME chan \in Channels, NEW level \in [Subtasks -> Nat], Leveled(chan, ended, level),
         ended \in [Subtasks -> SUBSET Subtasks],
         NEW s \in Subtasks, NEW k \in IDs, k = level[s] + 1,
         \A u \in liveInputs(s) : headIs(u, s, "barrier"),
         NEW c, c = Broadcast(taken(s, liveInputs(s)), s, Bar(k))
  PROVE  /\ taken(s, liveInputs(s)) \in Channels /\ c \in Channels
         /\ Leveled(c, ended, [level EXCEPT ![s] = k])
<1>. DEFINE t == taken(s, liveInputs(s))
            lv == [level EXCEPT ![s] = k]
<1>1. Bar(k) \in Messages /\ Bar(k).kind = "barrier" /\ Bar(k).val = k
  BY DEF Messages, Bar
<1>2. ASSUME NEW e \in Edges, e[2] = s, e[1] \in liveInputs(s)
      PROVE  chan[e] # << >> /\ Head(chan[e]).kind = "barrier" /\ Tail(chan[e]) \in Seq(Messages)
  <2>1. e = <<e[1], s>> /\ headIs(e[1], s, "barrier")
    BY <1>2, EdgeIs
  <2>2. chan[e] # << >> /\ Head(chan[e]).kind = "barrier"
    BY <2>1 DEF headIs
  <2>. QED
    BY <2>2, TailIs DEF Channels
<1>3. t \in Channels
  BY <1>2 DEF taken, Channels
<1>4. c \in Channels
  BY <1>1, <1>3 DEF Broadcast, Channels
<1>5. ASSUME NEW e \in Edges, e[1] \notin ended[e[2]]
      PROVE  Between(c[e], lv[e[2]], lv[e[1]])
  <2>1. /\ Between(chan[e], level[e[2]], level[e[1]]) /\ e[1] \in Subtasks /\ e[2] \in Subtasks
        /\ level[e[2]] \in Nat /\ level[e[1]] \in Nat /\ chan[e] \in Seq(Messages)
    BY <1>5, EdgeIs DEF Leveled, Channels
  <2>2. Between(t[e], lv[e[2]], level[e[1]]) /\ lv[e[2]] \in Nat /\ t[e] \in Seq(Messages)
    <3>1. CASE e[2] = s
      <4>1. e[1] \in liveInputs(s)
        BY <1>5, <3>1, EdgeIs DEF liveInputs
      <4>2. t[e] = Tail(chan[e]) /\ lv[e[2]] = level[e[2]] + 1
        BY <3>1, <4>1 DEF taken
      <4>3. Between(Tail(chan[e]), level[e[2]] + 1, level[e[1]])
        BY <1>2, <2>1, <3>1, <4>1, BetweenTail
      <4>4. Tail(chan[e]) \in Seq(Messages) /\ level[e[2]] + 1 \in Nat
        BY <1>2, <2>1, <3>1, <4>1
      <4>. HIDE DEF t, lv
      <4>. QED
        BY <4>2, <4>3, <4>4
    <3>2. CASE e[2] # s
      <4>1. t[e] = chan[e] /\ lv[e[2]] = level[e[2]]
        BY <2>1, <3>2 DEF taken
      <4>. QED
        BY <2>1, <4>1
    <3>. QED
      BY <3>1, <3>2
  <2>3. CASE e[1] = s
    <3>1. c[e] = Append(t[e], Bar(k)) /\ lv[e[1]] = level[e[1]] + 1
      BY <2>3 DEF Broadcast
    <3>2. Between(Append(t[e], Bar(k)), lv[e[2]], level[e[1]] + 1)
      BY <1>1, <2>1, <2>2, <2>3, BetweenAppend
    <3>. QED
      BY <3>1, <3>2
  <2>4. CASE e[1] # s
    <3>1. c[e] = t[e] /\ lv[e[1]] = level[e[1]]
      BY <2>1, <2>4 DEF Broadcast
    <3>. QED
      BY <2>2, <3>1
  <2>. QED
    BY <2>3, <2>4
<1>. QED
  BY <1>3, <1>4, <1>5 DEF Leveled

(* The barrier all live inputs stand before is the next. *)
LEMMA CutIsNext ==
  ASSUME chan \in Channels, NEW level \in [Subtasks -> Nat], Leveled(chan, ended, level),
         NEW s \in Subtasks, NEW k, atCut(s, k)
  PROVE  k = level[s] + 1
<1>1. PICK u \in liveInputs(s) : headIs(u, s, "barrier") /\ Head(chan[<<u, s>>]).val = k
  BY DEF atCut
<1>2. u \in Up[s] /\ u \notin ended[s] /\ <<u, s>> \in Edges /\ u \in Subtasks
  BY EdgeIs, JobAssumption DEF liveInputs
<1>3. Between(chan[<<u, s>>], level[s], level[u])
  BY <1>2 DEF Leveled
<1>4. chan[<<u, s>>] \in Seq(Messages) /\ chan[<<u, s>>] # << >> /\ Head(chan[<<u, s>>]).kind = "barrier"
  BY <1>1, <1>2 DEF headIs, Channels
<1>. QED
  BY <1>1, <1>2, <1>3, <1>4, BetweenTail

-----------------------------------------------------------------------------
(* The steps. *)

LEMMA LevelNat ==
  ASSUME NEW level \in [Subtasks -> IDs \cup {0}]
  PROVE  level \in [Subtasks -> Nat]
BY Numbers

LEMMA KindsOfSubtasks ==
  /\ \A s \in Sources : s \in Subtasks /\ s \notin Operators /\ s \notin Sinks /\ Up[s] = {}
  /\ \A s \in Operators : s \in Subtasks /\ s \notin Sources /\ s \notin Sinks
  /\ \A s \in Sinks : s \in Subtasks /\ s \notin Sources /\ s \notin Operators
  /\ \A s \in Subtasks : Up[s] \subseteq Subtasks /\ \A u \in Up[s] : u \notin Sinks
BY ShapeAssumption, JobAssumption DEF Operators

(* The sinks and the executor stand by. *)
LEMMA OthersRest ==
  ASSUME IInv, UNCHANGED <<sinkVars, sink, runVars>>, Grows,
         \A s \in Sinks : s \in returned' => s \in returned
  PROVE  /\ RunTypes' /\ SinkTypes' /\ TodoAreMarked' /\ RestoredIsMarked' /\ FinalIsSuccess'
         /\ WrittenExist' /\ CommittedIsCovered'
<1>1. /\ pc' = pc /\ pending' = pending /\ todo' = todo
      /\ epoch' = epoch /\ firstEpoch' = firstEpoch /\ opened' = opened /\ written' = written
      /\ staging' = staging /\ committed' = committed
      /\ mode' = mode /\ failed' = failed /\ restoredID' = restoredID
      /\ failures' = failures /\ lost' = lost /\ succeeded' = succeeded
  BY DEF sinkVars, sink, sinkMemory, sinkDisk, runVars
<1>2. \A k \in IDs : marker[k] => marker'[k]
  BY DEF Grows
<1>3. RunTypes' /\ SinkTypes'
  BY <1>1 DEF IInv, RunTypes, SinkTypes
<1>4. TodoAreMarked' /\ RestoredIsMarked' /\ FinalIsSuccess'
  BY <1>1, <1>2 DEF IInv, TodoAreMarked, RestoredIsMarked, FinalIsSuccess, RunTypes, SinkTypes
<1>5. WrittenExist'
  BY <1>1 DEF IInv, WrittenExist, staged
<1>6. CommittedIsCovered'
  BY <1>1, <1>2 DEF IInv, CommittedIsCovered
<1>. QED
  BY <1>3, <1>4, <1>5, <1>6

LEMMA SourceRecordKeeps ==
  ASSUME IInv, NEW s \in Sources, SourceRecord(s)
  PROVE  IInv'
<1>1. /\ position[s] < Count[s] /\ ~barrierDue(s)
      /\ position' = [position EXCEPT ![s] = @ + 1]
      /\ sinceLast' = [sinceLast EXCEPT ![s] = IF injected[s] < maxBarriers(s) THEN @ + 1 ELSE @]
      /\ chan' = EmitRecord(chan, s, <<s, position[s] + 1>>)
      /\ UNCHANGED <<sinkVars, sink, runVars>> /\ UNCHANGED coordinator
      /\ injected' = injected /\ ended' = ended /\ returned' = returned /\ held' = held
      /\ restoredID' = restoredID /\ pc' = pc /\ epoch' = epoch
  BY DEF SourceRecord, sinkVars, runVars, sink, sinkMemory
<1>2. FlowTypes /\ Levels /\ Coordinated
  BY DEF IInv
<1>3. Coordinated' /\ Grows
  BY <1>1, <1>2, CoordinatorRests
<1>4. <<s, position[s] + 1>> \in Records
  <2>1. position[s] + 1 \in 1..Count[s]
    BY <1>1, <1>2, JobAssumption DEF FlowTypes
  <2>. QED
    BY <2>1, JobAssumption
<1>5. PICK level \in [Subtasks -> IDs \cup {0}] : LeveledBy(level)
  BY <1>2 DEF Levels
<1>6. chan' \in Channels /\ Leveled(chan', ended, level)
  BY <1>1, <1>2, <1>4, <1>5, LevelNat, EmitKeeps DEF FlowTypes, LeveledBy
<1>7. LeveledBy(level)'
  BY <1>1, <1>5, <1>6 DEF LeveledBy, Leveled
<1>8. Levels'
  BY <1>5, <1>7 DEF Levels
<1>9. FlowTypes'
  <2>1. position' \in [Sources -> Nat] /\ \A x \in Sources : position'[x] <= Count[x]
    BY <1>1, <1>2, JobAssumption DEF FlowTypes
  <2>2. sinceLast[s] < Interval[s] \/ ~(injected[s] < maxBarriers(s))
    <3>1. CASE Interval[s] = 0
      <4>1. maxBarriers(s) = 0
        BY <3>1 DEF maxBarriers
      <4>2. injected[s] \in IDs \cup {0}
        BY <1>2 DEF FlowTypes
      <4>3. injected[s] \in Nat
        BY <4>2, Numbers
      <4>. QED
        BY <4>1, <4>3
    <3>2. CASE Interval[s] # 0
      BY <1>1, <1>2, <3>2, JobAssumption DEF barrierDue, FlowTypes
    <3>. QED
      BY <3>1, <3>2
  <2>3. sinceLast' \in [Sources -> Nat] /\ \A x \in Sources : sinceLast'[x] <= Interval[x]
    <3>. DEFINE n == IF injected[s] < maxBarriers(s) THEN sinceLast[s] + 1 ELSE sinceLast[s]
    <3>1. n \in Nat /\ n <= Interval[s]
      BY <1>2, <2>2, JobAssumption DEF FlowTypes
    <3>2. sinceLast' = [sinceLast EXCEPT ![s] = n]
      BY <1>1
    <3>. HIDE DEF n
    <3>. QED
      BY <1>2, <3>1, <3>2 DEF FlowTypes
  <2>. QED
    BY <1>1, <1>2, <1>6, <2>1, <2>3 DEF FlowTypes
<1>. QED
  BY <1>1, <1>3, <1>8, <1>9, OthersRest DEF IInv

(* A barrier sent on or taken raises the level of its subtask. *)
LEMMA LevelRaised ==
  ASSUME IInv, NEW level \in [Subtasks -> IDs \cup {0}], LeveledBy(level),
         NEW s \in Subtasks, NEW k \in IDs, k = level[s] + 1,
         restoredID' = restoredID, ended' = ended,
         Leveled(chan', ended, [level EXCEPT ![s] = k]),
         \A x \in Sources : injected'[x] = IF x = s THEN k ELSE injected[x],
         \A x \in Sinks : /\ x # s => epoch'[x] = epoch[x] /\ pc'[x] = pc[x]
                          /\ x = s => epoch'[x] = k + 1 /\ pc'[x] # "restore"
  PROVE  /\ [level EXCEPT ![s] = k] \in [Subtasks -> IDs \cup {0}]
         /\ LeveledBy([level EXCEPT ![s] = k])'
<1>. DEFINE lv == [level EXCEPT ![s] = k]
<1>1. /\ lv \in [Subtasks -> IDs \cup {0}] /\ lv[s] = k
      /\ \A x \in Subtasks : x # s => lv[x] = level[x]
  OBVIOUS
<1>2. restoredID \in Nat /\ level[s] \in Nat
  BY Numbers DEF IInv, RunTypes
<1>3. Leveled(chan', ended', lv)
  OBVIOUS
<1>. HIDE DEF lv
<1>4. \A x \in Subtasks : restoredID' <= lv[x]
  BY <1>1, <1>2 DEF LeveledBy
<1>5. \A x \in Sources : injected'[x] = lv[x]
  BY <1>1, KindsOfSubtasks DEF LeveledBy
<1>6. \A x \in Sinks : /\ pc'[x] = "restore" => lv[x] = restoredID'
                       /\ pc'[x] \notin {"restore", "returned"} => epoch'[x] = lv[x] + 1
  BY <1>1, KindsOfSubtasks DEF LeveledBy
<1>7. LeveledBy(lv)'
  BY <1>3, <1>4, <1>5, <1>6 DEF LeveledBy, Leveled
<1>. QED
  BY <1>1, <1>7 DEF lv

LEMMA RaisesLevel ==
  ASSUME IInv, NEW level \in [Subtasks -> IDs \cup {0}], LeveledBy(level),
         NEW s \in Subtasks, NEW k \in IDs, k = level[s] + 1,
         restoredID' = restoredID, ended' = ended,
         Leveled(chan', ended, [level EXCEPT ![s] = k]),
         \A x \in Sources : injected'[x] = IF x = s THEN k ELSE injected[x],
         \A x \in Sinks : /\ x # s => epoch'[x] = epoch[x] /\ pc'[x] = pc[x]
                          /\ x = s => epoch'[x] = k + 1 /\ pc'[x] # "restore"
  PROVE  Levels'
BY LevelRaised DEF Levels

LEMMA SourceBarrierKeeps ==
  ASSUME IInv, NEW s \in Sources, SourceBarrier(s)
  PROVE  IInv'
<1>. DEFINE k == injected[s] + 1
<1>1. /\ barrierDue(s) /\ Acknowledged(k, s, position[s])
      /\ injected' = [injected EXCEPT ![s] = @ + 1] /\ sinceLast' = [sinceLast EXCEPT ![s] = 0]
      /\ chan' = Broadcast(chan, s, Bar(k))
      /\ position' = position /\ ended' = ended /\ returned' = returned /\ held' = held
      /\ UNCHANGED <<sinkVars, sink, runVars>>
      /\ restoredID' = restoredID /\ pc' = pc /\ epoch' = epoch
  BY DEF SourceBarrier, sinkVars, runVars, sink, sinkMemory
<1>2. FlowTypes /\ Levels /\ Coordinated /\ restoredID \in Nat /\ s \in Subtasks
  BY Numbers, KindsOfSubtasks DEF IInv, RunTypes
<1>3. k \in IDs
  <2>1. injected[s] < maxBarriers(s) /\ maxBarriers(s) \in IDs \cup {0} /\ injected[s] \in IDs \cup {0}
    BY <1>1, <1>2, JobAssumption DEF barrierDue, FlowTypes
  <2>. QED
    BY <2>1, NextNumber
<1>4. PICK level \in [Subtasks -> IDs \cup {0}] : LeveledBy(level)
  BY <1>2 DEF Levels
<1>5. level \in [Subtasks -> Nat] /\ k = level[s] + 1 /\ k > restoredID
  BY <1>2, <1>4, LevelNat, Numbers DEF LeveledBy
<1>6. position[s] \in Snapshots /\ Restorable(k, s, position[s])
  BY <1>2, KindsOfSubtasks, JobAssumption DEF FlowTypes, Snapshots, Restorable
<1>. HIDE DEF k
<1>7. Coordinated' /\ Grows
  BY <1>1, <1>2, <1>3, <1>5, <1>6, AckKeeps
<1>8. chan' \in Channels /\ Leveled(chan', ended, [level EXCEPT ![s] = k])
  <2>1. liveInputs(s) = {}
    BY KindsOfSubtasks DEF liveInputs
  <2>2. taken(s, liveInputs(s)) = chan
    BY <1>2, <2>1 DEF taken, FlowTypes, Channels
  <2>3. chan \in Channels /\ Leveled(chan, ended, level) /\ ended \in [Subtasks -> SUBSET Subtasks]
    BY <1>2, <1>4 DEF FlowTypes, LeveledBy
  <2>4. \A u \in liveInputs(s) : headIs(u, s, "barrier")
    BY <2>1
  <2>5. chan' = Broadcast(taken(s, liveInputs(s)), s, Bar(k))
    BY <1>1, <2>2
  <2>. HIDE DEF LeveledBy, IInv
  <2>. QED
    BY <1>2, <1>3, <1>5, <2>3, <2>4, <2>5, BarrierKeeps, ZenonT(60)
<1>9. Levels'
  <2>1. \A x \in Sources : injected'[x] = IF x = s THEN k ELSE injected[x]
    BY <1>1, <1>2 DEF k, FlowTypes
  <2>2. s \notin Sinks
    BY KindsOfSubtasks
  <2>3. \A x \in Sinks : /\ x # s => epoch'[x] = epoch[x] /\ pc'[x] = pc[x]
                         /\ x = s => epoch'[x] = k + 1 /\ pc'[x] # "restore"
    BY <1>1, <2>2
  <2>. QED
    BY <1>1, <1>2, <1>3, <1>4, <1>5, <1>8, <2>1, <2>3, RaisesLevel, ZenonT(60)
<1>10. FlowTypes'
  <2>1. injected' \in [Sources -> IDs \cup {0}]
    BY <1>1, <1>2, <1>3 DEF k, FlowTypes
  <2>2. sinceLast' \in [Sources -> Nat] /\ \A x \in Sources : sinceLast'[x] <= Interval[x]
    BY <1>1, <1>2, JobAssumption DEF FlowTypes
  <2>. QED
    BY <1>1, <1>2, <1>8, <2>1, <2>2 DEF FlowTypes
<1>. QED
  BY <1>1, <1>7, <1>9, <1>10, OthersRest DEF IInv

LEMMA SourceEndKeeps ==
  ASSUME IInv, NEW s \in Sources, SourceEnd(s)
  PROVE  IInv'
<1>1. /\ FinishedOK(s, position[s]) /\ chan' = Broadcast(chan, s, EOS)
      /\ returned' = returned \cup {s}
      /\ position' = position /\ injected' = injected /\ sinceLast' = sinceLast
      /\ ended' = ended /\ held' = held
      /\ UNCHANGED <<sinkVars, sink, runVars>>
      /\ restoredID' = restoredID /\ pc' = pc /\ epoch' = epoch
  BY DEF SourceEnd, sourceVars, sinkVars, runVars, sink, sinkMemory
<1>2. FlowTypes /\ Levels /\ Coordinated /\ restoredID \in Nat /\ s \in Subtasks /\ s \notin Sinks
  BY Numbers, KindsOfSubtasks DEF IInv, RunTypes
<1>3. position[s] \in 0..Count[s]
  BY <1>2, JobAssumption DEF FlowTypes
<1>4. Coordinated' /\ Grows
  BY <1>1, <1>2, <1>3, FinishedKeeps
<1>5. PICK level \in [Subtasks -> IDs \cup {0}] : LeveledBy(level)
  BY <1>2 DEF Levels
<1>6. chan' \in Channels /\ Leveled(chan', ended, level)
  BY <1>1, <1>2, <1>5, LevelNat, EndKeeps DEF FlowTypes, LeveledBy
<1>7. LeveledBy(level)'
  BY <1>1, <1>5, <1>6 DEF LeveledBy, Leveled
<1>8. Levels'
  BY <1>5, <1>7 DEF Levels
<1>9. FlowTypes'
  BY <1>1, <1>2, <1>6 DEF FlowTypes
<1>10. \A x \in Sinks : x \in returned' => x \in returned
  BY <1>1, <1>2
<1>. QED
  BY <1>1, <1>4, <1>8, <1>9, <1>10, OthersRest DEF IInv

(* Only the channels and the state of an operator change. *)
LEMMA FlowKeeps ==
  ASSUME IInv, UNCHANGED <<coordinator, sourceVars, ended, sinkVars, sink, runVars>>,
         \A s \in Sinks : s \in returned' => s \in returned, returned' \subseteq Subtasks,
         held' \in [Operators -> SUBSET Records], chan' \in Channels,
         \A level \in [Subtasks -> Nat] : Leveled(chan, ended, level) => Leveled(chan', ended, level)
  PROVE  IInv'
<1>1. /\ position' = position /\ injected' = injected /\ sinceLast' = sinceLast /\ ended' = ended
      /\ restoredID' = restoredID /\ pc' = pc /\ epoch' = epoch
      /\ UNCHANGED coordinator /\ UNCHANGED <<sinkVars, sink, runVars>>
  BY DEF sourceVars, sinkVars, sink, sinkMemory, runVars
<1>2. FlowTypes /\ Levels /\ Coordinated
  BY DEF IInv
<1>3. Coordinated' /\ Grows
  BY <1>1, <1>2, CoordinatorRests
<1>4. PICK level \in [Subtasks -> IDs \cup {0}] : LeveledBy(level)
  BY <1>2 DEF Levels
<1>5. Leveled(chan', ended, level)
  BY <1>4, LevelNat DEF LeveledBy
<1>6. LeveledBy(level)'
  BY <1>1, <1>4, <1>5 DEF LeveledBy, Leveled
<1>7. Levels'
  BY <1>4, <1>6 DEF Levels
<1>8. FlowTypes'
  BY <1>1, <1>2 DEF FlowTypes
<1>. QED
  BY <1>1, <1>3, <1>7, <1>8, OthersRest DEF IInv

LEMMA HeadRecord ==
  ASSUME IInv, NEW s \in Subtasks, NEW u \in liveInputs(s), headIs(u, s, "record")
  PROVE  /\ u \in Up[s] /\ chan[<<u, s>>] # << >> /\ Head(chan[<<u, s>>]).kind # "barrier"
         /\ Head(chan[<<u, s>>]).val \in Records
<1>1. u \in Up[s] /\ <<u, s>> \in Edges /\ chan \in Channels
  BY EdgeIs DEF liveInputs, IInv, FlowTypes
<1>2. chan[<<u, s>>] \in Seq(Messages) /\ chan[<<u, s>>] # << >> /\ Head(chan[<<u, s>>]).kind = "record"
  BY <1>1 DEF headIs, Channels
<1>3. Head(chan[<<u, s>>]) \in Messages
  BY <1>2
<1>. QED
  BY <1>1, <1>2, <1>3, MessageIs

LEMMA OperatorRecordKeeps ==
  ASSUME IInv, NEW o \in Operators, NEW u \in Up[o], OperatorRecord(o, u)
  PROVE  IInv'
<1>. DEFINE r == Head(chan[<<u, o>>]).val
            t == taken(o, {u})
<1>1. /\ u \in liveInputs(o) /\ headIs(u, o, "record")
      /\ \/ chan' = EmitRecord(t, o, r) /\ held' = held
         \/ chan' = t /\ held' = [held EXCEPT ![o] = @ \cup {r}]
      /\ UNCHANGED <<coordinator, sourceVars, ended, sinkVars, sink, runVars>> /\ returned' = returned
  BY DEF OperatorRecord
<1>2. o \in Subtasks
  BY KindsOfSubtasks
<1>3. chan[<<u, o>>] # << >> /\ Head(chan[<<u, o>>]).kind # "barrier" /\ r \in Records
  BY <1>1, <1>2, HeadRecord
<1>4. chan \in Channels /\ held \in [Operators -> SUBSET Records] /\ returned \subseteq Subtasks
  BY DEF IInv, FlowTypes
<1>. HIDE DEF r
<1>5. ASSUME NEW level \in [Subtasks -> Nat], Leveled(chan, ended, level)
      PROVE  t \in Channels /\ Leveled(t, ended, level)
  BY <1>2, <1>3, <1>4, <1>5, TakeKeeps
<1>. HIDE DEF t
<1>6. t \in Channels
  <2>1. PICK level \in [Subtasks -> IDs \cup {0}] : LeveledBy(level)
    BY DEF IInv, Levels
  <2>. QED
    BY <1>5, <2>1, LevelNat DEF LeveledBy
<1>7. ASSUME NEW level \in [Subtasks -> Nat], Leveled(chan, ended, level)
      PROVE  EmitRecord(t, o, r) \in Channels /\ Leveled(EmitRecord(t, o, r), ended, level)
  BY <1>3, <1>5, <1>7, EmitKeeps
<1>8. EmitRecord(t, o, r) \in Channels
  <2>1. Rec(r) \in Messages
    BY <1>3 DEF Messages
  <2>. QED
    BY <1>6, <2>1 DEF EmitRecord, Channels
<1>9. held' \in [Operators -> SUBSET Records]
  BY <1>1, <1>3, <1>4
<1>10. chan' \in Channels
  BY <1>1, <1>6, <1>8
<1>11. \A level \in [Subtasks -> Nat] : Leveled(chan, ended, level) => Leveled(chan', ended, level)
  BY <1>1, <1>5, <1>7
<1>. QED
  BY <1>1, <1>4, <1>9, <1>10, <1>11, FlowKeeps

LEMMA OperatorFiresKeeps ==
  ASSUME IInv, NEW o \in Operators, OperatorFires(o)
  PROVE  IInv'
<1>1. PICK r \in held[o] : /\ chan' = EmitRecord(chan, o, r)
                           /\ held' = [held EXCEPT ![o] = @ \ {r}]
  BY DEF OperatorFires
<1>2. UNCHANGED <<coordinator, sourceVars, ended, sinkVars, sink, runVars>> /\ returned' = returned
  BY DEF OperatorFires
<1>3. chan \in Channels /\ held \in [Operators -> SUBSET Records] /\ returned \subseteq Subtasks
  BY DEF IInv, FlowTypes
<1>4. r \in Records /\ held' \in [Operators -> SUBSET Records]
  BY <1>1, <1>3
<1>5. \A level \in [Subtasks -> Nat] : Leveled(chan, ended, level) => Leveled(chan', ended, level)
  BY <1>1, <1>3, <1>4, EmitKeeps
<1>6. chan' \in Channels
  <2>1. Rec(r) \in Messages
    BY <1>4 DEF Messages
  <2>. QED
    BY <1>1, <1>3, <2>1 DEF EmitRecord, Channels
<1>. QED
  BY <1>2, <1>3, <1>4, <1>5, <1>6, FlowKeeps

LEMMA OperatorEndKeeps ==
  ASSUME IInv, NEW o \in Operators, OperatorEnd(o)
  PROVE  IInv'
<1>. DEFINE c == [e \in Edges |-> IF e[1] = o THEN chan[e] \o flushed(o, e[2]) ELSE chan[e]]
<1>1. /\ chan' = Broadcast(c, o, EOS) /\ held' = [held EXCEPT ![o] = {}] /\ returned' = returned \cup {o}
      /\ UNCHANGED <<coordinator, sourceVars, ended, sinkVars, sink, runVars>>
  BY DEF OperatorEnd
<1>2. chan \in Channels /\ held \in [Operators -> SUBSET Records] /\ returned \subseteq Subtasks
  BY DEF IInv, FlowTypes
<1>3. ASSUME NEW level \in [Subtasks -> Nat], Leveled(chan, ended, level)
      PROVE  c \in Channels /\ Leveled(c, ended, level)
  BY <1>2, <1>3, FlushKeeps
<1>. HIDE DEF c
<1>4. ASSUME NEW level \in [Subtasks -> Nat], Leveled(chan, ended, level)
      PROVE  chan' \in Channels /\ Leveled(chan', ended, level)
  BY <1>1, <1>3, <1>4, EndKeeps
<1>5. chan' \in Channels
  <2>1. PICK level \in [Subtasks -> IDs \cup {0}] : LeveledBy(level)
    BY DEF IInv, Levels
  <2>. QED
    BY <1>4, <2>1, LevelNat DEF LeveledBy
<1>6. o \in Subtasks /\ o \notin Sinks
  BY KindsOfSubtasks
<1>7. held' \in [Operators -> SUBSET Records]
  BY <1>1, <1>2
<1>8. \A level \in [Subtasks -> Nat] : Leveled(chan, ended, level) => Leveled(chan', ended, level)
  BY <1>4
<1>. QED
  BY <1>1, <1>2, <1>5, <1>6, <1>7, <1>8, FlowKeeps

LEMMA OperatorBarrierKeeps ==
  ASSUME IInv, NEW o \in Operators, NEW k \in IDs, OperatorBarrier(o, k)
  PROVE  IInv'
<1>1. /\ atCut(o, k) /\ Acknowledged(k, o, held[o])
      /\ chan' = Broadcast(taken(o, liveInputs(o)), o, Bar(k))
      /\ position' = position /\ injected' = injected /\ sinceLast' = sinceLast
      /\ ended' = ended /\ returned' = returned /\ held' = held
      /\ UNCHANGED <<sinkVars, sink, runVars>>
      /\ restoredID' = restoredID /\ pc' = pc /\ epoch' = epoch
  BY DEF OperatorBarrier, sourceVars, sinkVars, runVars, sink, sinkMemory
<1>2. FlowTypes /\ Levels /\ Coordinated /\ restoredID \in Nat /\ o \in Subtasks
  BY Numbers, KindsOfSubtasks DEF IInv, RunTypes
<1>3. PICK level \in [Subtasks -> IDs \cup {0}] : LeveledBy(level)
  BY <1>2 DEF Levels
<1>4. chan \in Channels /\ Leveled(chan, ended, level) /\ ended \in [Subtasks -> SUBSET Subtasks]
  BY <1>2, <1>3 DEF FlowTypes, LeveledBy
<1>5. level \in [Subtasks -> Nat] /\ k = level[o] + 1 /\ k > restoredID
  <2>1. level \in [Subtasks -> Nat] /\ restoredID <= level[o]
    BY <1>2, <1>3, LevelNat DEF LeveledBy
  <2>2. k = level[o] + 1
    BY <1>1, <1>2, <1>4, <2>1, CutIsNext
  <2>. QED
    BY <1>2, <2>1, <2>2
<1>6. held[o] \in Snapshots /\ Restorable(k, o, held[o])
  BY <1>2, KindsOfSubtasks DEF FlowTypes, Snapshots, Restorable
<1>7. Coordinated' /\ Grows
  BY <1>1, <1>2, <1>5, <1>6, AckKeeps
<1>8. chan' \in Channels /\ Leveled(chan', ended, [level EXCEPT ![o] = k])
  <2>1. \A u \in liveInputs(o) : headIs(u, o, "barrier")
    BY <1>1 DEF atCut
  <2>. QED
    BY <1>1, <1>2, <1>4, <1>5, <2>1, BarrierKeeps, ZenonT(60)
<1>9. Levels'
  <2>1. o \notin Sources /\ o \notin Sinks
    BY KindsOfSubtasks
  <2>2. \A x \in Sources : injected'[x] = IF x = o THEN k ELSE injected[x]
    BY <1>1, <2>1
  <2>. QED
    BY <1>1, <1>2, <1>3, <1>5, <1>8, <2>1, <2>2, RaisesLevel
<1>10. FlowTypes'
  BY <1>1, <1>2, <1>8 DEF FlowTypes
<1>. QED
  BY <1>1, <1>7, <1>9, <1>10, OthersRest DEF IInv

LEMMA InputEndsKeeps ==
  ASSUME IInv, NEW s \in Subtasks, NEW u \in Up[s], InputEnds(s, u)
  PROVE  IInv'
<1>1. /\ u \in liveInputs(s) /\ headIs(u, s, "eos")
      /\ chan' = taken(s, {u}) /\ ended' = [ended EXCEPT ![s] = @ \cup {u}]
      /\ UNCHANGED <<sinkVars, sink, runVars>> /\ UNCHANGED coordinator
      /\ position' = position /\ injected' = injected /\ sinceLast' = sinceLast
      /\ returned' = returned /\ held' = held
      /\ restoredID' = restoredID /\ pc' = pc /\ epoch' = epoch
  BY DEF InputEnds, sourceVars, sinkVars, runVars, sink, sinkMemory
<1>2. FlowTypes /\ Levels /\ Coordinated
  BY DEF IInv
<1>3. Coordinated' /\ Grows
  BY <1>1, <1>2, CoordinatorRests
<1>4. PICK level \in [Subtasks -> IDs \cup {0}] : LeveledBy(level)
  BY <1>2 DEF Levels
<1>5. chan' \in Channels /\ Leveled(chan', ended, level)
  <2>1. chan[<<u, s>>] # << >> /\ Head(chan[<<u, s>>]).kind # "barrier"
    BY <1>1 DEF headIs
  <2>. QED
    BY <1>1, <1>2, <1>4, <2>1, LevelNat, TakeKeeps DEF FlowTypes, LeveledBy
<1>6. \A x \in Subtasks : ended[x] \subseteq ended'[x]
  BY <1>1, <1>2 DEF FlowTypes
<1>7. Leveled(chan', ended', level)
  BY <1>5, <1>6, EdgeIs DEF Leveled
<1>8. LeveledBy(level)'
  BY <1>1, <1>4, <1>7 DEF LeveledBy, Leveled
<1>9. Levels'
  BY <1>4, <1>8 DEF Levels
<1>10. FlowTypes'
  <2>1. u \in Subtasks
    BY KindsOfSubtasks
  <2>. QED
    BY <1>1, <1>2, <1>5, <2>1 DEF FlowTypes
<1>. QED
  BY <1>1, <1>3, <1>9, <1>10, OthersRest DEF IInv

(* Sources, operators and channels stand by, and so does the epoch of      *)
(* every sink that is past its restore.                                    *)
LEMMA FlowRests ==
  ASSUME IInv, UNCHANGED <<sourceVars, chan, ended, held>>, restoredID' = restoredID,
         returned' \subseteq Subtasks,
         \A s \in Sinks : /\ pc'[s] = "restore" => pc[s] = "restore"
                          /\ pc'[s] \notin {"restore", "returned"} =>
                               \/ epoch'[s] = epoch[s] /\ pc[s] \notin {"restore", "returned"}
                               \/ epoch'[s] = restoredID + 1 /\ pc[s] = "restore"
  PROVE  FlowTypes' /\ Levels'
<1>1. /\ position' = position /\ injected' = injected /\ sinceLast' = sinceLast
      /\ chan' = chan /\ ended' = ended /\ held' = held
  BY DEF sourceVars
<1>2. FlowTypes'
  BY <1>1 DEF IInv, FlowTypes
<1>3. PICK level \in [Subtasks -> IDs \cup {0}] : LeveledBy(level)
  BY DEF IInv, Levels
<1>4. \A s \in Sinks : /\ pc'[s] = "restore" => level[s] = restoredID
                       /\ pc'[s] \notin {"restore", "returned"} => epoch'[s] = level[s] + 1
  BY <1>3 DEF LeveledBy
<1>5. LeveledBy(level)'
  BY <1>1, <1>3, <1>4 DEF LeveledBy, Leveled
<1>. QED
  BY <1>2, <1>3, <1>5 DEF Levels

LEMMA RenameDoes ==
  ASSUME SinkTypes, NEW s \in Sinks, NEW e \in Epochs, Rename(s, e)
  PROVE  /\ staging' \in [Sinks -> [Epochs -> Files]] /\ committed' \in [Sinks -> [Epochs -> Files]]
         /\ \A x \in Sinks : \A f \in Epochs :
              /\ x # s \/ f # e => staging'[x][f] = staging[x][f] /\ committed'[x][f] = committed[x][f]
              /\ staging[x][f] # NoFile \/ committed[x][f] # NoFile
                   => staging'[x][f] # NoFile \/ committed'[x][f] # NoFile
<1>1. /\ staging \in [Sinks -> [Epochs -> Files]] /\ committed \in [Sinks -> [Epochs -> Files]]
      /\ NoFile \in Files
  BY DEF SinkTypes, Files
<1>2. CASE staged(s, e)
  <2>1. /\ committed' = [committed EXCEPT ![s][e] = staging[s][e]]
        /\ staging' = [staging EXCEPT ![s][e] = NoFile] /\ staging[s][e] # NoFile
    BY <1>2 DEF Rename, staged
  <2>. QED
    BY <1>1, <2>1
<1>3. CASE ~staged(s, e)
  BY <1>1, <1>3 DEF Rename, sinkDisk
<1>. QED
  BY <1>2, <1>3

(* A rename keeps what is written, and is covered when its epoch is. *)
LEMMA RenameKeeps ==
  ASSUME IInv, NEW s \in Sinks, NEW e \in Epochs, Rename(s, e),
         UNCHANGED sinkMemory, pc' = pc, returned' = returned, mode' = mode,
         succeeded' = succeeded, marker' = marker,
         pending' \in [Sinks -> SUBSET IDs], todo' \in [Sinks -> SUBSET IDs],
         \A x \in Sinks : todo'[x] \subseteq pending'[x] /\ pending'[x] \subseteq pending[x],
         opened[s] => e # epoch[s],
         succeeded \/ \E k \in IDs : k >= e /\ marker[k]
  PROVE  SinkTypes' /\ WrittenExist' /\ CommittedIsCovered'
<1>1. SinkTypes /\ WrittenExist /\ CommittedIsCovered
  BY DEF IInv
<1>2. /\ epoch' = epoch /\ firstEpoch' = firstEpoch /\ opened' = opened /\ written' = written
  BY DEF sinkMemory
<1>3. /\ staging' \in [Sinks -> [Epochs -> Files]] /\ committed' \in [Sinks -> [Epochs -> Files]]
      /\ \A x \in Sinks : \A f \in Epochs :
           /\ x # s \/ f # e => staging'[x][f] = staging[x][f] /\ committed'[x][f] = committed[x][f]
           /\ staging[x][f] # NoFile \/ committed[x][f] # NoFile
                => staging'[x][f] # NoFile \/ committed'[x][f] # NoFile
  BY <1>1, RenameDoes
<1>4. SinkTypes'
  BY <1>1, <1>2, <1>3 DEF SinkTypes
<1>5. \A x \in Sinks : epoch[x] \in Epochs /\ written[x] \subseteq Epochs
  BY <1>1 DEF SinkTypes
<1>6. WrittenExist'
  <2>1. ASSUME NEW x \in Sinks, opened[x] PROVE staging'[x][epoch[x]] # NoFile
    <3>1. staging[x][epoch[x]] # NoFile /\ (x # s \/ epoch[x] # e)
      BY <1>1, <2>1 DEF WrittenExist, staged
    <3>. QED
      BY <1>3, <1>5, <3>1
  <2>2. ASSUME NEW x \in Sinks, NEW f \in written[x]
        PROVE  staging'[x][f] # NoFile \/ committed'[x][f] # NoFile
    <3>1. staging[x][f] # NoFile \/ committed[x][f] # NoFile
      BY <1>1 DEF WrittenExist, staged
    <3>. QED
      BY <1>3, <1>5, <3>1
  <2>. QED
    BY <1>1, <1>2, <2>1, <2>2 DEF WrittenExist, staged
<1>7. CommittedIsCovered'
  BY <1>1, <1>3 DEF CommittedIsCovered
<1>. QED
  BY <1>4, <1>6, <1>7

LEMMA PayloadIsRestored ==
  ASSUME IInv, NEW s \in Sinks
  PROVE  restorePayload(s) = restoredID
<1>1. CASE restoredID = 0
  BY <1>1 DEF restorePayload
<1>2. CASE restoredID # 0
  <2>1. restoredID \in IDs /\ marker[restoredID] /\ s \in Subtasks
    BY <1>2, KindsOfSubtasks DEF IInv, RunTypes, RestoredIsMarked
  <2>2. files[restoredID][s] = restoredID
    BY <2>1 DEF IInv, Coordinated, MarkedRestores, Restorable
  <2>. QED
    BY <1>2, <2>2 DEF restorePayload
<1>. QED
  BY <1>1, <1>2

LEMMA SinkRestoringKeeps ==
  ASSUME IInv, NEW s \in Sinks, SinkRestoring(s)
  PROVE  IInv'
<1>1. /\ pc[s] = "restore"
      /\ \/ \E e \in Epochs : SettleStaged(s, e, restoredID) /\ pc' = pc
         \/ Restored(s, restoredID) /\ pc' = [pc EXCEPT ![s] = "run"]
      /\ UNCHANGED coordinator /\ UNCHANGED <<sourceVars, chan, ended, held>> /\ UNCHANGED runVars
      /\ restoredID' = restoredID /\ returned' = returned /\ pending' = pending /\ todo' = todo
      /\ mode' = mode /\ succeeded' = succeeded
  BY PayloadIsRestored DEF SinkRestoring, flowVars, runVars
<1>2. RunTypes /\ FlowTypes /\ SinkTypes /\ Coordinated /\ TodoAreMarked /\ RestoredIsMarked
      /\ FinalIsSuccess /\ WrittenExist /\ CommittedIsCovered
  BY DEF IInv
<1>3. Coordinated' /\ Grows /\ marker' = marker
  BY <1>1, <1>2, CoordinatorRests DEF coordinator, disk
<1>4. RunTypes' /\ FinalIsSuccess' /\ TodoAreMarked' /\ RestoredIsMarked'
  BY <1>1, <1>2, <1>3 DEF runVars, RunTypes, FinalIsSuccess, TodoAreMarked, RestoredIsMarked
<1>5. /\ pending[s] = {} /\ written[s] = {} /\ ~opened[s] /\ restoredID \in Nat
      /\ s \notin returned /\ mode # "final"
  BY <1>1, <1>2, Numbers DEF WrittenExist, RunTypes
<1>6. ASSUME NEW e \in Epochs, SettleStaged(s, e, restoredID), pc' = pc PROVE IInv'
  <2>1. UNCHANGED sinkMemory /\ epoch' = epoch
    BY <1>6 DEF SettleStaged, sinkMemory
  <2>2. FlowTypes' /\ Levels'
    BY <1>1, <1>2, <1>6, <2>1, FlowRests DEF FlowTypes
  <2>3. CASE e > restoredID
    <3>1. staging' = [staging EXCEPT ![s][e] = NoFile] /\ committed' = committed
      BY <1>6, <2>3 DEF SettleStaged
    <3>2. /\ epoch' = epoch /\ firstEpoch' = firstEpoch /\ opened' = opened /\ written' = written
      BY <2>1 DEF sinkMemory
    <3>3. SinkTypes'
      BY <1>1, <1>2, <1>6, <3>1, <3>2 DEF SinkTypes, Files
    <3>4. \A x \in Sinks : x # s => staging'[x] = staging[x]
      BY <1>2, <3>1 DEF SinkTypes
    <3>5. WrittenExist'
      BY <1>1, <1>2, <1>5, <1>6, <3>1, <3>2, <3>4 DEF WrittenExist, staged
    <3>6. CommittedIsCovered'
      BY <1>1, <1>2, <1>3, <3>1 DEF CommittedIsCovered
    <3>. QED
      BY <1>3, <1>4, <2>2, <3>3, <3>5, <3>6 DEF IInv
  <2>4. CASE ~(e > restoredID)
    <3>1. Rename(s, e)
      BY <1>6, <2>4 DEF SettleStaged
    <3>2. restoredID \in IDs /\ restoredID >= e /\ marker[restoredID]
      BY <1>2, <1>5, <2>4, Numbers DEF RunTypes, RestoredIsMarked
    <3>3. SinkTypes' /\ WrittenExist' /\ CommittedIsCovered'
      BY <1>1, <1>2, <1>3, <1>5, <1>6, <2>1, <3>1, <3>2, RenameKeeps DEF SinkTypes
    <3>. QED
      BY <1>3, <1>4, <2>2, <3>3 DEF IInv
  <2>. QED
    BY <2>3, <2>4
<1>7. ASSUME Restored(s, restoredID), pc' = [pc EXCEPT ![s] = "run"] PROVE IInv'
  <2>1. /\ epoch' = [epoch EXCEPT ![s] = restoredID + 1]
        /\ firstEpoch' = [firstEpoch EXCEPT ![s] = restoredID + 1]
        /\ written' = [written EXCEPT ![s] = {}]
        /\ opened' = opened /\ staging' = staging /\ committed' = committed
    BY <1>7 DEF Restored, sinkDisk
  <2>2. restoredID + 1 \in Epochs
    BY <1>2, Numbers DEF RunTypes
  <2>3. /\ epoch'[s] = restoredID + 1 /\ \A x \in Sinks : x # s => epoch'[x] = epoch[x]
        /\ pc'[s] = "run" /\ \A x \in Sinks : x # s => pc'[x] = pc[x]
        /\ written'[s] = {} /\ \A x \in Sinks : x # s => written'[x] = written[x]
    BY <1>2, <1>7, <2>1 DEF SinkTypes
  <2>4. \A x \in Sinks : /\ pc'[x] = "restore" => pc[x] = "restore"
                         /\ pc'[x] \notin {"restore", "returned"} =>
                              \/ epoch'[x] = epoch[x] /\ pc[x] \notin {"restore", "returned"}
                              \/ epoch'[x] = restoredID + 1 /\ pc[x] = "restore"
    BY <1>1, <2>3
  <2>5. FlowTypes' /\ Levels'
    BY <1>1, <1>2, <2>4, FlowRests DEF FlowTypes
  <2>6. SinkTypes'
    BY <1>1, <1>2, <1>7, <2>1, <2>2 DEF SinkTypes
  <2>7. WrittenExist'
    BY <1>1, <1>2, <1>5, <2>1, <2>3 DEF WrittenExist, staged
  <2>8. CommittedIsCovered'
    BY <1>1, <1>2, <1>3, <2>1 DEF CommittedIsCovered
  <2>. QED
    BY <1>3, <1>4, <2>5, <2>6, <2>7, <2>8 DEF IInv
<1>. QED
  BY <1>1, <1>6, <1>7

LEMMA SinkRecordKeeps ==
  ASSUME IInv, NEW s \in Sinks, NEW u \in Up[s], SinkRecord(s, u)
  PROVE  IInv'
<1>. DEFINE r == Head(chan[<<u, s>>]).val
            file == IF opened[s] THEN staging[s][epoch[s]] ELSE empty
            more == [file EXCEPT ![r] = @ + 1]
<1>1. /\ pc[s] = "run" /\ u \in liveInputs(s) /\ headIs(u, s, "record")
      /\ staging' = [staging EXCEPT ![s][epoch[s]] = more]
      /\ opened' = [opened EXCEPT ![s] = TRUE]
      /\ written' = [written EXCEPT ![s] = @ \cup {epoch[s]}]
      /\ epoch' = epoch /\ firstEpoch' = firstEpoch /\ committed' = committed
      /\ chan' = taken(s, {u})
      /\ UNCHANGED coordinator /\ UNCHANGED sinkVars /\ UNCHANGED runVars
      /\ position' = position /\ injected' = injected /\ sinceLast' = sinceLast
      /\ ended' = ended /\ returned' = returned /\ held' = held
  BY DEF SinkRecord, Write, sourceVars
<1>2. RunTypes /\ FlowTypes /\ SinkTypes /\ Coordinated /\ Levels /\ TodoAreMarked /\ RestoredIsMarked
      /\ FinalIsSuccess /\ WrittenExist /\ CommittedIsCovered
  BY DEF IInv
<1>3. /\ restoredID' = restoredID /\ mode' = mode /\ succeeded' = succeeded
      /\ pc' = pc /\ pending' = pending /\ todo' = todo /\ s \in Subtasks
  BY <1>1, KindsOfSubtasks DEF runVars, sinkVars
<1>4. Coordinated' /\ Grows /\ marker' = marker
  BY <1>1, <1>2, <1>3, CoordinatorRests DEF coordinator, disk
<1>5. RunTypes' /\ FinalIsSuccess' /\ TodoAreMarked' /\ RestoredIsMarked'
  BY <1>1, <1>2, <1>3, <1>4 DEF runVars, RunTypes, FinalIsSuccess, TodoAreMarked, RestoredIsMarked
<1>6. chan[<<u, s>>] # << >> /\ Head(chan[<<u, s>>]).kind # "barrier" /\ r \in Records
  BY <1>1, <1>3, HeadRecord
<1>7. PICK level \in [Subtasks -> IDs \cup {0}] : LeveledBy(level)
  BY <1>2 DEF Levels
<1>8. chan' \in Channels /\ Leveled(chan', ended, level)
  BY <1>1, <1>2, <1>3, <1>6, <1>7, LevelNat, TakeKeeps DEF FlowTypes, LeveledBy
<1>9. LeveledBy(level)'
  BY <1>1, <1>3, <1>7, <1>8 DEF LeveledBy, Leveled
<1>10. FlowTypes' /\ Levels'
  BY <1>1, <1>2, <1>7, <1>8, <1>9 DEF FlowTypes, Levels
<1>11. file \in [Records -> Nat]
  <2>1. CASE opened[s]
    BY <1>2, <2>1 DEF WrittenExist, staged, SinkTypes, Files
  <2>2. CASE ~opened[s]
    BY <2>2 DEF empty
  <2>. QED
    BY <2>1, <2>2
<1>. HIDE DEF file, r
<1>12. more \in [Records -> Nat] /\ more # NoFile
  <2>1. more \in [Records -> Nat]
    BY <1>6, <1>11
  <2>. QED
    BY <2>1, JobAssumption
<1>. HIDE DEF more
<1>13. SinkTypes'
  BY <1>1, <1>2, <1>3, <1>12 DEF SinkTypes, Files
<1>14. /\ staging'[s][epoch[s]] = more
       /\ \A x \in Sinks : \A f \in Epochs : x # s \/ f # epoch[s] => staging'[x][f] = staging[x][f]
       /\ epoch[s] \in Epochs /\ \A x \in Sinks : written[x] \subseteq Epochs /\ epoch[x] \in Epochs
       /\ \A x \in Sinks : x # s => opened'[x] = opened[x] /\ written'[x] = written[x]
       /\ written'[s] = written[s] \cup {epoch[s]}
  BY <1>1, <1>2 DEF SinkTypes
<1>15. WrittenExist'
  <2>1. ASSUME NEW x \in Sinks, opened'[x] PROVE staging'[x][epoch[x]] # NoFile
    <3>1. CASE x = s
      BY <1>12, <1>14, <3>1
    <3>2. CASE x # s
      BY <1>2, <1>14, <2>1, <3>2 DEF WrittenExist, staged
    <3>. QED
      BY <3>1, <3>2
  <2>2. ASSUME NEW x \in Sinks, NEW f \in written'[x]
        PROVE  staging'[x][f] # NoFile \/ committed[x][f] # NoFile
    <3>1. CASE x = s /\ f = epoch[s]
      BY <1>12, <1>14, <3>1
    <3>2. CASE ~(x = s /\ f = epoch[s])
      <4>1. f \in written[x] /\ f \in Epochs
        BY <1>14, <2>2, <3>2
      <4>2. staging[x][f] # NoFile \/ committed[x][f] # NoFile
        BY <1>2, <4>1 DEF WrittenExist, staged
      <4>. QED
        BY <1>14, <3>2, <4>1, <4>2
    <3>. QED
      BY <3>1, <3>2
  <2>3. \A x \in Sinks : /\ pc[x] = "restore" => written'[x] = {}
                         /\ pc[x] \in {"restore", "returned"} => ~opened'[x]
    BY <1>1, <1>2, <1>14 DEF WrittenExist
  <2>. QED
    BY <1>1, <1>2, <1>3, <2>1, <2>2, <2>3 DEF WrittenExist, staged
<1>16. CommittedIsCovered'
  BY <1>1, <1>2, <1>3, <1>4 DEF CommittedIsCovered
<1>. QED
  BY <1>4, <1>5, <1>10, <1>13, <1>15, <1>16 DEF IInv

LEMMA SinkBarrierKeeps ==
  ASSUME IInv, NEW s \in Sinks, NEW k \in IDs, SinkBarrier(s, k)
  PROVE  IInv'
<1>1. /\ pc[s] = "run" /\ atCut(s, k) /\ Acknowledged(k, s, epoch[s])
      /\ opened' = [opened EXCEPT ![s] = FALSE] /\ epoch' = [epoch EXCEPT ![s] = @ + 1]
      /\ firstEpoch' = firstEpoch /\ written' = written /\ staging' = staging /\ committed' = committed
      /\ chan' = taken(s, liveInputs(s))
      /\ pending' = [pending EXCEPT ![s] = @ \cup {k}] /\ pc' = [pc EXCEPT ![s] = "ask"]
      /\ todo' = todo /\ UNCHANGED runVars
      /\ position' = position /\ injected' = injected /\ sinceLast' = sinceLast
      /\ ended' = ended /\ returned' = returned /\ held' = held
  BY DEF SinkBarrier, Snapshot, sinkDisk, sourceVars
<1>2. RunTypes /\ FlowTypes /\ SinkTypes /\ Coordinated /\ Levels /\ TodoAreMarked /\ RestoredIsMarked
      /\ FinalIsSuccess /\ WrittenExist /\ CommittedIsCovered
  BY DEF IInv
<1>3. /\ restoredID' = restoredID /\ mode' = mode /\ succeeded' = succeeded
      /\ s \in Subtasks /\ restoredID \in Nat
  BY <1>1, <1>2, KindsOfSubtasks, Numbers DEF runVars, RunTypes
<1>4. PICK level \in [Subtasks -> IDs \cup {0}] : LeveledBy(level)
  BY <1>2 DEF Levels
<1>5. chan \in Channels /\ Leveled(chan, ended, level) /\ ended \in [Subtasks -> SUBSET Subtasks]
  BY <1>2, <1>4 DEF FlowTypes, LeveledBy
<1>6. level \in [Subtasks -> Nat] /\ k = level[s] + 1 /\ k > restoredID /\ epoch[s] = k
  <2>1. level \in [Subtasks -> Nat] /\ restoredID <= level[s] /\ epoch[s] = level[s] + 1
    BY <1>1, <1>3, <1>4, LevelNat DEF LeveledBy
  <2>2. k = level[s] + 1
    BY <1>1, <1>3, <1>5, <2>1, CutIsNext
  <2>. QED
    BY <1>3, <2>1, <2>2
<1>7. epoch[s] \in Snapshots /\ Restorable(k, s, epoch[s])
  BY <1>6, KindsOfSubtasks, Numbers DEF Snapshots, Restorable
<1>8. Coordinated' /\ Grows
  BY <1>1, <1>2, <1>3, <1>6, <1>7, AckKeeps
<1>9. chan' \in Channels /\ Leveled(chan', ended, [level EXCEPT ![s] = k])
  <2>1. \A u \in liveInputs(s) : headIs(u, s, "barrier")
    BY <1>1 DEF atCut
  <2>2. /\ taken(s, liveInputs(s)) \in Channels
        /\ Leveled(Broadcast(taken(s, liveInputs(s)), s, Bar(k)), ended, [level EXCEPT ![s] = k])
    BY <1>3, <1>5, <1>6, <2>1, BarrierKeeps, ZenonT(60)
  <2>3. \A e \in Edges : e[1] # s
    BY EdgeIs, KindsOfSubtasks
  <2>4. Broadcast(taken(s, liveInputs(s)), s, Bar(k)) = taken(s, liveInputs(s))
    BY <2>2, <2>3 DEF Broadcast, Channels
  <2>. QED
    BY <1>1, <2>2, <2>4
<1>10. /\ epoch'[s] = k + 1 /\ \A x \in Sinks : x # s => epoch'[x] = epoch[x]
       /\ pc'[s] = "ask" /\ \A x \in Sinks : x # s => pc'[x] = pc[x]
       /\ ~opened'[s] /\ \A x \in Sinks : x # s => opened'[x] = opened[x]
       /\ pending'[s] = pending[s] \cup {k} /\ \A x \in Sinks : x # s => pending'[x] = pending[x]
  BY <1>1, <1>2, <1>6 DEF SinkTypes
<1>11. Levels'
  <2>1. \A x \in Sources : injected'[x] = IF x = s THEN k ELSE injected[x]
    BY <1>1, KindsOfSubtasks
  <2>2. \A x \in Sinks : /\ x # s => epoch'[x] = epoch[x] /\ pc'[x] = pc[x]
                         /\ x = s => epoch'[x] = k + 1 /\ pc'[x] # "restore"
    BY <1>10
  <2>. QED
    BY <1>1, <1>3, <1>4, <1>6, <1>9, <2>1, <2>2, RaisesLevel, ZenonT(60)
<1>12. FlowTypes'
  BY <1>1, <1>2, <1>9 DEF FlowTypes
<1>13. RunTypes' /\ FinalIsSuccess' /\ TodoAreMarked' /\ RestoredIsMarked'
  <2>1. \A j \in IDs : marker[j] => marker'[j]
    BY <1>8 DEF Grows
  <2>. QED
    BY <1>1, <1>2, <1>3, <2>1 DEF runVars, RunTypes, FinalIsSuccess, TodoAreMarked, RestoredIsMarked, SinkTypes
<1>14. SinkTypes'
  <2>1. epoch' \in [Sinks -> Epochs]
    <3>1. epoch \in [Sinks -> Epochs] /\ epoch[s] + 1 \in Epochs
      BY <1>2, <1>6, Numbers DEF SinkTypes
    <3>. QED
      BY <1>1, <3>1
  <2>2. pending' \in [Sinks -> SUBSET IDs] /\ \A x \in Sinks : todo'[x] \subseteq pending'[x]
    BY <1>1, <1>2, <1>10 DEF SinkTypes
  <2>3. /\ pc' \in [Sinks -> {"restore", "run", "ask", "notify", "await", "last", "returned"}]
        /\ opened' \in [Sinks -> BOOLEAN]
    BY <1>1, <1>2 DEF SinkTypes
  <2>. QED
    BY <1>1, <1>2, <2>1, <2>2, <2>3 DEF SinkTypes
<1>15. WrittenExist'
  <2>1. \A x \in pending'[s] : x < epoch'[s]
    <3>1. \A x \in pending[s] : x < k /\ x \in Nat
      BY <1>2, <1>6, Numbers DEF WrittenExist, SinkTypes
    <3>2. k \in Nat
      BY Numbers
    <3>. QED
      BY <1>10, <3>1, <3>2
  <2>2. \A x \in Sinks : opened'[x] => x # s /\ opened[x]
    BY <1>10
  <2>. QED
    BY <1>1, <1>2, <1>3, <1>10, <2>1, <2>2 DEF WrittenExist, staged
<1>16. CommittedIsCovered'
  BY <1>1, <1>2, <1>3, <1>8 DEF CommittedIsCovered, Grows
<1>. QED
  BY <1>8, <1>11, <1>12, <1>13, <1>14, <1>15, <1>16 DEF IInv

(* What a sink is told is complete is marked. *)
LEMMA CompletedAreMarked ==
  ASSUME IInv, NEW s \in Sinks
  PROVE  /\ completed(pending[s]) \subseteq pending[s] /\ completed(pending[s]) \subseteq IDs
         /\ \A k \in completed(pending[s]) : marker[k]
<1>1. pending[s] \subseteq IDs
  BY DEF IInv, SinkTypes
<1>. QED
  BY <1>1 DEF completed, IInv, Coordinated, CompleteAreMarked

(* A sink asks, waits or is told; its files stay. *)
LEMMA TodoKeeps ==
  ASSUME IInv, NEW s \in Sinks, pc[s] \notin {"restore", "returned"},
         UNCHANGED <<sourceVars, flowVars, held, pending, sink, runVars>>,
         Coordinated', Grows,
         NEW where \in {"ask", "notify", "await", "last", "run"}, pc' = [pc EXCEPT ![s] = where],
         NEW what \in {{}, completed(pending[s])}, todo' = [todo EXCEPT ![s] = what]
  PROVE  IInv'
<1>1. /\ UNCHANGED <<sourceVars, chan, ended, held>> /\ returned' = returned /\ pending' = pending
      /\ epoch' = epoch /\ firstEpoch' = firstEpoch /\ opened' = opened /\ written' = written
      /\ staging' = staging /\ committed' = committed
      /\ mode' = mode /\ failed' = failed /\ restoredID' = restoredID
      /\ failures' = failures /\ lost' = lost /\ succeeded' = succeeded
  BY DEF flowVars, sink, sinkMemory, sinkDisk, runVars
<1>2. RunTypes /\ FlowTypes /\ SinkTypes /\ TodoAreMarked /\ RestoredIsMarked
      /\ FinalIsSuccess /\ WrittenExist /\ CommittedIsCovered
  BY DEF IInv
<1>3. /\ what \subseteq pending[s] /\ what \subseteq IDs /\ \A k \in what : marker[k]
  BY CompletedAreMarked
<1>4. /\ pc'[s] = where /\ \A x \in Sinks : x # s => pc'[x] = pc[x]
      /\ todo'[s] = what /\ \A x \in Sinks : x # s => todo'[x] = todo[x]
  BY <1>2 DEF SinkTypes
<1>5. FlowTypes' /\ Levels'
  <2>1. \A x \in Sinks : /\ pc'[x] = "restore" => pc[x] = "restore"
                         /\ pc'[x] \notin {"restore", "returned"} =>
                              \/ epoch'[x] = epoch[x] /\ pc[x] \notin {"restore", "returned"}
                              \/ epoch'[x] = restoredID + 1 /\ pc[x] = "restore"
    BY <1>1, <1>4
  <2>. QED
    BY <1>1, <1>2, <2>1, FlowRests DEF FlowTypes
<1>6. RunTypes' /\ FinalIsSuccess' /\ RestoredIsMarked'
  BY <1>1, <1>2 DEF RunTypes, FinalIsSuccess, RestoredIsMarked, Grows
<1>7. SinkTypes'
  BY <1>1, <1>2, <1>3, <1>4 DEF SinkTypes
<1>8. TodoAreMarked'
  BY <1>2, <1>3, <1>4 DEF TodoAreMarked, SinkTypes, Grows
<1>9. WrittenExist'
  <2>1. s \notin returned /\ mode # "final"
    BY <1>2 DEF WrittenExist
  <2>. QED
    BY <1>1, <1>2, <1>4, <2>1 DEF WrittenExist, staged
<1>10. CommittedIsCovered'
  BY <1>1, <1>2 DEF CommittedIsCovered, Grows
<1>. QED
  BY <1>5, <1>6, <1>7, <1>8, <1>9, <1>10 DEF IInv

LEMMA SinkAsksKeeps ==
  ASSUME IInv, NEW s \in Sinks, SinkAsks(s)
  PROVE  IInv'
<1>1. /\ pc[s] = "ask" /\ todo' = [todo EXCEPT ![s] = completed(pending[s])]
      /\ pc' = [pc EXCEPT ![s] = "notify"] /\ UNCHANGED coordinator
      /\ UNCHANGED <<sourceVars, flowVars, held, pending, sink, runVars>> /\ restoredID' = restoredID
  BY DEF SinkAsks, runVars
<1>2. Coordinated' /\ Grows
  BY <1>1, CoordinatorRests DEF IInv
<1>. QED
  BY <1>1, <1>2, TodoKeeps

LEMMA SinkEndKeeps ==
  ASSUME IInv, NEW s \in Sinks, SinkEnd(s)
  PROVE  IInv'
<1>. DEFINE where == IF waiter'[s] = "returned" THEN "last" ELSE "await"
            what == IF waiter'[s] = "returned" THEN completed(pending[s]) ELSE {}
<1>1. /\ pc[s] \in {"run", "await"}
      /\ AwaitBegins(s) \/ AwaitChecks(s, pending[s]) \/ AwaitCancelled(s)
      /\ pc' = [pc EXCEPT ![s] = where] /\ todo' = [todo EXCEPT ![s] = what]
      /\ UNCHANGED <<sourceVars, flowVars, held, pending, sink, runVars>> /\ restoredID' = restoredID
  BY DEF SinkEnd, runVars
<1>2. Coordinated' /\ Grows
  BY <1>1, AwaitKeeps DEF IInv
<1>3. where \in {"ask", "notify", "await", "last", "run"} /\ what \in {{}, completed(pending[s])}
  OBVIOUS
<1>. HIDE DEF where, what
<1>. QED
  BY <1>1, <1>2, <1>3, TodoKeeps

LEMMA SinkNotifyKeeps ==
  ASSUME IInv, NEW s \in Sinks, SinkNotify(s)
  PROVE  IInv'
<1>. DEFINE k == CHOOSE j \in todo[s] : \A i \in todo[s] : j <= i
<1>1. /\ mode = "running" /\ pc[s] \in {"notify", "last"} /\ todo[s] # {}
      /\ todo' = [todo EXCEPT ![s] = @ \ {k}] /\ pending' = [pending EXCEPT ![s] = @ \ {k}]
      /\ \/ Rename(s, k) /\ UNCHANGED sinkMemory /\ lost' = lost
         \/ lost < MaxLostNotifications /\ lost' = lost + 1 /\ UNCHANGED sink
      /\ UNCHANGED coordinator /\ UNCHANGED <<sourceVars, chan, ended, held>>
      /\ returned' = returned /\ pc' = pc
      /\ mode' = mode /\ failed' = failed /\ restoredID' = restoredID
      /\ failures' = failures /\ succeeded' = succeeded
  BY DEF SinkNotify, NotifyCheckpointComplete, flowVars, up
<1>2. RunTypes /\ FlowTypes /\ SinkTypes /\ Coordinated /\ TodoAreMarked /\ RestoredIsMarked
      /\ FinalIsSuccess /\ WrittenExist /\ CommittedIsCovered
  BY DEF IInv
<1>3. k \in todo[s]
  <2>1. todo[s] \subseteq Nat
    BY <1>2, Numbers DEF SinkTypes
  <2>. QED
    BY <1>1, <2>1, LeastNat
<1>. HIDE DEF k
<1>4. k \in IDs /\ k \in Epochs /\ k >= k /\ marker[k] /\ k < epoch[s] /\ k # epoch[s]
  <2>1. k \in IDs /\ k \in pending[s] /\ marker[k]
    BY <1>2, <1>3 DEF SinkTypes, TodoAreMarked
  <2>2. k < epoch[s] /\ epoch[s] \in Nat
    BY <1>2, <2>1, Numbers DEF WrittenExist, SinkTypes
  <2>. QED
    BY <2>1, <2>2, Numbers
<1>5. Coordinated' /\ Grows /\ marker' = marker
  BY <1>1, <1>2, CoordinatorRests DEF coordinator, disk
<1>6. /\ pending' \in [Sinks -> SUBSET IDs] /\ todo' \in [Sinks -> SUBSET IDs]
      /\ \A x \in Sinks : /\ todo'[x] \subseteq pending'[x] /\ pending'[x] \subseteq pending[x]
                          /\ todo'[x] \subseteq todo[x]
  BY <1>1, <1>2 DEF SinkTypes
<1>7. RunTypes' /\ FinalIsSuccess' /\ RestoredIsMarked'
  <2>1. lost' \in 0..MaxLostNotifications
    <3>1. lost \in 0..MaxLostNotifications /\ MaxLostNotifications \in Nat
      BY <1>2, JobAssumption DEF RunTypes
    <3>2. lost' = lost \/ (lost < MaxLostNotifications /\ lost' = lost + 1)
      BY <1>1
    <3>. QED
      BY <3>1, <3>2
  <2>. QED
    BY <1>1, <1>2, <1>5, <2>1 DEF RunTypes, FinalIsSuccess, RestoredIsMarked
<1>8. TodoAreMarked'
  BY <1>2, <1>5, <1>6 DEF TodoAreMarked
<1>9. epoch' = epoch
  BY <1>1 DEF sink, sinkMemory
<1>10. FlowTypes' /\ Levels'
  BY <1>1, <1>2, <1>9, FlowRests DEF FlowTypes
<1>11. SinkTypes' /\ WrittenExist' /\ CommittedIsCovered'
  <2>1. CASE Rename(s, k) /\ UNCHANGED sinkMemory
    BY <1>1, <1>4, <1>5, <1>6, <2>1, RenameKeeps
  <2>2. CASE UNCHANGED sink
    <3>1. /\ epoch' = epoch /\ firstEpoch' = firstEpoch /\ opened' = opened /\ written' = written
          /\ staging' = staging /\ committed' = committed
      BY <2>2 DEF sink, sinkMemory, sinkDisk
    <3>2. SinkTypes'
      BY <1>1, <1>2, <1>6, <3>1 DEF SinkTypes
    <3>3. WrittenExist'
      BY <1>1, <1>2, <1>6, <3>1 DEF WrittenExist, staged
    <3>. QED
      BY <1>1, <1>2, <1>5, <3>1, <3>2, <3>3 DEF CommittedIsCovered
  <2>. QED
    BY <1>1, <2>1, <2>2
<1>. QED
  BY <1>5, <1>7, <1>8, <1>10, <1>11 DEF IInv

(* A sink closes and returns, with an error or without one. *)
LEMMA CloseKeeps ==
  ASSUME IInv, NEW s \in Sinks, Close(s), pc' = [pc EXCEPT ![s] = "returned"],
         returned' = returned \cup {s}, UNCHANGED <<sourceVars, chan, ended, held, pending, todo>>,
         Coordinated', Grows, RunTypes',
         restoredID' = restoredID, mode' = mode, succeeded' = succeeded
  PROVE  IInv'
<1>1. /\ opened' = [opened EXCEPT ![s] = FALSE] /\ pending' = pending /\ todo' = todo
      /\ epoch' = epoch /\ firstEpoch' = firstEpoch /\ written' = written
      /\ staging' = staging /\ committed' = committed /\ s \in Subtasks
  BY KindsOfSubtasks DEF Close, sinkDisk
<1>2. RunTypes /\ FlowTypes /\ SinkTypes /\ TodoAreMarked /\ RestoredIsMarked
      /\ FinalIsSuccess /\ WrittenExist /\ CommittedIsCovered
  BY DEF IInv
<1>3. /\ pc'[s] = "returned" /\ \A x \in Sinks : x # s => pc'[x] = pc[x]
      /\ ~opened'[s] /\ \A x \in Sinks : x # s => opened'[x] = opened[x]
  BY <1>1, <1>2 DEF SinkTypes
<1>4. FlowTypes' /\ Levels'
  <2>1. \A x \in Sinks : /\ pc'[x] = "restore" => pc[x] = "restore"
                         /\ pc'[x] \notin {"restore", "returned"} =>
                              \/ epoch'[x] = epoch[x] /\ pc[x] \notin {"restore", "returned"}
                              \/ epoch'[x] = restoredID + 1 /\ pc[x] = "restore"
    BY <1>1, <1>3
  <2>2. returned' \subseteq Subtasks
    BY <1>1, <1>2 DEF FlowTypes
  <2>. QED
    BY <2>1, <2>2, FlowRests
<1>5. SinkTypes'
  BY <1>1, <1>2 DEF SinkTypes
<1>6. TodoAreMarked' /\ RestoredIsMarked' /\ FinalIsSuccess'
  BY <1>1, <1>2 DEF TodoAreMarked, RestoredIsMarked, FinalIsSuccess, Grows, SinkTypes, RunTypes
<1>7. WrittenExist'
  BY <1>1, <1>2, <1>3 DEF WrittenExist, staged
<1>8. CommittedIsCovered'
  BY <1>1, <1>2 DEF CommittedIsCovered, Grows
<1>. QED
  BY <1>4, <1>5, <1>6, <1>7, <1>8 DEF IInv

LEMMA SinkNotifiedKeeps ==
  ASSUME IInv, NEW s \in Sinks, SinkNotified(s)
  PROVE  IInv'
<1>1. /\ todo[s] = {} /\ UNCHANGED coordinator /\ UNCHANGED <<sourceVars, chan, ended, held, pending, todo>>
      /\ UNCHANGED runVars
      /\ restoredID' = restoredID /\ mode' = mode /\ succeeded' = succeeded
      /\ \/ pc[s] = "notify" /\ pc' = [pc EXCEPT ![s] = "run"] /\ UNCHANGED <<returned, sink>>
         \/ /\ pc[s] = "last" /\ Close(s) /\ pc' = [pc EXCEPT ![s] = "returned"]
            /\ returned' = returned \cup {s}
  BY DEF SinkNotified, runVars
<1>2. Coordinated' /\ Grows
  BY <1>1, CoordinatorRests DEF IInv
<1>3. RunTypes'
  BY <1>1 DEF IInv, RunTypes, runVars
<1>4. CASE pc[s] = "notify" /\ pc' = [pc EXCEPT ![s] = "run"] /\ UNCHANGED <<returned, sink>>
  <2>1. todo' = [todo EXCEPT ![s] = {}]
    BY <1>1 DEF IInv, SinkTypes
  <2>2. UNCHANGED <<sourceVars, flowVars, held, pending, sink, runVars>>
    BY <1>1, <1>4 DEF flowVars
  <2>. QED
    BY <1>2, <1>4, <2>1, <2>2, TodoKeeps
<1>5. CASE /\ pc[s] = "last" /\ Close(s) /\ pc' = [pc EXCEPT ![s] = "returned"]
           /\ returned' = returned \cup {s}
  BY <1>1, <1>2, <1>3, <1>5, CloseKeeps
<1>. QED
  BY <1>1, <1>4, <1>5

-----------------------------------------------------------------------------
(* The end of a run. *)

(* What a failing subtask does to the coordinator is one of the things a   *)
(* working one may do.                                                     *)
LEMMA FailsAtKeeps ==
  ASSUME IInv, NEW s \in Subtasks, FailsAt(s), restoredID' = restoredID
  PROVE  Coordinated' /\ Grows
<1>1. FlowTypes /\ Levels /\ Coordinated /\ restoredID \in Nat
  BY Numbers DEF IInv, RunTypes
<1>2. PICK level \in [Subtasks -> IDs \cup {0}] : LeveledBy(level)
  BY <1>1 DEF Levels
<1>3. /\ level \in [Subtasks -> Nat] /\ restoredID <= level[s] /\ level[s] + 1 > restoredID
      /\ chan \in Channels /\ Leveled(chan, ended, level)
  <2>1. level \in [Subtasks -> Nat] /\ restoredID <= level[s]
    BY <1>2, LevelNat DEF LeveledBy
  <2>2. chan \in Channels /\ Leveled(chan, ended, level)
    BY <1>1, <1>2 DEF FlowTypes, LeveledBy
  <2>. QED
    BY <1>1, <2>1, <2>2
<1>4. CASE UNCHANGED coordinator
  BY <1>1, <1>4, CoordinatorRests
<1>5. CASE s \in Sources /\ barrierDue(s) /\ AcknowledgeFails(injected[s] + 1, s, position[s])
  <2>. DEFINE k == injected[s] + 1
  <2>1. k \in IDs
    <3>1. injected[s] < maxBarriers(s) /\ maxBarriers(s) \in IDs \cup {0} /\ injected[s] \in IDs \cup {0}
      BY <1>1, <1>5, JobAssumption DEF barrierDue, FlowTypes
    <3>. QED
      BY <3>1, NextNumber
  <2>2. k > restoredID
    BY <1>2, <1>3, <1>5 DEF LeveledBy
  <2>3. position[s] \in Snapshots /\ Restorable(k, s, position[s])
    BY <1>1, <1>5, KindsOfSubtasks, JobAssumption DEF FlowTypes, Snapshots, Restorable
  <2>4. AcknowledgeFails(k, s, position[s])
    BY <1>5
  <2>. HIDE DEF k
  <2>. QED
    BY <1>1, <2>1, <2>2, <2>3, <2>4, AckKeeps
<1>6. CASE s \in Sources /\ FinishedFails(s, position[s])
  <2>1. position[s] \in 0..Count[s]
    BY <1>1, <1>6, JobAssumption DEF FlowTypes
  <2>. QED
    BY <1>1, <1>6, <2>1, FinishedKeeps
<1>7. ASSUME s \in Operators, NEW k \in IDs, atCut(s, k), Fail(k, s) \/ AcknowledgeFails(k, s, held[s])
      PROVE  Coordinated' /\ Grows
  <2>1. k = level[s] + 1
    BY <1>3, <1>7, CutIsNext
  <2>2. held[s] \in Snapshots /\ Restorable(k, s, held[s])
    BY <1>1, <1>7, KindsOfSubtasks DEF FlowTypes, Snapshots, Restorable
  <2>. QED
    BY <1>1, <1>3, <1>7, <2>1, <2>2, AckKeeps
<1>8. ASSUME s \in Sinks, pc[s] = "run", NEW k \in IDs, atCut(s, k),
             Fail(k, s) \/ AcknowledgeFails(k, s, epoch[s])
      PROVE  Coordinated' /\ Grows
  <2>1. k = level[s] + 1
    BY <1>3, <1>8, CutIsNext
  <2>2. epoch[s] = k
    BY <1>2, <1>8, <2>1 DEF LeveledBy
  <2>3. epoch[s] \in Snapshots /\ Restorable(k, s, epoch[s])
    BY <1>8, <2>2, KindsOfSubtasks, Numbers DEF Snapshots, Restorable
  <2>. QED
    BY <1>1, <1>3, <1>8, <2>1, <2>3, AckKeeps
<1>. QED
  BY <1>4, <1>5, <1>6, <1>7, <1>8 DEF FailsAt

(* The state machine of the sinks and all files stay. *)
LEMMA SinksRest ==
  ASSUME IInv, UNCHANGED <<sinkVars, sink>>, Grows, restoredID' = restoredID,
         succeeded => succeeded', mode' = "final" => mode = "final",
         \A s \in Sinks : s \in returned' => s \in returned
  PROVE  /\ SinkTypes' /\ TodoAreMarked' /\ RestoredIsMarked' /\ FinalIsSuccess'
         /\ WrittenExist' /\ CommittedIsCovered'
<1>1. /\ pc' = pc /\ pending' = pending /\ todo' = todo
      /\ epoch' = epoch /\ firstEpoch' = firstEpoch /\ opened' = opened /\ written' = written
      /\ staging' = staging /\ committed' = committed
  BY DEF sinkVars, sink, sinkMemory, sinkDisk
<1>2. RunTypes /\ SinkTypes /\ TodoAreMarked /\ RestoredIsMarked /\ FinalIsSuccess
      /\ WrittenExist /\ CommittedIsCovered
  BY DEF IInv
<1>3. SinkTypes'
  BY <1>1, <1>2 DEF SinkTypes
<1>4. TodoAreMarked' /\ RestoredIsMarked'
  BY <1>1, <1>2 DEF TodoAreMarked, RestoredIsMarked, Grows, SinkTypes, RunTypes
<1>5. FinalIsSuccess'
  BY <1>2 DEF FinalIsSuccess
<1>6. WrittenExist'
  BY <1>1, <1>2 DEF WrittenExist, staged
<1>7. CommittedIsCovered'
  BY <1>1, <1>2 DEF CommittedIsCovered, Grows
<1>. QED
  BY <1>3, <1>4, <1>5, <1>6, <1>7

LEMMA SubtaskFailsKeeps ==
  ASSUME IInv, NEW s \in Subtasks, SubtaskFails(s)
  PROVE  IInv'
<1>1. /\ FailsAt(s) /\ failed' = TRUE /\ returned' = returned \cup {s}
      /\ failures < MaxFailures /\ failures' = failures + 1
      /\ UNCHANGED <<sourceVars, chan, ended, held, pending, todo>>
      /\ mode' = mode /\ restoredID' = restoredID /\ lost' = lost /\ succeeded' = succeeded
      /\ s \in Sinks => Close(s) /\ pc' = [pc EXCEPT ![s] = "returned"]
      /\ s \notin Sinks => UNCHANGED <<sink, pc>>
  BY DEF SubtaskFails, FailuresLeft
<1>2. Coordinated' /\ Grows
  BY <1>1, FailsAtKeeps
<1>3. RunTypes'
  <2>1. RunTypes /\ failures \in 0..MaxFailures /\ MaxFailures \in Nat
    BY JobAssumption DEF IInv, RunTypes
  <2>2. failures' \in 0..MaxFailures
    BY <1>1, <2>1
  <2>. QED
    BY <1>1, <2>1, <2>2 DEF RunTypes
<1>4. CASE s \in Sinks
  BY <1>1, <1>2, <1>3, <1>4, CloseKeeps
<1>5. CASE s \notin Sinks
  <2>1. UNCHANGED <<sinkVars, sink>> /\ pc' = pc /\ epoch' = epoch
    BY <1>1, <1>5 DEF sinkVars, sink, sinkMemory
  <2>2. /\ SinkTypes' /\ TodoAreMarked' /\ RestoredIsMarked' /\ FinalIsSuccess'
        /\ WrittenExist' /\ CommittedIsCovered'
    BY <1>1, <1>2, <1>5, <2>1, SinksRest
  <2>3. returned' \subseteq Subtasks
    BY <1>1 DEF IInv, FlowTypes
  <2>4. FlowTypes' /\ Levels'
    BY <1>1, <2>1, <2>3, FlowRests
  <2>. QED
    BY <1>2, <1>3, <2>2, <2>4 DEF IInv
<1>. QED
  BY <1>4, <1>5

(* The executor sees the end of a run; nothing but its mode changes. *)
LEMMA ModeKeeps ==
  ASSUME IInv, UNCHANGED <<coordinator, sourceVars, flowVars, held, sinkVars, sink,
                           failed, restoredID, failures, lost>>,
         mode' \in {"down", "done"} /\ succeeded' = succeeded
  PROVE  IInv'
<1>1. /\ UNCHANGED coordinator /\ UNCHANGED <<sourceVars, chan, ended, held>> /\ returned' = returned
      /\ UNCHANGED <<sinkVars, sink>> /\ pc' = pc /\ epoch' = epoch
      /\ restoredID' = restoredID /\ failed' = failed /\ failures' = failures /\ lost' = lost
  BY DEF flowVars, sinkVars, sink, sinkMemory
<1>2. Coordinated' /\ Grows
  BY <1>1, CoordinatorRests DEF IInv
<1>3. /\ SinkTypes' /\ TodoAreMarked' /\ RestoredIsMarked' /\ FinalIsSuccess'
      /\ WrittenExist' /\ CommittedIsCovered'
  BY <1>1, <1>2, SinksRest
<1>4. FlowTypes' /\ Levels'
  BY <1>1, FlowRests DEF IInv, FlowTypes
<1>5. RunTypes'
  BY <1>1 DEF IInv, RunTypes
<1>. QED
  BY <1>2, <1>3, <1>4, <1>5 DEF IInv

LEMMA TornDownKeeps ==
  ASSUME IInv, TornDown
  PROVE  IInv'
BY ModeKeeps DEF TornDown

LEMMA JobSucceedsKeeps ==
  ASSUME IInv, JobSucceeds
  PROVE  IInv'
BY ModeKeeps DEF JobSucceeds

LEMMA AllReturnedKeeps ==
  ASSUME IInv, AllReturned
  PROVE  IInv'
<1>1. /\ returned = Subtasks /\ mode' = "final" /\ succeeded' = TRUE
      /\ UNCHANGED coordinator /\ UNCHANGED <<sourceVars, chan, ended, held>> /\ returned' = returned
      /\ pc' = pc /\ pending' = pending /\ todo' = todo
      /\ epoch' = epoch /\ firstEpoch' = firstEpoch /\ opened' = opened /\ written' = written
      /\ staging' = staging /\ committed' = committed
      /\ restoredID' = restoredID /\ failed' = failed /\ failures' = failures /\ lost' = lost
  BY DEF AllReturned, flowVars, sinkVars, sink, sinkMemory, sinkDisk
<1>2. Coordinated' /\ Grows
  BY <1>1, CoordinatorRests DEF IInv
<1>3. FlowTypes' /\ Levels'
  BY <1>1, FlowRests DEF IInv, FlowTypes
<1>4. RunTypes' /\ SinkTypes'
  BY <1>1 DEF IInv, RunTypes, SinkTypes
<1>5. TodoAreMarked' /\ RestoredIsMarked' /\ FinalIsSuccess' /\ CommittedIsCovered'
  BY <1>1, <1>2 DEF IInv, TodoAreMarked, RestoredIsMarked, FinalIsSuccess, CommittedIsCovered,
     Grows, SinkTypes, RunTypes
<1>6. WrittenExist'
  BY <1>1, KindsOfSubtasks DEF IInv, WrittenExist, staged
<1>. QED
  BY <1>2, <1>3, <1>4, <1>5, <1>6 DEF IInv

(* Only after success, when no file is open, is what is left committed. *)
LEMMA CommitFinalKeeps ==
  ASSUME IInv, NEW s \in Sinks, CommitFinal(s)
  PROVE  IInv'
<1>. DEFINE e == CHOOSE x \in leftStaged(s) : \A y \in leftStaged(s) : x <= y
<1>1. /\ mode = "final" /\ leftStaged(s) # {} /\ Rename(s, e) /\ UNCHANGED sinkMemory
      /\ UNCHANGED coordinator /\ UNCHANGED <<sourceVars, chan, ended, held>> /\ returned' = returned
      /\ pc' = pc /\ pending' = pending /\ todo' = todo /\ UNCHANGED runVars
  BY DEF CommitFinal, CommitFinalEpoch, flowVars, sinkVars
<1>2. /\ mode' = mode /\ failed' = failed /\ restoredID' = restoredID
      /\ failures' = failures /\ lost' = lost /\ succeeded' = succeeded
      /\ epoch' = epoch /\ marker' = marker
  BY <1>1 DEF runVars, sinkMemory, coordinator, disk
<1>3. e \in Epochs
  <2>1. leftStaged(s) \subseteq Epochs
    <3>1. firstEpoch[s] \in Epochs /\ epoch[s] \in Epochs
      BY DEF IInv, SinkTypes
    <3>2. firstEpoch[s]..epoch[s] \subseteq Epochs
      BY <3>1, Numbers
    <3>. QED
      BY <3>2 DEF leftStaged
  <2>2. leftStaged(s) \subseteq Nat
    BY <2>1, Numbers
  <2>3. e \in leftStaged(s)
    BY <1>1, <2>2, LeastNat
  <2>. QED
    BY <2>1, <2>3
<1>. HIDE DEF e
<1>4. Coordinated' /\ Grows
  BY <1>1, <1>2, CoordinatorRests DEF IInv
<1>5. FlowTypes' /\ Levels'
  BY <1>1, <1>2, FlowRests DEF IInv, FlowTypes
<1>6. RunTypes' /\ TodoAreMarked' /\ RestoredIsMarked' /\ FinalIsSuccess'
  BY <1>1, <1>2 DEF IInv, RunTypes, TodoAreMarked, RestoredIsMarked, FinalIsSuccess
<1>7. SinkTypes' /\ WrittenExist' /\ CommittedIsCovered'
  <2>1. ~opened[s] /\ succeeded
    BY <1>1 DEF IInv, WrittenExist, FinalIsSuccess
  <2>2. /\ pending' \in [Sinks -> SUBSET IDs] /\ todo' \in [Sinks -> SUBSET IDs]
        /\ \A x \in Sinks : todo'[x] \subseteq pending'[x] /\ pending'[x] \subseteq pending[x]
    BY <1>1 DEF IInv, SinkTypes
  <2>. QED
    BY <1>1, <1>2, <1>3, <2>1, <2>2, RenameKeeps
<1>. QED
  BY <1>4, <1>5, <1>6, <1>7 DEF IInv

(* A torn file is still a file. *)
LEMMA CrashKeeps ==
  ASSUME IInv, Crash
  PROVE  IInv'
<1>1. PICK torn \in SUBSET {s \in Sinks : opened[s]} :
        staging' = [s \in Sinks |-> IF s \in torn THEN [staging[s] EXCEPT ![epoch[s]] = empty]
                                    ELSE staging[s]]
  BY DEF Crash
<1>2. /\ mode' = "down" /\ failures < MaxFailures /\ failures' = failures + 1
      /\ UNCHANGED coordinator /\ UNCHANGED <<sourceVars, chan, ended, held>> /\ returned' = returned
      /\ pc' = pc /\ pending' = pending /\ todo' = todo
      /\ epoch' = epoch /\ firstEpoch' = firstEpoch /\ opened' = opened /\ written' = written
      /\ committed' = committed
      /\ restoredID' = restoredID /\ failed' = failed /\ lost' = lost /\ succeeded' = succeeded
  BY DEF Crash, FailuresLeft, flowVars, sinkVars, sinkMemory
<1>3. RunTypes /\ SinkTypes /\ TodoAreMarked /\ RestoredIsMarked /\ WrittenExist /\ CommittedIsCovered
  BY DEF IInv
<1>4. Coordinated' /\ Grows
  BY <1>2, CoordinatorRests DEF IInv
<1>5. FlowTypes' /\ Levels'
  BY <1>2, FlowRests DEF IInv, FlowTypes
<1>6. RunTypes' /\ FinalIsSuccess' /\ RestoredIsMarked' /\ TodoAreMarked'
  <2>1. failures \in 0..MaxFailures /\ MaxFailures \in Nat
    BY <1>3, JobAssumption DEF RunTypes
  <2>2. failures' \in 0..MaxFailures
    BY <1>2, <2>1
  <2>. QED
    BY <1>2, <1>3, <1>4, <2>2 DEF RunTypes, FinalIsSuccess, RestoredIsMarked, TodoAreMarked,
       Grows, SinkTypes
<1>7. empty \in Files /\ empty # NoFile
  BY JobAssumption DEF empty, Files
<1>8. /\ staging' \in [Sinks -> [Epochs -> Files]]
      /\ \A s \in Sinks : \A e \in Epochs : staging[s][e] # NoFile => staging'[s][e] # NoFile
  BY <1>1, <1>3, <1>7 DEF SinkTypes
<1>9. SinkTypes'
  BY <1>2, <1>3, <1>8 DEF SinkTypes
<1>10. WrittenExist'
  <2>1. \A s \in Sinks : epoch[s] \in Epochs /\ written[s] \subseteq Epochs
    BY <1>3 DEF SinkTypes
  <2>. QED
    BY <1>2, <1>3, <1>8, <2>1 DEF WrittenExist, staged
<1>11. CommittedIsCovered'
  BY <1>2, <1>3, <1>4 DEF CommittedIsCovered, Grows
<1>. QED
  BY <1>4, <1>5, <1>6, <1>9, <1>10, <1>11 DEF IInv

(* The checkpoint a job resumes from. *)
LEMMA LatestIs ==
  ASSUME IInv
  PROVE  /\ Latest \in IDs \cup {0}
         /\ Latest # 0 => marker[Latest]
         /\ \A k \in IDs : marker[k] => k <= Latest
<1>1. CASE \E k \in IDs : marker[k]
  <2>. DEFINE S == {k \in IDs : marker[k]}
  <2>1. S \in SUBSET Int /\ S # {} /\ Cardinality(IDs) \in Int /\ \A x \in S : x <= Cardinality(IDs)
    BY <1>1, Numbers
  <2>2. Max(S) \in S /\ \A y \in S : y <= Max(S)
    BY <2>1, MaxIsGreatest
  <2>3. Latest = Max(S)
    BY <1>1 DEF Latest
  <2>. QED
    BY <2>2, <2>3
<1>2. CASE ~ \E k \in IDs : marker[k]
  BY <1>2 DEF Latest
<1>. QED
  BY <1>1, <1>2

(* A run that starts has empty channels and every subtask at one level. *)
LEMMA StartsLevel ==
  ASSUME NEW c, NEW over, NEW n \in Nat, c = [e \in Edges |-> << >>]
  PROVE  c \in Channels /\ Leveled(c, over, [s \in Subtasks |-> n])
<1>1. c \in Channels
  BY DEF Channels
<1>2. Between(<< >>, n, n)
  BY DEF Between
<1>. QED
  BY <1>1, <1>2, EdgeIs DEF Leveled

LEMMA NoFileIsSnapshot == NoFile \in Snapshots
BY DEF Snapshots

LEMMA RestartKeeps ==
  ASSUME IInv, Restart
  PROVE  IInv'
<1>0. PICK n : n = Latest
  OBVIOUS
<1>1. /\ mode' = "running" /\ failed' = FALSE /\ restoredID' = n
      /\ status' = [k \in IDs |-> "unknown"] /\ acked' = [k \in IDs |-> {}]
      /\ done' = [s \in Subtasks |-> NoFile] /\ waiter' = [s \in Sinks |-> "no"]
      /\ files' = files /\ marker' = marker
  BY <1>0 DEF Restart, fresh, disk
<1>2. /\ position' = [s \in Sources |-> IF n = 0 THEN 0 ELSE files[n][s]]
      /\ injected' = [s \in Sources |-> n] /\ sinceLast' = [s \in Sources |-> 0]
      /\ chan' = [e \in Edges |-> << >>] /\ ended' = [s \in Subtasks |-> {}] /\ returned' = {}
      /\ held' = [o \in Operators |-> IF n = 0 THEN {} ELSE files[n][o]]
  BY <1>0 DEF Restart
<1>3. /\ pc' = [s \in Sinks |-> "restore"] /\ pending' = [s \in Sinks |-> {}]
      /\ todo' = [s \in Sinks |-> {}]
      /\ epoch' = [s \in Sinks |-> 1] /\ firstEpoch' = [s \in Sinks |-> 1]
      /\ opened' = [s \in Sinks |-> FALSE] /\ written' = [s \in Sinks |-> {}]
      /\ staging' = staging /\ committed' = committed
      /\ failures' = failures /\ lost' = lost /\ succeeded' = succeeded
  BY DEF Restart, newSink, sinkDisk
<1>4. RunTypes /\ FlowTypes /\ SinkTypes /\ Coordinated /\ CommittedIsCovered
  BY DEF IInv
<1>5. n \in IDs \cup {0} /\ n \in Nat /\ (n # 0 => marker[n]) /\ \A k \in IDs : marker[k] => k <= n
  <2>1. /\ Latest \in IDs \cup {0} /\ (Latest # 0 => marker[Latest])
        /\ \A k \in IDs : marker[k] => k <= Latest
    BY LatestIs
  <2>. HIDE DEF Latest
  <2>. QED
    BY <1>0, <2>1, Numbers
<1>6. n # 0 => \A s \in Subtasks : Restorable(n, s, files[n][s])
  BY <1>4, <1>5 DEF Coordinated, MarkedRestores
<1>7. RunTypes' /\ FinalIsSuccess' /\ RestoredIsMarked'
  BY <1>1, <1>3, <1>4, <1>5 DEF RunTypes, FinalIsSuccess, RestoredIsMarked
<1>8. Coordinated'
  <2>1. Types'
    <3>1. done' \in [Subtasks -> Snapshots]
      BY <1>1, NoFileIsSnapshot
    <3>2. files' \in [IDs -> [Subtasks -> Snapshots]] /\ marker' \in [IDs -> BOOLEAN]
      BY <1>1, <1>4 DEF Coordinated, Types
    <3>3. /\ status' \in [IDs -> {"unknown", "open", "complete", "abandoned"}]
          /\ acked' \in [IDs -> SUBSET Subtasks]
          /\ waiter' \in [Sinks -> {"no", "checking", "asleep", "woken", "returned"}]
      BY <1>1
    <3>. QED
      BY <3>1, <3>2, <3>3 DEF Types
  <2>2. AckedWrote' /\ DoneAreSources'
    BY <1>1 DEF AckedWrote, DoneAreSources
  <2>3. KnownAreNew' /\ CompleteAreMarked'
    BY <1>1 DEF KnownAreNew, CompleteAreMarked
  <2>4. MarkedRestores'
    BY <1>1, <1>4, <1>5 DEF Coordinated, MarkedRestores
  <2>. QED
    BY <2>1, <2>2, <2>3, <2>4 DEF Coordinated
<1>9. chan' \in Channels /\ Leveled(chan', ended', [s \in Subtasks |-> n])
  BY <1>2, <1>5, StartsLevel
<1>10. FlowTypes'
  <2>1. \A s \in Sources : position'[s] \in 0..Count[s] /\ Count[s] \in Nat
    BY <1>2, <1>6, KindsOfSubtasks, JobAssumption DEF Restorable
  <2>2. position' \in [Sources -> Nat] /\ \A s \in Sources : position'[s] <= Count[s]
    BY <1>2, <2>1
  <2>3. held' \in [Operators -> SUBSET Records]
    BY <1>2, <1>6, KindsOfSubtasks DEF Restorable
  <2>4. sinceLast' \in [Sources -> Nat] /\ \A s \in Sources : sinceLast'[s] <= Interval[s]
    BY <1>2, JobAssumption
  <2>5. injected' \in [Sources -> IDs \cup {0}] /\ ended' \in [Subtasks -> SUBSET Subtasks]
        /\ (\A s \in Subtasks : ended'[s] \subseteq Up[s]) /\ returned' \subseteq Subtasks
    BY <1>2, <1>5
  <2>. QED
    BY <1>9, <2>2, <2>3, <2>4, <2>5 DEF FlowTypes
<1>11. Levels'
  <2>. DEFINE level == [s \in Subtasks |-> n]
  <2>1. level \in [Subtasks -> IDs \cup {0}]
    BY <1>5
  <2>2. LeveledBy(level)'
    BY <1>1, <1>2, <1>3, <1>5, <1>9, KindsOfSubtasks DEF LeveledBy
  <2>. HIDE DEF level
  <2>. QED
    BY <2>1, <2>2 DEF Levels
<1>12. SinkTypes'
  BY <1>3, <1>4, Numbers DEF SinkTypes
<1>13. TodoAreMarked' /\ WrittenExist'
  BY <1>1, <1>2, <1>3 DEF TodoAreMarked, WrittenExist
<1>14. CommittedIsCovered'
  BY <1>1, <1>3, <1>4 DEF CommittedIsCovered
<1>. QED
  BY <1>7, <1>8, <1>10, <1>11, <1>12, <1>13, <1>14 DEF IInv

-----------------------------------------------------------------------------
(* The theorems. *)

LEMMA InitHolds == Init => IInv
<1>. SUFFICES ASSUME Init PROVE IInv
  OBVIOUS
<1>1. /\ mode = "running" /\ failed = FALSE /\ restoredID = 0
      /\ failures = 0 /\ lost = 0 /\ succeeded = FALSE
      /\ status = [k \in IDs |-> "unknown"] /\ acked = [k \in IDs |-> {}]
      /\ done = [s \in Subtasks |-> NoFile] /\ waiter = [s \in Sinks |-> "no"]
      /\ files = [k \in IDs |-> [s \in Subtasks |-> NoFile]] /\ marker = [k \in IDs |-> FALSE]
  BY DEF Init, CoordinatorInit, fresh
<1>2. /\ position = [s \in Sources |-> 0] /\ injected = [s \in Sources |-> 0]
      /\ sinceLast = [s \in Sources |-> 0]
      /\ chan = [e \in Edges |-> << >>] /\ ended = [s \in Subtasks |-> {}] /\ returned = {}
      /\ held = [o \in Operators |-> {}]
  BY DEF Init
<1>3. /\ pc = [s \in Sinks |-> "restore"] /\ pending = [s \in Sinks |-> {}]
      /\ todo = [s \in Sinks |-> {}]
      /\ epoch = [s \in Sinks |-> 1] /\ firstEpoch = [s \in Sinks |-> 1]
      /\ opened = [s \in Sinks |-> FALSE] /\ written = [s \in Sinks |-> {}]
      /\ staging = [s \in Sinks |-> [e \in Epochs |-> NoFile]]
      /\ committed = [s \in Sinks |-> [e \in Epochs |-> NoFile]]
  BY DEF Init, SinkInit, newSink, noFiles
<1>4. RunTypes /\ FinalIsSuccess /\ RestoredIsMarked
  <2>1. failures \in 0..MaxFailures /\ lost \in 0..MaxLostNotifications
    BY <1>1, JobAssumption
  <2>. QED
    BY <1>1, <2>1 DEF RunTypes, FinalIsSuccess, RestoredIsMarked
<1>5. Coordinated
  <2>1. Types
    <3>1. done \in [Subtasks -> Snapshots] /\ files \in [IDs -> [Subtasks -> Snapshots]]
      BY <1>1, NoFileIsSnapshot
    <3>. QED
      BY <1>1, <3>1 DEF Types
  <2>. QED
    BY <1>1, <2>1 DEF Coordinated, AckedWrote, DoneAreSources, MarkedRestores, KnownAreNew,
       CompleteAreMarked
<1>6. chan \in Channels /\ Leveled(chan, ended, [s \in Subtasks |-> 0])
  BY <1>2, StartsLevel
<1>7. FlowTypes
  BY <1>2, <1>6, JobAssumption DEF FlowTypes
<1>8. Levels
  <2>. DEFINE level == [s \in Subtasks |-> 0]
  <2>1. level \in [Subtasks -> IDs \cup {0}]
    OBVIOUS
  <2>2. LeveledBy(level)
    BY <1>1, <1>2, <1>3, <1>6, KindsOfSubtasks DEF LeveledBy
  <2>. HIDE DEF level
  <2>. QED
    BY <2>1, <2>2 DEF Levels
<1>9. SinkTypes
  BY <1>3, Numbers DEF SinkTypes, Files
<1>10. TodoAreMarked /\ WrittenExist /\ CommittedIsCovered
  BY <1>1, <1>2, <1>3 DEF TodoAreMarked, WrittenExist, CommittedIsCovered
<1>. QED
  BY <1>4, <1>5, <1>7, <1>8, <1>9, <1>10 DEF IInv

LEMMA StutterKeeps ==
  ASSUME IInv, UNCHANGED vars
  PROVE  IInv'
<1>1. /\ UNCHANGED <<coordinator, sourceVars, ended, sinkVars, sink, runVars>>
      /\ chan' = chan /\ returned' = returned /\ held' = held
  BY DEF vars, flowVars
<1>2. /\ chan \in Channels /\ held \in [Operators -> SUBSET Records] /\ returned \subseteq Subtasks
  BY DEF IInv, FlowTypes
<1>. QED
  BY <1>1, <1>2, FlowKeeps

LEMMA StepKeeps ==
  ASSUME IInv, [Next]_vars
  PROVE  IInv'
<1>1. ASSUME NEW s \in Sources, SourceStep(s) PROVE IInv'
  BY <1>1, SourceRecordKeeps, SourceBarrierKeeps, SourceEndKeeps DEF SourceStep
<1>2. ASSUME NEW o \in Operators, OperatorStep(o) PROVE IInv'
  <2>1. o \in Subtasks
    BY KindsOfSubtasks
  <2>2. ASSUME NEW u \in Up[o], OperatorRecord(o, u) PROVE IInv'
    BY <2>2, OperatorRecordKeeps
  <2>3. ASSUME NEW u \in Up[o], InputEnds(o, u) PROVE IInv'
    BY <2>1, <2>3, InputEndsKeeps
  <2>4. ASSUME NEW k \in IDs, OperatorBarrier(o, k) PROVE IInv'
    BY <2>4, OperatorBarrierKeeps
  <2>. QED
    BY <1>2, <2>2, <2>3, <2>4, OperatorFiresKeeps, OperatorEndKeeps DEF OperatorStep
<1>3. ASSUME NEW s \in Sinks, SinkStep(s) PROVE IInv'
  <2>1. s \in Subtasks
    BY KindsOfSubtasks
  <2>2. ASSUME NEW u \in Up[s], SinkRecord(s, u) PROVE IInv'
    BY <2>2, SinkRecordKeeps
  <2>3. ASSUME NEW u \in Up[s], InputEnds(s, u) PROVE IInv'
    BY <2>1, <2>3, InputEndsKeeps
  <2>4. ASSUME NEW k \in IDs, SinkBarrier(s, k) PROVE IInv'
    BY <2>4, SinkBarrierKeeps
  <2>5. ASSUME SinkRestoring(s) \/ SinkAsks(s) \/ SinkNotify(s) \/ SinkNotified(s) \/ SinkEnd(s)
        PROVE  IInv'
    BY <2>5, SinkRestoringKeeps, SinkAsksKeeps, SinkNotifyKeeps, SinkNotifiedKeeps, SinkEndKeeps
  <2>. QED
    BY <1>3, <2>2, <2>3, <2>4, <2>5 DEF SinkStep
<1>4. ASSUME ExecutorStep PROVE IInv'
  BY <1>4, TornDownKeeps, RestartKeeps, AllReturnedKeeps, JobSucceedsKeeps, CommitFinalKeeps
     DEF ExecutorStep
<1>5. ASSUME NEW s \in Subtasks, SubtaskFails(s) PROVE IInv'
  BY <1>5, SubtaskFailsKeeps
<1>6. CASE Crash
  BY <1>6, CrashKeeps
<1>7. CASE Succeeded \/ UNCHANGED vars
  BY <1>7, StutterKeeps DEF Succeeded
<1>. QED
  BY <1>1, <1>2, <1>3, <1>4, <1>5, <1>6, <1>7 DEF Next

LEMMA IInvAlways == Spec => []IInv
<1>1. Init => IInv
  BY InitHolds
<1>2. IInv /\ [Next]_vars => IInv'
  BY StepKeeps
<1>. QED
  BY <1>1, <1>2, PTL DEF Spec

(* Type correctness of the whole job, whatever fails: in particular a      *)
(* source resumes within its range, and a barrier number is a checkpoint's.*)
THEOREM TypeCorrect == Spec => []TypeOK
<1>1. IInv => TypeOK
  <2>. SUFFICES ASSUME IInv PROVE TypeOK
    OBVIOUS
  <2>1. \A s \in Sources : position[s] \in 0..Count[s] /\ sinceLast[s] \in 0..Interval[s]
    BY JobAssumption DEF IInv, FlowTypes
  <2>2. \A s \in Sources : injected[s] \in IDs \cup {0}
    BY DEF IInv, FlowTypes
  <2>3. \A s \in Sinks :
          /\ pc[s] \in {"restore", "run", "ask", "notify", "await", "last", "returned"}
          /\ todo[s] \subseteq pending[s] /\ pending[s] \subseteq IDs
    BY DEF IInv, SinkTypes
  <2>4. /\ \A s \in Subtasks : ended[s] \subseteq Up[s]
        /\ returned \subseteq Subtasks /\ \A o \in Operators : held[o] \subseteq Records
    BY DEF IInv, FlowTypes
  <2>. QED
    BY <2>1, <2>2, <2>3, <2>4 DEF IInv, RunTypes, TypeOK
<1>. QED
  BY <1>1, IInvAlways, PTL

(* Invariant 4 of the design: a file is in the committed directory only    *)
(* when a complete checkpoint at or after its epoch covers it, or when a   *)
(* run of the job has reached commitFinalEpochs.  The sink numbers its     *)
(* epochs itself, so this rests on its count and the sources' count of     *)
(* barriers staying in step through the channels, restarts included.       *)
THEOREM CommittedAreCovered == Spec => []CommittedIsCovered
<1>1. IInv => CommittedIsCovered
  BY DEF IInv
<1>. QED
  BY <1>1, IInvAlways, PTL

(* NotifyCheckpointComplete never returns ErrStagedFileMissing: what a sink *)
(* is told is complete is an epoch it has closed, and a file it wrote is   *)
(* staged or committed until then.                                         *)
THEOREM EpochsDoNotDrift == Spec => []NoDrift
<1>1. IInv => NoDrift
  BY DEF IInv, WrittenExist, NoDrift, missing
<1>. QED
  BY <1>1, IInvAlways, PTL

-----------------------------------------------------------------------------
(* Where a record is.                                                      *)

(* S has at most one element. *)
AtMostOne(S) == \A p, q \in S : p = q

(* What is in X, Y or Z is in one place if E, and in none if not E. *)
OnePlace(E, X, Y, Z) ==
  /\ E <=> (X # {} \/ Y # {} \/ Z # {})
  /\ AtMostOne(X) /\ AtMostOne(Y) /\ AtMostOne(Z)
  /\ (X = {} \/ Y = {}) /\ (X = {} \/ Z = {}) /\ (Y = {} \/ Z = {})

(* The file a reader of epoch e of sink s would be given by a restart. *)
current(s, e) == IF staged(s, e) THEN staging[s][e] ELSE committed[s][e]

(* A complete checkpoint has the output of epoch e. *)
Covered(e) == \E k \in IDs : k >= e /\ marker[k]

(* What the cut of checkpoint k has of subtask x, be it past it or not. *)
snapshot(level, k, x) ==
  IF level[x] >= k THEN files[k][x] ELSE IF x \in Sources THEN position[x] ELSE held[x]

(* Where record r is in channel c, ahead of the barrier of k. *)
ahead(c, k, r) == {n \in 1..Len(c) : c[n] = Rec(r) /\ \A m \in 1..n-1 : c[m] # Bar(k)}

(* The places of record r in the channels that the cut of checkpoint k     *)
(* has to its left: ahead of its barrier, to a subtask that has not        *)
(* taken it.                                                               *)
OnTheWay(c, level, k, r) ==
  {p \in Edges \X Nat : level[p[1][2]] < k /\ p[2] \in ahead(c[p[1]], k, r)}

(* The files that hold r and that a job resumed at k would find: those     *)
(* of epochs up to k that this run has written or that were covered when   *)
(* it started. What an earlier run left of later epochs does not count,    *)
(* Restore removes it.                                                     *)
Stored(k, r) ==
  {p \in Sinks \X Epochs : /\ p[2] <= k /\ (p[2] <= restoredID \/ p[2] \in written[p[1]])
                           /\ copies(current(p[1], p[2]), r) > 0}

(* The files of epochs up to k that hold r. *)
Kept(k, r) == {p \in Sinks \X Epochs : p[2] <= k /\ copies(current(p[1], p[2]), r) > 0}

(* A checkpoint of this run that is not over, or the one after the last. *)
Open(k) == k > restoredID /\ (k \in IDs => ~terminal(k))

(* The cut of checkpoint k in the making. *)
RunCut(level, k, r) ==
  OnePlace(r[2] <= snapshot(level, k, r[1]), {o \in Operators : r \in snapshot(level, k, o)},
           OnTheWay(chan, level, k, r), Stored(k, r))

(* Every checkpoint in the making is a cut at every moment: as barriers    *)
(* pass, a place left of the cut is taken by another one left of it, and   *)
(* the file a subtask hands over is the state it is in as it takes the     *)
(* barrier.                                                                *)
RunCuts(level) == mode # "down" => \A k \in Epochs : Open(k) => \A r \in Records : RunCut(level, k, r)

(* The same of a complete one: nothing is on the way any more. *)
MarkedCut(row, k, r) ==
  OnePlace(r[2] <= row[r[1]], {o \in Operators : r \in row[o]}, {}, Kept(k, r))

(* Every complete checkpoint is a cut, at any later moment. *)
MarkedCuts == \A k \in IDs : marker[k] => \A r \in Records : MarkedCut(files[k], k, r)

(* A checkpoint has counted exactly those that have passed its barrier. *)
Counted(level) ==
  \A k \in IDs : k > restoredID /\ ~terminal(k) => \A x \in Subtasks : x \in acked[k] <=> level[x] >= k

(* End-of-stream is the last element of a channel and is sent on           *)
(* returning; an input that has ended is empty, and its subtask not        *)
(* behind it.                                                              *)
Ends(level) ==
  \A e \in Edges :
    /\ \A n \in 1..Len(chan[e]) : chan[e][n].kind = "eos" => n = Len(chan[e]) /\ e[1] \in returned
    /\ e[1] \in ended[e[2]] => e[1] \in returned /\ chan[e] = << >> /\ level[e[1]] <= level[e[2]]

(* A source that told the coordinator it is finished has returned, at      *)
(* this position, with all its barriers sent.                              *)
DoneAt ==
  \A s \in Sources : done[s] # NoFile =>
    s \in returned /\ done[s] = position[s] /\ injected[s] >= maxBarriers(s)

(* A sink that is still running has passed every complete checkpoint, so   *)
(* what it writes is covered by none.                                      *)
MarkedPassed(level) == \A k \in IDs : marker[k] => \A s \in Sinks : s \in returned \/ level[s] >= k

(* A barrier that is about was in the budget of some source. *)
Budgeted(level) ==
  \A x \in Subtasks : level[x] = restoredID \/ \E s \in Sources : level[x] <= maxBarriers(s)

(* The file of subtask x in checkpoint k stands for what x was at the cut. *)
Recorded(k, x) == marker[k] \/ (~terminal(k) /\ x \in acked[k])

(* A source that has barriers left has emitted Interval records for every  *)
(* barrier it has sent, and sinceLast more.                                *)
PacedSources ==
  \A s \in Sources : injected[s] < maxBarriers(s) =>
    position[s] = injected[s] * Interval[s] + sinceLast[s]

(* Hence the position in a checkpoint is the same whichever run took it. *)
PacedFiles ==
  \A k \in IDs, s \in Sources :
    k <= maxBarriers(s) /\ Recorded(k, s) => files[k][s] = k * Interval[s]

(* A run that reached commitFinalEpochs has completed every checkpoint     *)
(* its sources had a budget for, so a later run has no barrier to send.    *)
SuccessMarked ==
  succeeded => /\ \A s \in Sources : maxBarriers(s) = 0 \/ Covered(maxBarriers(s))
               /\ mode = "running" => \A s \in Sources : maxBarriers(s) <= restoredID

(* A checkpoint is abandoned only in a run that fails. *)
Blamed == \A k \in IDs : status[k] = "abandoned" => failed

(* A sink asks after every checkpoint it has taken until it is complete. *)
Remembered == \A s \in Sinks : \A k \in IDs : restoredID < k /\ k < epoch[s] => k \in pending[s] \/ marker[k]

(* What a run without an error has done when its subtasks return:          *)
(* sources are at their end, operators have let go of their state, sinks   *)
(* know that every checkpoint they took is complete.                       *)
Returned(level) ==
  /\ mode \in {"final", "done"} => ~failed /\ returned = Subtasks
  /\ mode = "done" => \A s \in Sinks : leftStaged(s) = {}
  /\ ~failed =>
      /\ \A s \in Sources : s \in returned => position[s] = Count[s] /\ injected[s] >= maxBarriers(s)
      /\ \A o \in Operators : o \in returned => Up[o] \subseteq ended[o] /\ held[o] = {}
      /\ \A s \in Sinks : pc[s] \in {"last", "returned"} =>
            /\ Up[s] \subseteq ended[s] /\ epoch[s] = level[s] + 1
            /\ \A k \in pending[s] : status[k] = "complete"

(* Once a sink has restored, all that is staged was written by this run. *)
Settled(level) ==
  \A s \in Sinks :
    \/ \A e \in Epochs : staged(s, e) => e \in written[s]
    \/ level[s] = restoredID /\ (pc[s] = "restore" \/ (failed /\ pc[s] = "returned"))

(* A sink writes to its current epoch only. A committed file that is       *)
(* neither covered nor of this run is from a run that succeeded, and       *)
(* only such a one can have a staged twin.                                 *)
OwnFiles ==
  \A s \in Sinks :
    /\ firstEpoch[s] <= restoredID + 1
    /\ opened[s] => epoch[s] \in written[s]
    /\ \A e \in written[s] : /\ e > restoredID /\ e <= epoch[s]
                             /\ e = epoch[s] => opened[s] \/ pc[s] = "returned"
    /\ \A e \in Epochs : \A r \in Records : copies(committed[s][e], r) > 0 =>
         /\ e <= restoredID \/ e \in written[s] \/ (succeeded /\ ~Covered(e))
         /\ staged(s, e) => succeeded /\ ~Covered(e)

(* A file has a record once, and is of the sink on its route. *)
FileContents ==
  \A s \in Sinks, e \in Epochs, r \in Records : \A f \in {staging[s][e], committed[s][e]} :
    copies(f, r) <= 1 /\ (copies(f, r) > 0 => s \in route(r))

(* An operator holds records whose route it is on. *)
StateContents ==
  /\ \A o \in Operators : \A r \in held[o] : o \in route(r)
  /\ \A k \in IDs, o \in Operators : Recorded(k, o) => \A r \in files[k][o] : o \in route(r)

(* Records are sent along their routes. *)
ChannelContents ==
  \A e \in Edges : \A n \in 1..Len(chan[e]) : chan[e][n].kind = "record" => e[2] \in route(chan[e][n].val)

(* A record committed by commitFinalEpochs is of the epoch after the       *)
(* last checkpoint, and in no file that a checkpoint covers.               *)
FinalFiles ==
  \A s \in Sinks, e \in Epochs, r \in Records :
    copies(committed[s][e], r) > 0 /\ ~Covered(e) =>
      /\ e = 1 \/ Covered(e - 1)
      /\ \A t \in Sinks, f \in Epochs : Covered(f) => copies(current(t, f), r) = 0

(* What is known of barriers, checkpoints and returns. *)
Accounts(level) ==
  /\ Counted(level) /\ Ends(level) /\ DoneAt /\ MarkedPassed(level) /\ Budgeted(level)
  /\ PacedSources /\ PacedFiles /\ SuccessMarked /\ Blamed /\ Remembered /\ Returned(level)

(* What is known of files, state and channels. *)
OnDisk(level) ==
  /\ Settled(level) /\ OwnFiles /\ FinalFiles
  /\ FileContents /\ StateContents /\ ChannelContents

(* What the theorems are about. *)
Cuts(level) == RunCuts(level) /\ MarkedCuts

(* The three together, over one assignment of levels. *)
Whole(level) == LeveledBy(level) /\ Accounts(level) /\ OnDisk(level) /\ Cuts(level)

(* The inductive invariant, on top of IInv. *)
JInv == \E level \in [Subtasks -> IDs \cup {0}] : Whole(level)

(* A record is a source and a number within its range. *)
LEMMA RecordIs ==
  ASSUME NEW r \in Records
  PROVE  /\ r[1] \in Sources /\ r[1] \in Subtasks /\ r[1] \notin Operators
         /\ r[2] \in 1..Count[r[1]] /\ r[2] \in Nat /\ r[2] >= 1 /\ r = <<r[1], r[2]>>
<1>1. PICK s \in Sources : \E n \in 1..Count[s] : r = <<s, n>>
  BY JobAssumption
<1>. QED
  BY <1>1, KindsOfSubtasks, JobAssumption

(* Two sets of places that tell the same of a record. *)
Alike(Y, Y2) == (Y = {} <=> Y2 = {}) /\ (AtMostOne(Y) => AtMostOne(Y2))

(* There is one place more. *)
Gains(Y, Y2) == \E y : Y2 = Y \cup {y}

(* Sets of places that are alike are as good as each other. *)
LEMMA AlikeKeeps ==
  ASSUME NEW E, NEW X, NEW Y, NEW Z, NEW Y2, OnePlace(E, X, Y, Z), Alike(Y, Y2)
  PROVE  OnePlace(E, X, Y2, Z)
BY DEF OnePlace, Alike

(* Alike is transitive. *)
LEMMA AlikeTwice ==
  ASSUME NEW X, NEW Y, NEW Z, Alike(X, Y), Alike(Y, Z)
  PROVE  Alike(X, Z)
BY DEF Alike

(* Alike is reflexive. *)
LEMMA AlikeSame == \A X : Alike(X, X)
BY DEF Alike

(* Something is taken from the front of some channels. *)
LEMMA AlikeShifted ==
  ASSUME NEW S, NEW Y \in SUBSET (S \X Nat), NEW Y2 \in SUBSET (S \X Nat), NEW f \in [S -> Nat],
         \A e \in S, n \in Nat : <<e, n>> \in Y2 <=> <<e, n + f[e]>> \in Y,
         \A e \in S, n \in Nat : <<e, n>> \in Y => n >= f[e]
  PROVE  Alike(Y, Y2)
<1>1. \A p \in Y2 : p[1] \in S /\ p[2] \in Nat /\ p = <<p[1], p[2]>> /\ <<p[1], p[2] + f[p[1]]>> \in Y
  OBVIOUS
<1>2. ASSUME NEW p \in Y PROVE Y2 # {}
  <2>1. p[1] \in S /\ p[2] \in Nat /\ p = <<p[1], p[2]>> /\ p[2] >= f[p[1]]
    OBVIOUS
  <2>2. p[2] - f[p[1]] \in Nat /\ (p[2] - f[p[1]]) + f[p[1]] = p[2]
    BY <2>1
  <2>3. <<p[1], p[2] - f[p[1]]>> \in Y2
    BY <2>1, <2>2
  <2>. QED
    BY <2>3
<1>3. ASSUME AtMostOne(Y), NEW p \in Y2, NEW q \in Y2 PROVE p = q
  <2>. DEFINE a == <<p[1], p[2] + f[p[1]]>>
              b == <<q[1], q[2] + f[q[1]]>>
  <2>0. a \in Y /\ b \in Y
    BY <1>1
  <2>1. a = b
    <3>. HIDE DEF a, b
    <3>. QED
      BY <1>3, <2>0, Zenon DEF AtMostOne
  <2>2. p[1] = q[1] /\ p[2] + f[p[1]] = q[2] + f[q[1]]
    BY <2>1
  <2>3. p[2] = q[2]
    BY <1>1, <2>2
  <2>. QED
    BY <1>1, <2>2, <2>3
<1>. QED
  BY <1>1, <1>2, <1>3 DEF Alike, AtMostOne

(* A record leaves one place for another. *)
LEMMA MovesXY ==
  ASSUME NEW E, NEW X, NEW Y, NEW Z, OnePlace(E, X, Y, Z), NEW x \in X, NEW Y2, Gains(Y, Y2)
  PROVE  OnePlace(E, X \ {x}, Y2, Z)
BY DEF OnePlace, AtMostOne, Gains

(* From the way to the state of an operator. *)
LEMMA MovesYX ==
  ASSUME NEW E, NEW X, NEW Y, NEW Z, OnePlace(E, X, Y, Z), Y # {}, NEW X2, Gains(X, X2)
  PROVE  OnePlace(E, X2, {}, Z)
BY DEF OnePlace, AtMostOne, Gains

(* From the way to a file. *)
LEMMA MovesYZ ==
  ASSUME NEW E, NEW X, NEW Y, NEW Z, OnePlace(E, X, Y, Z), Y # {}, NEW Z2, Gains(Z, Z2)
  PROVE  OnePlace(E, X, {}, Z2)
BY DEF OnePlace, AtMostOne, Gains

(* From one channel to the next. *)
LEMMA MovesYY ==
  ASSUME NEW E, NEW X, NEW Y, NEW Z, OnePlace(E, X, Y, Z), Y # {}, NEW Y2, Gains({}, Y2)
  PROVE  OnePlace(E, X, Y2, Z)
BY DEF OnePlace, AtMostOne, Gains

(* A source emits the record. *)
LEMMA AppearsY ==
  ASSUME NEW X, NEW Y, NEW Z, OnePlace(FALSE, X, Y, Z), NEW Y2, Gains(Y, Y2)
  PROVE  OnePlace(TRUE, X, Y2, Z)
BY DEF OnePlace, AtMostOne, Gains

-----------------------------------------------------------------------------
(* Messages are told apart. *)
LEMMA MessagesDiffer ==
  /\ \A r, q \in Records : Rec(r) = Rec(q) => r = q
  /\ \A j, k \in Nat : Bar(j) = Bar(k) => j = k
  /\ \A r \in Records, k \in Nat : Rec(r) # Bar(k) /\ Rec(r) # EOS /\ Bar(k) # EOS
  /\ \A r \in Records : Rec(r).kind = "record" /\ Rec(r).val = r
  /\ \A k \in Nat : Bar(k).kind = "barrier" /\ Bar(k).val = k
  /\ EOS.kind = "eos"
BY DEF Rec, Bar, EOS

(* A message is told by its kind and its value. *)
LEMMA MessageIsOne ==
  ASSUME NEW m \in Messages
  PROVE  /\ m.kind = "record" => m = Rec(m.val)
         /\ m.kind = "barrier" => m = Bar(m.val)
         /\ m.kind = "eos" => m = EOS
<1>1. CASE m \in {Rec(r) : r \in Records}
  BY <1>1 DEF Rec
<1>2. CASE m \in {Bar(k) : k \in IDs}
  BY <1>2 DEF Bar
<1>3. CASE m = EOS
  BY <1>3 DEF EOS
<1>. QED
  BY <1>1, <1>2, <1>3 DEF Messages

(* The first element of a channel is taken. *)
LEMMA AheadTail ==
  ASSUME NEW c \in Seq(Messages), c # << >>, NEW k, NEW r
  PROVE  /\ Head(c) # Bar(k) => \A n \in Nat : n >= 1 => (n \in ahead(Tail(c), k, r) <=> n + 1 \in ahead(c, k, r))
         /\ 1 \in ahead(c, k, r) <=> Head(c) = Rec(r)
         /\ \A n \in ahead(Tail(c), k, r) : n \in Nat /\ n >= 1
         /\ \A n \in ahead(c, k, r) : n \in Nat /\ n >= 1
         /\ Head(c) = Bar(k) => \A n \in ahead(c, k, r) : n = 1
<1>. DEFINE t == Tail(c)
<1>1. /\ Len(c) \in Nat /\ Len(t) = Len(c) - 1 /\ Head(c) = c[1] /\ 1 \in 1..Len(c)
      /\ \A n \in 1..Len(t) : n + 1 \in 1..Len(c) /\ t[n] = c[n + 1]
  BY TailIs
<1>. HIDE DEF t
<1>2. ASSUME NEW n \in Nat, n >= 1, Head(c) # Bar(k)
      PROVE  n \in ahead(t, k, r) <=> n + 1 \in ahead(c, k, r)
  <2>1. n \in 1..Len(t) <=> n + 1 \in 1..Len(c)
    BY <1>1, <1>2
  <2>2. CASE n \in 1..Len(t)
    <3>1. t[n] = c[n + 1]
      BY <1>1, <2>2
    <3>2. ASSUME \A m \in 1..n-1 : t[m] # Bar(k), NEW m \in 1..(n+1)-1 PROVE c[m] # Bar(k)
      <4>1. CASE m = 1
        BY <1>1, <1>2, <4>1
      <4>2. CASE m # 1
        <5>1. m - 1 \in 1..n-1 /\ m - 1 \in 1..Len(t) /\ (m - 1) + 1 = m
          BY <1>1, <2>2, <4>2
        <5>2. t[m - 1] = c[m]
          BY <1>1, <5>1
        <5>. QED
          BY <3>2, <5>1, <5>2
      <4>. QED
        BY <4>1, <4>2
    <3>3. ASSUME \A m \in 1..(n+1)-1 : c[m] # Bar(k), NEW m \in 1..n-1 PROVE t[m] # Bar(k)
      <4>1. m + 1 \in 1..(n+1)-1 /\ m \in 1..Len(t)
        BY <1>1, <2>2
      <4>. QED
        BY <1>1, <3>3, <4>1
    <3>. QED
      BY <2>1, <2>2, <3>1, <3>2, <3>3 DEF ahead
  <2>. QED
    BY <2>1, <2>2 DEF ahead
<1>3. 1 \in ahead(c, k, r) <=> Head(c) = Rec(r)
  BY <1>1 DEF ahead
<1>4. (\A n \in ahead(t, k, r) : n \in Nat /\ n >= 1) /\ (\A n \in ahead(c, k, r) : n \in Nat /\ n >= 1)
  BY <1>1 DEF ahead
<1>5. ASSUME Head(c) = Bar(k), NEW n \in ahead(c, k, r) PROVE n = 1
  <2>1. n \in 1..Len(c) /\ \A m \in 1..n-1 : c[m] # Bar(k)
    BY DEF ahead
  <2>2. n # 1 => 1 \in 1..n-1
    BY <2>1, <1>1
  <2>. QED
    BY <1>1, <1>5, <2>1, <2>2
<1>. QED
  BY <1>2, <1>3, <1>4, <1>5 DEF t

(* Elements q are added to channel c. *)
LEMMA AheadConcat ==
  ASSUME NEW c \in Seq(Messages), NEW q \in Seq(Messages), NEW k, NEW r
  PROVE  /\ ((\E m \in 1..Len(c) : c[m] = Bar(k)) \/ (\A n \in 1..Len(q) : q[n] # Rec(r)))
              => ahead(c \o q, k, r) = ahead(c, k, r)
         /\ (\A m \in 1..Len(c) : c[m] # Bar(k)) /\ (\A m \in 1..Len(q) : q[m] # Bar(k))
              => \A n : n \in ahead(c \o q, k, r) <=>
                     \/ n \in ahead(c, k, r)
                     \/ n \in Len(c)+1..Len(c)+Len(q) /\ q[n - Len(c)] = Rec(r)
<1>. DEFINE h == c \o q
<1>1. /\ Len(c) \in Nat /\ Len(h) = Len(c) + Len(q) /\ Len(q) \in Nat
      /\ \A n \in 1..Len(c) : n \in 1..Len(h) /\ h[n] = c[n]
      /\ \A n \in 1..Len(h) : n \notin 1..Len(c) => n - Len(c) \in 1..Len(q) /\ h[n] = q[n - Len(c)]
  OBVIOUS
<1>. HIDE DEF h
<1>2. ASSUME NEW n \in 1..Len(c) PROVE n \in ahead(h, k, r) <=> n \in ahead(c, k, r)
  <2>1. \A m \in 1..n-1 : m \in 1..Len(c) /\ h[m] = c[m]
    BY <1>1
  <2>2. n \in 1..Len(h) /\ h[n] = c[n]
    BY <1>1
  <2>. QED
    BY <2>1, <2>2 DEF ahead
<1>3. \A n : n \in ahead(h, k, r) => n \in 1..Len(h)
  BY DEF ahead
<1>4. \A n : n \in ahead(c, k, r) => n \in 1..Len(c)
  BY DEF ahead
<1>5. ASSUME \E m \in 1..Len(c) : c[m] = Bar(k), NEW n \in 1..Len(h), n \notin 1..Len(c)
      PROVE  n \notin ahead(h, k, r)
  <2>1. PICK m \in 1..Len(c) : c[m] = Bar(k)
    BY <1>5
  <2>2. m \in 1..n-1 /\ h[m] = Bar(k)
    BY <1>1, <1>5, <2>1
  <2>. QED
    BY <2>2 DEF ahead
<1>6. ASSUME \A i \in 1..Len(q) : q[i] # Rec(r), NEW n \in 1..Len(h), n \notin 1..Len(c)
      PROVE  n \notin ahead(h, k, r)
  BY <1>1, <1>6 DEF ahead
<1>7. ASSUME \A m \in 1..Len(c) : c[m] # Bar(k), \A m \in 1..Len(q) : q[m] # Bar(k),
             NEW n \in 1..Len(h), n \notin 1..Len(c)
      PROVE  n \in ahead(h, k, r) <=> q[n - Len(c)] = Rec(r)
  <2>1. ASSUME NEW m \in 1..n-1 PROVE h[m] # Bar(k)
    <3>1. m \in 1..Len(h)
      BY <1>1
    <3>. QED
      BY <1>1, <1>7, <3>1
  <2>. QED
    BY <1>1, <1>7, <2>1 DEF ahead
<1>8. \A n : n \in 1..Len(h) <=> n \in 1..Len(c) \/ n \in Len(c)+1..Len(c)+Len(q)
  BY <1>1
<1>9. \A n \in Len(c)+1..Len(c)+Len(q) : n \notin 1..Len(c)
  BY <1>1
<1>10. ASSUME (\E m \in 1..Len(c) : c[m] = Bar(k)) \/ (\A n \in 1..Len(q) : q[n] # Rec(r))
       PROVE  ahead(h, k, r) = ahead(c, k, r)
  <2>1. \A n \in 1..Len(h) : n \notin 1..Len(c) => n \notin ahead(h, k, r)
    BY <1>5, <1>6, <1>10
  <2>2. \A n : n \in ahead(h, k, r) <=> n \in ahead(c, k, r)
    BY <1>2, <1>3, <1>4, <1>8, <2>1
  <2>. QED
    BY <2>2
<1>11. ASSUME \A m \in 1..Len(c) : c[m] # Bar(k), \A m \in 1..Len(q) : q[m] # Bar(k), NEW n
       PROVE  n \in ahead(h, k, r) <=>
                \/ n \in ahead(c, k, r)
                \/ n \in Len(c)+1..Len(c)+Len(q) /\ q[n - Len(c)] = Rec(r)
  <2>1. CASE n \in 1..Len(c)
    BY <1>2, <1>9, <2>1
  <2>2. CASE n \in 1..Len(h) /\ n \notin 1..Len(c)
    BY <1>4, <1>7, <1>8, <1>11, <2>2
  <2>3. CASE n \notin 1..Len(h)
    BY <1>3, <1>4, <1>8, <2>3
  <2>. QED
    BY <2>1, <2>2, <2>3
<1>. QED
  BY <1>10, <1>11 DEF h

(* To append is to add a sequence of one. *)
LEMMA AppendIsConcat ==
  ASSUME NEW S, NEW c \in Seq(S), NEW x
  PROVE  Append(c, x) = c \o <<x>>
OBVIOUS

(* One element is added. *)
LEMMA AheadAppend ==
  ASSUME NEW c \in Seq(Messages), NEW x \in Messages, NEW k, NEW r, Rec(r) # Bar(k)
  PROVE  /\ (\E m \in 1..Len(c) : c[m] = Bar(k)) \/ x # Rec(r)
              => ahead(Append(c, x), k, r) = ahead(c, k, r)
         /\ (\A m \in 1..Len(c) : c[m] # Bar(k)) /\ x = Rec(r)
              => ahead(Append(c, x), k, r) = ahead(c, k, r) \cup {Len(c) + 1}
<1>. DEFINE q == <<x>>
<1>1. q \in Seq(Messages) /\ Append(c, x) = c \o q /\ Len(q) = 1 /\ q[1] = x /\ Len(c) \in Nat
  OBVIOUS
<1>. HIDE DEF q
<1>2. ASSUME (\E m \in 1..Len(c) : c[m] = Bar(k)) \/ x # Rec(r)
      PROVE  ahead(Append(c, x), k, r) = ahead(c, k, r)
  <2>1. x # Rec(r) => \A n \in 1..Len(q) : q[n] # Rec(r)
    BY <1>1
  <2>. QED
    BY <1>1, <1>2, <2>1, AheadConcat
<1>3. ASSUME \A m \in 1..Len(c) : c[m] # Bar(k), x = Rec(r)
      PROVE  ahead(Append(c, x), k, r) = ahead(c, k, r) \cup {Len(c) + 1}
  <2>1. \A m \in 1..Len(q) : q[m] # Bar(k)
    BY <1>1, <1>3
  <2>2. \A n : n \in ahead(c \o q, k, r) <=>
                 n \in ahead(c, k, r) \/ (n \in Len(c)+1..Len(c)+Len(q) /\ q[n - Len(c)] = Rec(r))
    BY <1>1, <1>3, <2>1, AheadConcat
  <2>3. \A n : n \in Len(c)+1..Len(c)+Len(q) <=> n = Len(c) + 1
    BY <1>1
  <2>4. (Len(c) + 1) - Len(c) = 1
    BY <1>1
  <2>5. \A n : n \in ahead(c \o q, k, r) <=> n \in ahead(c, k, r) \/ n = Len(c) + 1
    BY <1>1, <1>3, <2>2, <2>3, <2>4
  <2>. QED
    BY <1>1, <2>5
<1>. QED
  BY <1>2, <1>3

(* Which barriers a channel holds. *)
LEMMA BarrierInside ==
  ASSUME NEW c \in Seq(Messages), NEW lo \in Nat, NEW hi \in Nat, Between(c, lo, hi), NEW k \in Nat
  PROVE  /\ lo < k /\ k <= hi => \E n \in 1..Len(c) : c[n] = Bar(k)
         /\ hi < k => \A n \in 1..Len(c) : c[n] # Bar(k)
<1>1. ASSUME lo < k, k <= hi PROVE \E n \in 1..Len(c) : c[n] = Bar(k)
  <2>1. k \in lo+1..hi
    BY <1>1
  <2>2. PICK n \in 1..Len(c) : c[n].kind = "barrier" /\ c[n].val = k
    BY <2>1 DEF Between
  <2>3. c[n] \in Messages
    OBVIOUS
  <2>. QED
    BY <2>2, <2>3, MessageIsOne
<1>2. ASSUME hi < k, NEW n \in 1..Len(c), c[n] = Bar(k) PROVE FALSE
  <2>1. c[n].kind = "barrier" /\ c[n].val = k
    BY <1>2, MessagesDiffer
  <2>2. k <= hi
    BY <2>1 DEF Between
  <2>. QED
    BY <1>2, <2>2
<1>. QED
  BY <1>1, <1>2

(* OnTheWay, unfolded. *)
LEMMA WayIs ==
  ASSUME NEW c \in Channels, NEW level, NEW k, NEW r
  PROVE  /\ \A e, n : <<e, n>> \in OnTheWay(c, level, k, r) <=>
                        e \in Edges /\ level[e[2]] < k /\ n \in ahead(c[e], k, r)
         /\ OnTheWay(c, level, k, r) \in SUBSET (Edges \X Nat)
         /\ \A p \in OnTheWay(c, level, k, r) : p = <<p[1], p[2]>> /\ p[1] \in Edges /\ p[2] \in Nat
<1>1. \A e \in Edges : \A n \in ahead(c[e], k, r) : n \in Nat
  BY DEF ahead, Channels
<1>. QED
  BY <1>1 DEF OnTheWay

(* What a change of channels and levels must not touch for the way to      *)
(* stay.                                                                   *)
LEMMA WaySame ==
  ASSUME NEW c \in Channels, NEW d \in Channels, NEW lv, NEW nlv, NEW k, NEW r,
         \A e \in Edges : \/ lv[e[2]] < k /\ nlv[e[2]] < k /\ ahead(c[e], k, r) = ahead(d[e], k, r)
                          \/ ~(lv[e[2]] < k) /\ ~(nlv[e[2]] < k)
                          \/ ~(lv[e[2]] < k) /\ ahead(d[e], k, r) = {}
                          \/ ~(nlv[e[2]] < k) /\ ahead(c[e], k, r) = {}
  PROVE  OnTheWay(c, lv, k, r) = OnTheWay(d, nlv, k, r)
<1>1. \A e, n : <<e, n>> \in OnTheWay(c, lv, k, r) <=> <<e, n>> \in OnTheWay(d, nlv, k, r)
  <2>1. \A e, n : <<e, n>> \in OnTheWay(c, lv, k, r) <=> e \in Edges /\ lv[e[2]] < k /\ n \in ahead(c[e], k, r)
    BY WayIs
  <2>2. \A e, n : <<e, n>> \in OnTheWay(d, nlv, k, r) <=> e \in Edges /\ nlv[e[2]] < k /\ n \in ahead(d[e], k, r)
    BY WayIs
  <2>. QED
    BY <2>1, <2>2
<1>2. \A p \in OnTheWay(c, lv, k, r) : p = <<p[1], p[2]>>
  BY WayIs
<1>3. \A p \in OnTheWay(d, nlv, k, r) : p = <<p[1], p[2]>>
  BY WayIs
<1>. QED
  BY <1>1, <1>2, <1>3

(* d is c once s has taken the first element from each of the inputs us. *)
TakesFrom(c, d, s, us) ==
  \A e \in Edges : d[e] = IF e[2] = s /\ e[1] \in us THEN Tail(c[e]) ELSE c[e]

(* taken is such a change of the channels. *)
LEMMA TakenIs == \A s, us : TakesFrom(chan, taken(s, us), s, us)
BY DEF TakesFrom, taken

(* What does not concern record r, or is behind the barrier, is taken. *)
LEMMA TakenAlike ==
  ASSUME NEW c \in Channels, NEW level, NEW k, NEW r \in Records,
         NEW s \in Subtasks, NEW us \in SUBSET Up[s],
         \A u \in us : c[<<u, s>>] # << >>,
         level[s] < k => \A u \in us : Head(c[<<u, s>>]) # Rec(r) /\ Head(c[<<u, s>>]) # Bar(k),
         NEW d \in Channels, TakesFrom(c, d, s, us)
  PROVE  Alike(OnTheWay(c, level, k, r), OnTheWay(d, level, k, r))
<1>. USE DEF TakesFrom
<1>. DEFINE f == [e \in Edges |-> IF e[2] = s /\ e[1] \in us /\ level[s] < k THEN 1 ELSE 0]
            Y == OnTheWay(c, level, k, r)
            Y2 == OnTheWay(d, level, k, r)
<1>1. f \in [Edges -> Nat]
  OBVIOUS
<1>2. Y \in SUBSET (Edges \X Nat) /\ Y2 \in SUBSET (Edges \X Nat)
  BY WayIs
<1>3. ASSUME NEW e \in Edges, NEW n \in Nat
      PROVE  (<<e, n>> \in Y2 <=> <<e, n + f[e]>> \in Y) /\ (<<e, n>> \in Y => n >= f[e])
  <2>1. \A i : <<e, i>> \in Y <=> level[e[2]] < k /\ i \in ahead(c[e], k, r)
    BY WayIs
  <2>2. \A i : <<e, i>> \in Y2 <=> level[e[2]] < k /\ i \in ahead(d[e], k, r)
    BY WayIs
  <2>3. c[e] \in Seq(Messages)
    BY DEF Channels
  <2>. HIDE DEF Y, Y2
  <2>4. CASE e[2] = s /\ e[1] \in us /\ level[s] < k
    <3>1. e = <<e[1], s>> /\ c[e] # << >> /\ Head(c[e]) # Rec(r) /\ Head(c[e]) # Bar(k)
      BY <2>4, EdgeIs
    <3>2. f[e] = 1 /\ d[e] = Tail(c[e])
      BY <2>4
    <3>3. /\ \A i \in Nat : i >= 1 => (i \in ahead(d[e], k, r) <=> i + 1 \in ahead(c[e], k, r))
          /\ 1 \notin ahead(c[e], k, r)
          /\ \A i \in ahead(d[e], k, r) : i \in Nat /\ i >= 1
          /\ \A i \in ahead(c[e], k, r) : i \in Nat /\ i >= 1
      BY <2>3, <3>1, <3>2, AheadTail
    <3>. HIDE DEF f
    <3>4. n >= 1 \/ n = 0
      OBVIOUS
    <3>5. CASE n = 0
      BY <2>1, <2>2, <3>2, <3>3, <3>5
    <3>6. CASE n >= 1
      BY <2>1, <2>2, <3>2, <3>3, <3>6
    <3>. QED
      BY <3>4, <3>5, <3>6
  <2>5. CASE ~(e[2] = s /\ e[1] \in us /\ level[s] < k)
    <3>1. f[e] = 0 /\ (level[e[2]] < k => d[e] = c[e])
      BY <2>5
    <3>. HIDE DEF f
    <3>2. n + f[e] = n
      BY <3>1
    <3>3. n >= f[e]
      BY <3>1
    <3>. QED
      BY <2>1, <2>2, <3>1, <3>2, <3>3
  <2>. QED
    BY <2>4, <2>5
<1>. HIDE DEF f, Y, Y2
<1>4. Alike(Y, Y2)
  BY <1>1, <1>2, <1>3, AlikeShifted
<1>. QED
  BY <1>4 DEF Y, Y2

(* The record itself is taken: it was nowhere else on the way. *)
LEMMA TakenHere ==
  ASSUME NEW c \in Channels, NEW level, NEW k \in Nat, NEW r \in Records,
         NEW s \in Subtasks, NEW u \in Up[s], level[s] < k,
         c[<<u, s>>] # << >>, Head(c[<<u, s>>]) = Rec(r),
         AtMostOne(OnTheWay(c, level, k, r)),
         NEW d \in Channels, TakesFrom(c, d, s, {u})
  PROVE  OnTheWay(c, level, k, r) # {} /\ OnTheWay(d, level, k, r) = {}
<1>. USE DEF TakesFrom
<1>. DEFINE Y == OnTheWay(c, level, k, r)
            Y2 == OnTheWay(d, level, k, r)
            e0 == <<u, s>>
<1>1. e0 \in Edges /\ e0[2] = s /\ c[e0] \in Seq(Messages) /\ c[e0] # << >> /\ Head(c[e0]) = Rec(r)
      /\ Head(c[e0]) # Bar(k) /\ d[e0] = Tail(c[e0])
  BY EdgeIs, MessagesDiffer DEF Channels
<1>2. /\ \A i \in Nat : i >= 1 => (i \in ahead(d[e0], k, r) <=> i + 1 \in ahead(c[e0], k, r))
      /\ 1 \in ahead(c[e0], k, r)
      /\ \A i \in ahead(d[e0], k, r) : i \in Nat /\ i >= 1
  BY <1>1, AheadTail
<1>3. <<e0, 1>> \in Y
  BY <1>1, <1>2, WayIs
<1>4. ASSUME NEW p \in Y2 PROVE FALSE
  <2>1. p = <<p[1], p[2]>> /\ p[1] \in Edges /\ level[p[1][2]] < k /\ p[2] \in ahead(d[p[1]], k, r)
    <3>1. p = <<p[1], p[2]>>
      BY <1>4, WayIs
    <3>2. <<p[1], p[2]>> \in Y2
      BY <3>1
    <3>. QED
      BY <3>1, <3>2, WayIs
  <2>2. CASE p[1] = e0
    <3>1. p[2] + 1 \in ahead(c[e0], k, r) /\ p[2] \in Nat /\ p[2] >= 1
      BY <1>2, <2>1, <2>2
    <3>2. <<e0, p[2] + 1>> \in Y
      BY <1>1, <3>1, WayIs
    <3>3. <<e0, p[2] + 1>> = <<e0, 1>>
      <4>. DEFINE a == <<e0, p[2] + 1>>
                  b == <<e0, 1>>
      <4>. HIDE DEF a, b, Y
      <4>1. a = b
        BY <1>3, <3>2, Zenon DEF AtMostOne, Y, a, b
      <4>. QED
        BY <4>1 DEF a, b
    <3>. QED
      BY <3>1, <3>3
  <2>3. CASE p[1] # e0
    <3>1. ~(p[1][2] = s /\ p[1][1] \in {u})
      BY <2>1, <2>3, EdgeIs
    <3>2. d[p[1]] = c[p[1]]
      BY <2>1, <3>1
    <3>3. p \in Y
      BY <2>1, <3>2, WayIs
    <3>4. p = <<e0, 1>>
      <4>. DEFINE b == <<e0, 1>>
      <4>. HIDE DEF b, Y
      <4>1. p = b
        BY <1>3, <3>3, Zenon DEF AtMostOne, Y, b
      <4>. QED
        BY <4>1 DEF b
    <3>. QED
      BY <2>3, <3>4
  <2>. QED
    BY <2>2, <2>3
<1>. QED
  BY <1>3, <1>4

(* Barriers and ends of streams go out. *)
LEMMA BroadcastSame ==
  ASSUME NEW c \in Channels, NEW level, NEW k \in Nat, NEW r \in Records, NEW u, NEW m \in Messages, m # Rec(r),
         Broadcast(c, u, m) \in Channels
  PROVE  OnTheWay(c, level, k, r) = OnTheWay(Broadcast(c, u, m), level, k, r)
<1>1. ASSUME NEW e \in Edges PROVE ahead(c[e], k, r) = ahead(Broadcast(c, u, m)[e], k, r)
  <2>1. c[e] \in Seq(Messages) /\ Rec(r) # Bar(k)
    BY MessagesDiffer DEF Channels
  <2>2. ahead(Append(c[e], m), k, r) = ahead(c[e], k, r)
    BY <2>1, AheadAppend
  <2>. QED
    BY <2>2 DEF Broadcast
<1>. QED
  BY <1>1, WaySame

(* A record goes out: another one, or behind the barrier. *)
LEMMA EmitSame ==
  ASSUME NEW c \in Channels, NEW over, NEW level \in [Subtasks -> Nat], Leveled(c, over, level),
         NEW u \in Subtasks, \A e \in Edges : e[1] = u => u \notin over[e[2]],
         NEW k \in Nat, NEW r \in Records, NEW q \in Records, q # r \/ level[u] >= k
  PROVE  OnTheWay(c, level, k, r) = OnTheWay(EmitRecord(c, u, q), level, k, r)
<1>1. EmitRecord(c, u, q) \in Channels
  BY EmitKeeps
<1>2. ASSUME NEW e \in Edges, level[e[2]] < k
      PROVE  ahead(c[e], k, r) = ahead(EmitRecord(c, u, q)[e], k, r)
  <2>1. c[e] \in Seq(Messages) /\ Rec(r) # Bar(k) /\ Rec(q) \in Messages
    BY MessagesDiffer DEF Channels, Messages
  <2>2. CASE e[1] = u
    <3>1. q # r => Rec(q) # Rec(r)
      BY MessagesDiffer
    <3>2. ASSUME level[u] >= k PROVE \E m \in 1..Len(c[e]) : c[e][m] = Bar(k)
      <4>1. Between(c[e], level[e[2]], level[u]) /\ level[e[2]] \in Nat /\ level[u] \in Nat
        BY <2>2, EdgeIs DEF Leveled
      <4>. QED
        BY <1>2, <2>1, <3>2, <4>1, BarrierInside
    <3>3. ahead(Append(c[e], Rec(q)), k, r) = ahead(c[e], k, r)
      BY <2>1, <3>1, <3>2, AheadAppend
    <3>. QED
      BY <3>3 DEF EmitRecord
  <2>3. CASE e[1] # u
    BY <2>3 DEF EmitRecord
  <2>. QED
    BY <2>2, <2>3
<1>. QED
  BY <1>1, <1>2, WaySame

(* The record itself goes out, ahead of the barrier. *)
LEMMA EmitHere ==
  ASSUME NEW c \in Channels, NEW over, NEW level \in [Subtasks -> Nat], Leveled(c, over, level),
         NEW u \in Subtasks, \A e \in Edges : e[1] = u => u \notin over[e[2]],
         NEW k \in Nat, NEW r \in Records, level[u] < k,
         NEW d \in Subtasks, u \in Up[d], Dest(u, r) = {d}
  PROVE  Gains(OnTheWay(c, level, k, r), OnTheWay(EmitRecord(c, u, r), level, k, r))
<1>. DEFINE e0 == <<u, d>>
            c2 == EmitRecord(c, u, r)
            y == <<e0, Len(c[e0]) + 1>>
<1>1. c2 \in Channels
  BY EmitKeeps
<1>2. e0 \in Edges /\ e0[1] = u /\ e0[2] = d
  BY EdgeIs
<1>3. /\ Between(c[e0], level[d], level[u]) /\ level[d] \in Nat /\ level[u] \in Nat /\ level[d] < k
      /\ c[e0] \in Seq(Messages) /\ Rec(r) # Bar(k) /\ Rec(r) \in Messages
  <2>1. Between(c[e0], level[d], level[u]) /\ c[e0] \in Seq(Messages)
    BY <1>2 DEF Leveled, Channels
  <2>2. level[d] <= level[u] /\ level[d] \in Nat /\ level[u] \in Nat
    BY <2>1 DEF Between
  <2>. QED
    BY <2>1, <2>2, MessagesDiffer DEF Messages
<1>4. \A m \in 1..Len(c[e0]) : c[e0][m] # Bar(k)
  BY <1>3, BarrierInside
<1>5. ahead(Append(c[e0], Rec(r)), k, r) = ahead(c[e0], k, r) \cup {Len(c[e0]) + 1}
  <2>. DEFINE ce == c[e0]
  <2>. HIDE DEF ce
  <2>1. ce \in Seq(Messages) /\ \A m \in 1..Len(ce) : ce[m] # Bar(k)
    BY <1>3, <1>4 DEF ce
  <2>2. ahead(Append(ce, Rec(r)), k, r) = ahead(ce, k, r) \cup {Len(ce) + 1}
    BY <1>3, <2>1, AheadAppend
  <2>. QED
    BY <2>2 DEF ce
<1>6. c2[e0] = Append(c[e0], Rec(r))
  BY <1>2 DEF EmitRecord
<1>7. \A e \in Edges : e # e0 => c2[e] = c[e]
  BY EdgeIs DEF EmitRecord
<1>8. \A e, n : <<e, n>> \in OnTheWay(c, level, k, r) <=> e \in Edges /\ level[e[2]] < k /\ n \in ahead(c[e], k, r)
  BY WayIs
<1>9. \A e, n : <<e, n>> \in OnTheWay(c2, level, k, r) <=> e \in Edges /\ level[e[2]] < k /\ n \in ahead(c2[e], k, r)
  BY <1>1, WayIs
<1>. HIDE DEF c2, e0
<1>10. \A e, n : <<e, n>> \in OnTheWay(c2, level, k, r) <=> <<e, n>> \in OnTheWay(c, level, k, r) \/ <<e, n>> = y
  <2>1. TAKE e, n
  <2>2. CASE e = e0
    <3>1. n \in ahead(c2[e], k, r) <=> n \in ahead(c[e], k, r) \/ n = Len(c[e0]) + 1
      BY <1>5, <1>6, <2>2
    <3>. QED
      BY <1>2, <1>3, <1>8, <1>9, <2>2, <3>1
  <2>3. CASE e # e0
    <3>1. <<e, n>> # y
      BY <2>3
    <3>. QED
      BY <1>7, <1>8, <1>9, <2>3, <3>1
  <2>. QED
    BY <2>2, <2>3
<1>11. \A p \in OnTheWay(c, level, k, r) : p = <<p[1], p[2]>>
  BY WayIs
<1>12. \A p \in OnTheWay(c2, level, k, r) : p = <<p[1], p[2]>>
  BY <1>1, WayIs
<1>13. OnTheWay(c2, level, k, r) = OnTheWay(c, level, k, r) \cup {y}
  <2>1. y = <<y[1], y[2]>>
    OBVIOUS
  <2>. HIDE DEF y
  <2>2. \A p : p \in OnTheWay(c2, level, k, r) <=> p \in OnTheWay(c, level, k, r) \/ p = y
    BY <1>10, <1>11, <1>12, <2>1
  <2>. QED
    BY <2>2
<1>. QED
  BY <1>13 DEF c2, Gains

(* The level of s is raised to k. *)
Raised(level, nlv, s, k) == \A x \in Subtasks : nlv[x] = IF x = s THEN k ELSE level[x]

(* A subtask takes the barrier it stands before: what it still had to take *)
(* of the cut was nothing.                                                 *)
LEMMA RaisedSame ==
  ASSUME NEW c \in Channels, NEW level \in [Subtasks -> Nat],
         NEW s \in Subtasks, NEW j \in Nat, j = level[s] + 1,
         \A u \in Up[s] : c[<<u, s>>] = << >> \/ (c[<<u, s>>] # << >> /\ Head(c[<<u, s>>]) = Bar(j)),
         NEW lv, Raised(level, lv, s, j), NEW k \in Nat, NEW r \in Records
  PROVE  OnTheWay(c, level, k, r) = OnTheWay(c, lv, k, r)
<1>1. /\ \A x \in Subtasks : x # s => lv[x] = level[x]
      /\ lv[s] = j /\ \A x \in Subtasks : level[x] \in Nat
  BY DEF Raised
<1>2. ASSUME NEW e \in Edges
      PROVE  \/ level[e[2]] < k /\ lv[e[2]] < k
             \/ ~(level[e[2]] < k) /\ ~(lv[e[2]] < k)
             \/ ~(lv[e[2]] < k) /\ ahead(c[e], k, r) = {}
  <2>1. e[2] \in Subtasks /\ e[1] \in Up[e[2]] /\ e = <<e[1], e[2]>> /\ c[e] \in Seq(Messages)
    BY EdgeIs DEF Channels
  <2>2. CASE e[2] # s
    BY <1>1, <2>1, <2>2
  <2>3. CASE e[2] = s /\ j # k
    BY <1>1, <2>1, <2>3
  <2>4. CASE e[2] = s /\ j = k
    <3>1. c[e] = << >> \/ (c[e] # << >> /\ Head(c[e]) = Bar(k))
      BY <2>1, <2>4
    <3>2. CASE c[e] = << >>
      BY <1>1, <2>4, <3>2 DEF ahead
    <3>3. CASE c[e] # << >> /\ Head(c[e]) = Bar(k)
      <4>1. 1 \notin ahead(c[e], k, r) /\ \A n \in ahead(c[e], k, r) : n = 1
        BY <2>1, <3>3, AheadTail, MessagesDiffer
      <4>. QED
        BY <1>1, <2>4, <4>1
    <3>. QED
      BY <3>1, <3>2, <3>3
  <2>. QED
    BY <2>2, <2>3, <2>4
<1>. QED
  BY <1>2, WaySame

(* SetToSeq lists every element, and none twice. *)
LEMMA SetToSeqListsAll ==
  ASSUME NEW S, IsFiniteSet(S)
  PROVE  /\ SetToSeq(S) \in Seq(S)
         /\ \A x \in S : \E n \in 1..Len(SetToSeq(S)) : SetToSeq(S)[n] = x
         /\ \A m, n \in 1..Len(SetToSeq(S)) : SetToSeq(S)[m] = SetToSeq(S)[n] => m = n
<1>1. Cardinality(S) \in Nat /\ ExistsBijection(1..Cardinality(S), S)
  BY FS_CardinalityType
<1>2. PICK f : f \in Bijection(1..Cardinality(S), S)
  BY <1>1 DEF ExistsBijection
<1>3. f \in [1..Cardinality(S) -> S] /\ IsInjective(f)
  BY <1>2 DEF Bijection, Injection, Surjection, IsInjective
<1>4. SetToSeq(S) \in [1..Cardinality(S) -> S] /\ IsInjective(SetToSeq(S))
  BY <1>3 DEF SetToSeq
<1>. DEFINE g == SetToSeq(S)
<1>. HIDE DEF g
<1>5. g \in Injection(1..Cardinality(S), S)
  BY <1>4 DEF Injection, g
<1>6. Cardinality(1..Cardinality(S)) = Cardinality(S)
  BY <1>1, FS_Interval
<1>7. g \in Surjection(1..Cardinality(S), S)
  BY <1>5, <1>6, FS_Injection
<1>8. g \in [1..Cardinality(S) -> S] /\ \A x \in S : \E n \in 1..Cardinality(S) : g[n] = x
  BY <1>7 DEF Surjection
<1>9. g \in Seq(S) /\ Len(g) = Cardinality(S)
  BY <1>1, <1>8
<1>10. \A m, n \in 1..Cardinality(S) : g[m] = g[n] => m = n
  BY <1>4, <1>8 DEF IsInjective, g
<1>. QED
  BY <1>8, <1>9, <1>10 DEF g

(* What an operator sends at its end: all it holds, each record once. *)
LEMMA FlushedIs ==
  ASSUME held \in [Operators -> SUBSET Records], NEW o \in Operators, NEW s
  PROVE  /\ flushed(o, s) \in Seq(Messages)
         /\ \A n \in 1..Len(flushed(o, s)) : \E r \in held[o] : s \in Dest(o, r) /\ flushed(o, s)[n] = Rec(r)
         /\ \A r \in held[o] : s \in Dest(o, r) => \E n \in 1..Len(flushed(o, s)) : flushed(o, s)[n] = Rec(r)
         /\ \A m, n \in 1..Len(flushed(o, s)) : flushed(o, s)[m] = flushed(o, s)[n] => m = n
<1>. DEFINE S == {r \in held[o] : s \in Dest(o, r)}
            rs == SetToSeq(S)
            q == flushed(o, s)
<1>1. S \subseteq Records /\ IsFiniteSet(S)
  BY FS_Subset, JobAssumption
<1>2. /\ rs \in Seq(S)
      /\ \A x \in S : \E n \in 1..Len(rs) : rs[n] = x
      /\ \A m, n \in 1..Len(rs) : rs[m] = rs[n] => m = n
  BY <1>1, SetToSeqListsAll
<1>3. q = [n \in 1..Len(rs) |-> Rec(rs[n])]
  BY DEF flushed
<1>. HIDE DEF rs, q
<1>4. Len(rs) \in Nat /\ \A n \in 1..Len(rs) : rs[n] \in S
  BY <1>2
<1>5. \A r \in S : Rec(r) \in Messages
  BY <1>1 DEF Messages
<1>6. q \in Seq(Messages) /\ Len(q) = Len(rs) /\ \A n \in 1..Len(rs) : q[n] = Rec(rs[n])
  BY <1>3, <1>4, <1>5
<1>7. \A n \in 1..Len(q) : \E r \in S : q[n] = Rec(r)
  BY <1>4, <1>6
<1>8. \A r \in S : \E n \in 1..Len(q) : q[n] = Rec(r)
  BY <1>2, <1>6
<1>9. \A m, n \in 1..Len(q) : q[m] = q[n] => m = n
  <2>1. \A x, y \in S : Rec(x) = Rec(y) => x = y
    BY DEF Rec
  <2>. QED
    BY <1>2, <1>4, <1>6, <2>1
<1>. QED
  BY <1>6, <1>7, <1>8, <1>9 DEF q

(* Sets of pairs, compared pair by pair. *)
LEMMA PairsSame ==
  ASSUME NEW A, NEW B, \A p \in A : p = <<p[1], p[2]>>, \A p \in B : p = <<p[1], p[2]>>,
         \A e, n : <<e, n>> \in A <=> <<e, n>> \in B
  PROVE  A = B
<1>1. ASSUME NEW p \in A PROVE p \in B
  <2>1. p = <<p[1], p[2]>>
    OBVIOUS
  <2>. QED
    BY <2>1
<1>2. ASSUME NEW p \in B PROVE p \in A
  <2>1. p = <<p[1], p[2]>>
    OBVIOUS
  <2>. QED
    BY <2>1
<1>. QED
  BY <1>1, <1>2

(* c is the channels once o has sent on everything it holds. *)
LetsGo(c, o) == \A e \in Edges : c[e] = IF e[1] = o THEN chan[e] \o flushed(o, e[2]) ELSE chan[e]

(* An operator lets go of what it holds: the record goes out ahead of the  *)
(* barrier if the operator is not past it.                                 *)
LEMMA FlushMoves ==
  ASSUME NEW level \in [Subtasks -> Nat], Leveled(chan, ended, level), chan \in Channels,
         held \in [Operators -> SUBSET Records], NEW o \in Operators, o \in Subtasks,
         \A e \in Edges : e[1] = o => o \notin ended[e[2]],
         NEW k \in Nat, NEW r \in Records,
         r \in held[o] => \E d \in Subtasks : o \in Up[d] /\ Dest(o, r) = {d},
         NEW c \in Channels, LetsGo(c, o)
  PROVE  /\ r \notin held[o] \/ level[o] >= k => OnTheWay(c, level, k, r) = OnTheWay(chan, level, k, r)
         /\ r \in held[o] /\ level[o] < k => Gains(OnTheWay(chan, level, k, r), OnTheWay(c, level, k, r))
<1>. USE DEF LetsGo
<1>1. /\ \A e, n : <<e, n>> \in OnTheWay(chan, level, k, r) <=> e \in Edges /\ level[e[2]] < k /\ n \in ahead(chan[e], k, r)
      /\ \A p \in OnTheWay(chan, level, k, r) : p = <<p[1], p[2]>>
  BY WayIs
<1>2. /\ \A e, n : <<e, n>> \in OnTheWay(c, level, k, r) <=> e \in Edges /\ level[e[2]] < k /\ n \in ahead(c[e], k, r)
      /\ \A p \in OnTheWay(c, level, k, r) : p = <<p[1], p[2]>>
  BY WayIs
<1>3. \A e \in Edges : e[1] # o => c[e] = chan[e]
  OBVIOUS
<1>4. Rec(r) # Bar(k) /\ \A q \in Records : Rec(q) # Bar(k) /\ (Rec(q) = Rec(r) => q = r)
  BY MessagesDiffer
<1>5. ASSUME NEW e \in Edges, e[1] = o, level[e[2]] < k, r \notin held[o] \/ level[o] >= k
      PROVE  ahead(c[e], k, r) = ahead(chan[e], k, r)
  <2>. DEFINE q == flushed(o, e[2])
              ce == chan[e]
  <2>1. /\ q \in Seq(Messages) /\ ce \in Seq(Messages) /\ c[e] = ce \o q
        /\ \A n \in 1..Len(q) : \E x \in held[o] : q[n] = Rec(x)
    BY <1>5, FlushedIs DEF Channels
  <2>. HIDE DEF q
  <2>2. CASE r \notin held[o]
    <3>1. \A n \in 1..Len(q) : q[n] # Rec(r)
      BY <1>4, <2>1, <2>2
    <3>. HIDE DEF ce
    <3>2. ahead(ce \o q, k, r) = ahead(ce, k, r)
      BY <2>1, <3>1, AheadConcat
    <3>. QED
      BY <2>1, <3>2 DEF ce
  <2>3. CASE level[o] >= k
    <3>1. Between(ce, level[e[2]], level[o]) /\ level[e[2]] \in Nat /\ level[o] \in Nat
      BY <1>5, EdgeIs DEF Leveled
    <3>. HIDE DEF ce
    <3>2. \E n \in 1..Len(ce) : ce[n] = Bar(k)
      BY <1>5, <2>1, <2>3, <3>1, BarrierInside
    <3>3. ahead(ce \o q, k, r) = ahead(ce, k, r)
      BY <2>1, <3>2, AheadConcat
    <3>. QED
      BY <2>1, <3>3 DEF ce
  <2>. QED
    BY <1>5, <2>2, <2>3
<1>6. ASSUME r \notin held[o] \/ level[o] >= k
      PROVE  OnTheWay(c, level, k, r) = OnTheWay(chan, level, k, r)
  <2>1. \A e, n : <<e, n>> \in OnTheWay(c, level, k, r) <=> <<e, n>> \in OnTheWay(chan, level, k, r)
    <3>1. TAKE e, n
    <3>2. CASE e \in Edges /\ e[1] = o /\ level[e[2]] < k
      <4>1. ahead(c[e], k, r) = ahead(chan[e], k, r)
        BY <1>5, <1>6, <3>2
      <4>. QED
        BY <1>1, <1>2, <4>1
    <3>3. CASE ~(e \in Edges /\ e[1] = o /\ level[e[2]] < k)
      BY <1>1, <1>2, <1>3, <3>3
    <3>. QED
      BY <3>2, <3>3
  <2>. QED
    BY <1>1, <1>2, <2>1, PairsSame
<1>7. ASSUME r \in held[o], level[o] < k
      PROVE  Gains(OnTheWay(chan, level, k, r), OnTheWay(c, level, k, r))
  <2>1. PICK d \in Subtasks : o \in Up[d] /\ Dest(o, r) = {d}
    BY <1>7
  <2>. DEFINE e0 == <<o, d>>
              q == flushed(o, d)
              ce == chan[e0]
  <2>2. e0 \in Edges /\ e0[1] = o /\ e0[2] = d
    BY <2>1, EdgeIs
  <2>3. /\ q \in Seq(Messages) /\ ce \in Seq(Messages) /\ c[e0] = ce \o q
        /\ \A n \in 1..Len(q) : \E x \in held[o] : q[n] = Rec(x)
        /\ \E n \in 1..Len(q) : q[n] = Rec(r)
        /\ \A m, n \in 1..Len(q) : q[m] = q[n] => m = n
    <3>1. /\ q \in Seq(Messages)
          /\ \A n \in 1..Len(q) : \E x \in held[o] : d \in Dest(o, x) /\ q[n] = Rec(x)
          /\ \A x \in held[o] : d \in Dest(o, x) => \E n \in 1..Len(q) : q[n] = Rec(x)
          /\ \A m, n \in 1..Len(q) : q[m] = q[n] => m = n
      BY FlushedIs
    <3>2. ce \in Seq(Messages) /\ c[e0] = ce \o q
      BY <2>2 DEF Channels
    <3>3. d \in Dest(o, r)
      BY <2>1
    <3>. HIDE DEF q, ce, e0
    <3>. QED
      BY <1>7, <3>1, <3>2, <3>3
  <2>4. Between(ce, level[d], level[o]) /\ level[d] \in Nat /\ level[o] \in Nat
    BY <2>2, <2>1 DEF Leveled
  <2>5. level[d] < k
    <3>1. level[d] <= level[o]
      BY <2>4 DEF Between
    <3>. QED
      BY <1>7, <2>4, <3>1
  <2>. HIDE DEF q, ce
  <2>6. (\A m \in 1..Len(ce) : ce[m] # Bar(k)) /\ (\A m \in 1..Len(q) : q[m] # Bar(k))
    <3>1. \A m \in 1..Len(ce) : ce[m] # Bar(k)
      BY <1>7, <2>3, <2>4, BarrierInside
    <3>2. \A m \in 1..Len(q) : q[m] # Bar(k)
      BY <1>4, <2>3
    <3>. QED
      BY <3>1, <3>2
  <2>7. PICK i \in 1..Len(q) : q[i] = Rec(r)
    BY <2>3
  <2>8. \A n : n \in ahead(ce \o q, k, r) <=> n \in ahead(ce, k, r) \/ n = Len(ce) + i
    <3>1. \A n : n \in ahead(ce \o q, k, r) <=>
                   \/ n \in ahead(ce, k, r)
                   \/ n \in Len(ce)+1..Len(ce)+Len(q) /\ q[n - Len(ce)] = Rec(r)
      <4>1. ce \in Seq(Messages) /\ q \in Seq(Messages)
        BY <2>3
      <4>. QED
        BY <2>6, <4>1, AheadConcat
    <3>2. Len(ce) \in Nat /\ Len(q) \in Nat
      BY <2>3
    <3>3. ASSUME NEW n \in Len(ce)+1..Len(ce)+Len(q), q[n - Len(ce)] = Rec(r) PROVE n = Len(ce) + i
      <4>1. n - Len(ce) \in 1..Len(q)
        BY <3>2
      <4>2. n - Len(ce) = i
        BY <2>3, <2>7, <3>3, <4>1
      <4>. QED
        BY <3>2, <4>2
    <3>4. Len(ce) + i \in Len(ce)+1..Len(ce)+Len(q) /\ (Len(ce) + i) - Len(ce) = i
      BY <3>2
    <3>5. q[(Len(ce) + i) - Len(ce)] = Rec(r)
      BY <2>7, <3>4
    <3>. QED
      BY <3>1, <3>3, <3>4, <3>5
  <2>. DEFINE y == <<e0, Len(ce) + i>>
  <2>9. ASSUME NEW e \in Edges, e # e0, level[e[2]] < k PROVE ahead(c[e], k, r) = ahead(chan[e], k, r)
    <3>1. CASE e[1] # o
      BY <1>3, <3>1
    <3>2. CASE e[1] = o
      <4>1. e[2] # d
        BY <2>9, <3>2, EdgeIs
      <4>. DEFINE w == flushed(o, e[2])
                  cx == chan[e]
      <4>2. /\ w \in Seq(Messages) /\ cx \in Seq(Messages) /\ c[e] = cx \o w
            /\ \A n \in 1..Len(w) : \E x \in held[o] : e[2] \in Dest(o, x) /\ w[n] = Rec(x)
        BY <3>2, FlushedIs DEF Channels
      <4>. HIDE DEF w, cx
      <4>3. \A n \in 1..Len(w) : w[n] # Rec(r)
        <5>1. ASSUME NEW n \in 1..Len(w), w[n] = Rec(r) PROVE FALSE
          <6>1. PICK x \in held[o] : e[2] \in Dest(o, x) /\ w[n] = Rec(x)
            BY <4>2
          <6>2. x = r
            BY <1>4, <5>1, <6>1
          <6>. QED
            BY <2>1, <4>1, <6>1, <6>2
        <5>. QED
          BY <5>1
      <4>4. ahead(cx \o w, k, r) = ahead(cx, k, r)
        BY <4>2, <4>3, AheadConcat
      <4>. QED
        BY <4>2, <4>4 DEF cx
    <3>. QED
      BY <3>1, <3>2
  <2>. HIDE DEF e0
  <2>10. \A e, n : <<e, n>> \in OnTheWay(c, level, k, r) <=> <<e, n>> \in OnTheWay(chan, level, k, r) \/ <<e, n>> = y
    <3>1. TAKE e, n
    <3>2. CASE e = e0
      <4>1. n \in ahead(c[e], k, r) <=> n \in ahead(chan[e], k, r) \/ n = Len(ce) + i
        BY <2>3, <2>8, <3>2 DEF ce
      <4>. QED
        BY <1>1, <1>2, <2>2, <2>5, <3>2, <4>1
    <3>3. CASE e # e0
      <4>1. <<e, n>> # y
        BY <3>3
      <4>. QED
        BY <1>1, <1>2, <2>9, <3>3, <4>1
    <3>. QED
      BY <3>2, <3>3
  <2>11. y = <<y[1], y[2]>>
    OBVIOUS
  <2>. HIDE DEF y
  <2>. DEFINE B == OnTheWay(chan, level, k, r) \cup {y}
  <2>12. \A p \in B : p = <<p[1], p[2]>>
    BY <1>1, <2>11
  <2>13. \A e, n : <<e, n>> \in OnTheWay(c, level, k, r) <=> <<e, n>> \in B
    BY <2>10
  <2>. HIDE DEF B
  <2>14. OnTheWay(c, level, k, r) = B
    BY <1>2, <2>12, <2>13, PairsSame
  <2>. QED
    BY <2>14 DEF B, Gains
<1>. QED
  BY <1>6, <1>7

-----------------------------------------------------------------------------
(* Routes, and what calls do to the coordinator. *)

(* RouteAssumption, unfolded: the route goes on to a sink, and to one. *)
LEMMA RouteIs ==
  ASSUME NEW r \in Records
  PROVE  /\ r[1] \in route(r) /\ route(r) \subseteq Subtasks
         /\ \A u \in route(r) : u \notin Sinks =>
              \E d \in Subtasks : d \in route(r) /\ u \in Up[d] /\ Dest(u, r) = {d}
         /\ \E s \in Sinks : s \in route(r) /\ \A x \in Sinks : x \in route(r) => x = s
<1>1. r[1] \in route(r) /\ route(r) \subseteq Subtasks
  BY RecordIs DEF route
<1>2. ASSUME NEW u \in route(r), u \notin Sinks
      PROVE  \E d \in Subtasks : d \in route(r) /\ u \in Up[d] /\ Dest(u, r) = {d}
  <2>1. PICK d \in Subtasks : u \in Up[d] /\ Dest(u, r) = {d}
    BY <1>2, RouteAssumption
  <2>2. ASSUME NEW S \in SUBSET Subtasks, r[1] \in S, \A v \in S \ Sinks : Dest(v, r) \subseteq S
        PROVE  d \in S
    <3>1. u \in S
      BY <1>2, <2>2 DEF route
    <3>. QED
      BY <1>2, <2>1, <2>2, <3>1
  <2>3. d \in route(r)
    BY <2>2 DEF route
  <2>. QED
    BY <2>1, <2>3
<1>3. PICK s \in Sinks : route(r) \cap Sinks = {s}
  BY RouteAssumption
<1>. QED
  BY <1>1, <1>2, <1>3

(* What holds at the source and is handed on along the route holds on all  *)
(* of it.                                                                  *)
LEMMA RouteInduction ==
  ASSUME NEW r \in Records, NEW S \in SUBSET Subtasks, r[1] \in S,
         \A u \in S : u \notin Sinks => Dest(u, r) \subseteq S
  PROVE  route(r) \subseteq S
BY DEF route

-----------------------------------------------------------------------------
(* What a call does to the checkpoints that are not over: nothing, but     *)
(* that the ones in X are counted for k with payload p.  A checkpoint that *)
(* completes has the files of those that acknowledged and of the finished. *)
Effect(k, X, p) ==
  /\ \A j \in IDs : ~terminal(j)' =>
       /\ ~terminal(j)
       /\ \A y \in Subtasks : /\ y \in acked'[j] <=> y \in acked[j] \/ (j = k /\ y \in X)
                              /\ files'[j][y] = IF j = k /\ y \in X THEN p ELSE files[j][y]
  /\ \A j \in IDs : marker'[j] /\ ~marker[j] =>
       /\ ~terminal(j) /\ terminal(j)'
       /\ \A y \in Subtasks : \/ j = k /\ y \in X /\ files'[j][y] = p
                              \/ y \in acked[j] /\ files'[j][y] = files[j][y]
                              \/ y \notin acked[j] /\ done'[y] # NoFile /\ files'[j][y] = done'[y]
  /\ \A j \in IDs : (status[j] = "complete" => status'[j] = "complete") /\ (marker[j] => marker'[j])
  /\ \A j \in IDs : terminal(j) => files'[j] = files[j]
  /\ \A j \in IDs : status'[j] = "unknown" => files'[j] = files[j]
  /\ \A j \in IDs : acked'[j] \subseteq acked[j] \cup X /\ (j # k => acked'[j] \subseteq acked[j])

(* Acknowledge, whether it succeeds or not. *)
LEMMA AckHasEffect ==
  ASSUME Types, NEW k \in IDs, NEW s \in Subtasks, NEW p,
         Acknowledged(k, s, p) \/ AcknowledgeFails(k, s, p) \/ Fail(k, s)
  PROVE  Effect(k, {s}, p) /\ done' = done
<1>. DEFINE who == acked[k] \cup {s}
            row == [files[k] EXCEPT ![s] = p]
            full == filled(row, who, done)
<1>1. /\ row[s] = p /\ \A y \in Subtasks : y # s => row[y] = files[k][y]
  BY DEF Types
<1>2. outstanding(who, done) = {} =>
        \A y \in Subtasks : \/ y \in {s} /\ full[y] = p
                            \/ y \in acked[k] /\ full[y] = files[k][y]
                            \/ y \notin acked[k] /\ done[y] # NoFile /\ full[y] = done[y]
  <2>. HIDE DEF row
  <2>. QED
    BY <1>1 DEF outstanding, filled
<1>3. CASE AckIgnored(k, s)
  BY <1>3 DEF AckIgnored, Effect, coordinator, memory, disk, terminal
<1>4. CASE AckRecorded(k, s, p)
  <2>1. /\ ~terminal(k) /\ status' = [status EXCEPT ![k] = "open"] /\ acked' = [acked EXCEPT ![k] = @ \cup {s}]
        /\ files' = [files EXCEPT ![k][s] = p] /\ done' = done /\ marker' = marker
    BY <1>4 DEF AckRecorded, mayAcknowledge
  <2>2. \A j \in IDs : j # k => status'[j] = status[j] /\ acked'[j] = acked[j] /\ files'[j] = files[j]
    BY <2>1 DEF Types
  <2>3. status'[k] = "open" /\ acked'[k] = acked[k] \cup {s}
    BY <2>1 DEF Types
  <2>4. \A y \in Subtasks : files'[k][y] = IF y = s THEN p ELSE files[k][y]
    BY <2>1 DEF Types
  <2>5. marker' = marker /\ done' = done
    BY <2>1
  <2>. QED
    BY <2>1, <2>2, <2>3, <2>4, <2>5 DEF Effect, terminal
<1>5. CASE AckCompletes(k, s, p)
  <2>1. /\ ~terminal(k) /\ outstanding(who, done) = {}
        /\ status' = [status EXCEPT ![k] = "complete"] /\ acked' = [acked EXCEPT ![k] = {}]
        /\ files' = [files EXCEPT ![k] = full] /\ done' = done /\ marker' = [marker EXCEPT ![k] = TRUE]
    BY <1>5 DEF AckCompletes, mayAcknowledge
  <2>. HIDE DEF row, full, who
  <2>2. /\ \A j \in IDs : j # k => /\ status'[j] = status[j] /\ acked'[j] = acked[j]
                                   /\ files'[j] = files[j] /\ marker'[j] = marker[j]
        /\ status'[k] = "complete" /\ acked'[k] = {} /\ files'[k] = full /\ marker'[k] = TRUE
    BY <2>1 DEF Types
  <2>. QED
    BY <1>2, <2>1, <2>2 DEF Effect, terminal
<1>6. CASE AckWriteFails(k, s) \/ Fail(k, s)
  <2>1. /\ \E w \in {"complete", "abandoned"} :
              status' = [status EXCEPT ![k] = w] /\ (status[k] = "complete" => w = "complete")
        /\ acked' = [acked EXCEPT ![k] = {}]
        /\ files' = files /\ done' = done /\ marker' = marker
    BY <1>6 DEF AckWriteFails, Fail, mayAcknowledge, disk, terminal
  <2>2. /\ \A j \in IDs : j # k => status'[j] = status[j] /\ acked'[j] = acked[j]
        /\ status'[k] \in {"complete", "abandoned"} /\ acked'[k] = {}
        /\ status[k] = "complete" => status'[k] = "complete"
    <3>1. PICK w \in {"complete", "abandoned"} :
            status' = [status EXCEPT ![k] = w] /\ (status[k] = "complete" => w = "complete")
      BY <2>1
    <3>. QED
      BY <2>1, <3>1 DEF Types
  <2>. QED
    BY <2>1, <2>2 DEF Effect, terminal
<1>7. CASE AckCompleteFails(k, s, p)
  <2>1. /\ ~terminal(k) /\ outstanding(who, done) = {}
        /\ status' = [status EXCEPT ![k] = "abandoned"] /\ acked' = [acked EXCEPT ![k] = {}] /\ done' = done
    BY <1>7 DEF AckCompleteFails, mayAcknowledge
  <2>2. PICK left \in partlyFilled(row, who, done), marked \in SUBSET {k} :
          /\ k \in marked => left = full
          /\ files' = [files EXCEPT ![k] = left] /\ marker' = [marker EXCEPT ![k] = @ \/ k \in marked]
    BY <1>7 DEF AckCompleteFails
  <2>. HIDE DEF row, full, who
  <2>3. /\ \A j \in IDs : j # k => /\ status'[j] = status[j] /\ acked'[j] = acked[j]
                                   /\ files'[j] = files[j] /\ marker'[j] = marker[j]
        /\ status'[k] = "abandoned" /\ acked'[k] = {} /\ files'[k] = left
    BY <2>1, <2>2 DEF Types
  <2>4. (marker[k] => marker'[k]) /\ (marker'[k] /\ ~marker[k] => k \in marked)
    BY <2>2, Zenon DEF Types
  <2>5. marker'[k] /\ ~marker[k] => files'[k] = full
    BY <2>2, <2>3, <2>4
  <2>. QED
    BY <1>2, <2>1, <2>3, <2>4, <2>5 DEF Effect, terminal
<1>. QED
  BY <1>3, <1>4, <1>5, <1>6, <1>7 DEF Acknowledged, AcknowledgeFails

(* Finished counts nobody, but lets the position stand in for a file. *)
LEMMA FinishedHasEffect ==
  ASSUME Types, NEW s \in Subtasks, NEW p, NEW k, FinishedOK(s, p) \/ FinishedFails(s, p)
  PROVE  Effect(k, {}, p) /\ done' = [done EXCEPT ![s] = p]
<1>. DEFINE over == [done EXCEPT ![s] = p]
<1>1. done' = over
  BY DEF FinishedOK, FinishedFails
<1>. HIDE DEF over
<1>2. ASSUME NEW j \in ready(over)
      PROVE  /\ status[j] = "open"
             /\ \A y \in Subtasks : \/ y \in acked[j] /\ filled(files[j], acked[j], over)[y] = files[j][y]
                                    \/ y \notin acked[j] /\ over[y] # NoFile /\ filled(files[j], acked[j], over)[y] = over[y]
  BY DEF ready, outstanding, filled
<1>3. CASE FinishedOK(s, p)
  <2>. DEFINE now == ready(over)
  <2>1. /\ status' = [j \in IDs |-> IF j \in now THEN "complete" ELSE status[j]]
        /\ acked' = [j \in IDs |-> IF j \in now THEN {} ELSE acked[j]]
        /\ files' = [j \in IDs |-> IF j \in now THEN filled(files[j], acked[j], over) ELSE files[j]]
        /\ marker' = [j \in IDs |-> j \in now \/ marker[j]]
    BY <1>3 DEF FinishedOK, over
  <2>2. \A j \in now : /\ status[j] = "open"
                       /\ \A y \in Subtasks : \/ y \in acked[j] /\ filled(files[j], acked[j], over)[y] = files[j][y]
                                              \/ y \notin acked[j] /\ over[y] # NoFile /\ filled(files[j], acked[j], over)[y] = over[y]
    BY <1>2
  <2>. HIDE DEF now
  <2>3. ASSUME NEW j \in IDs, j \notin now
        PROVE  status'[j] = status[j] /\ acked'[j] = acked[j] /\ files'[j] = files[j] /\ marker'[j] = marker[j]
    BY <2>1, <2>3 DEF Types
  <2>4. ASSUME NEW j \in IDs, j \in now
        PROVE  /\ status'[j] = "complete" /\ acked'[j] = {} /\ marker'[j] = TRUE
               /\ files'[j] = filled(files[j], acked[j], over)
    BY <2>1, <2>4
  <2>5. ASSUME NEW j \in IDs, j \in now, NEW y \in Subtasks
        PROVE  \/ y \in acked[j] /\ files'[j][y] = files[j][y]
               \/ y \notin acked[j] /\ done'[y] # NoFile /\ files'[j][y] = done'[y]
    <3>1. files'[j] = filled(files[j], acked[j], over)
      BY <2>4, <2>5
    <3>. QED
      BY <1>1, <2>2, <2>5, <3>1
  <2>6. \A j \in IDs : j \in now => status[j] = "open"
    BY <2>2
  <2>. QED
    BY <1>1, <2>3, <2>4, <2>5, <2>6 DEF Effect, terminal, over
<1>4. CASE FinishedFails(s, p)
  <2>1. PICK bad \in ready(over) :
          \E before \in SUBSET (ready(over) \ {bad}), marked \in SUBSET {bad} :
          \E left \in partlyFilled(files[bad], acked[bad], over) :
            /\ bad \in marked => left = filled(files[bad], acked[bad], over)
            /\ StopsAt(bad, before, left, marked, over)
    BY <1>4 DEF FinishedFails, over
  <2>2. PICK before \in SUBSET (ready(over) \ {bad}), marked \in SUBSET {bad} :
          \E left \in partlyFilled(files[bad], acked[bad], over) :
            /\ bad \in marked => left = filled(files[bad], acked[bad], over)
            /\ StopsAt(bad, before, left, marked, over)
    BY <2>1
  <2>3. PICK left \in partlyFilled(files[bad], acked[bad], over) :
            /\ bad \in marked => left = filled(files[bad], acked[bad], over)
            /\ StopsAt(bad, before, left, marked, over)
    BY <2>2
  <2>4. bad \in IDs /\ bad \notin before /\ \A j \in before : j \in ready(over)
    BY DEF ready
  <2>5. ASSUME NEW j \in IDs, j \in before
        PROVE  /\ status'[j] = "complete" /\ acked'[j] = {} /\ files'[j] = filled(files[j], acked[j], over)
               /\ marker'[j] /\ status[j] = "open"
    BY <1>2, <2>3, <2>4, <2>5 DEF StopsAt
  <2>6. /\ status'[bad] = "abandoned" /\ acked'[bad] = {} /\ files'[bad] = left /\ status[bad] = "open"
        /\ marker'[bad] <=> bad \in marked \/ marker[bad]
    BY <1>2, <2>3, <2>4 DEF StopsAt
  <2>7. ASSUME NEW j \in IDs, j \notin before, j # bad
        PROVE  /\ status'[j] = status[j] /\ acked'[j] = acked[j] /\ files'[j] = files[j]
               /\ marker'[j] <=> marker[j]
    BY <2>3, <2>7 DEF StopsAt
  <2>8. ASSUME NEW j \in IDs, j \in before \/ (j = bad /\ bad \in marked)
        PROVE  \A y \in Subtasks : \/ y \in acked[j] /\ files'[j][y] = files[j][y]
                                   \/ y \notin acked[j] /\ over[y] # NoFile /\ files'[j][y] = over[y]
    BY <1>2, <2>3, <2>4, <2>5, <2>6, <2>8
  <2>9. \A j \in IDs : j \in before \/ j = bad \/ (j \notin before /\ j # bad)
    OBVIOUS
  <2>. QED
    BY <1>1, <2>4, <2>5, <2>6, <2>7, <2>8, <2>9 DEF Effect, terminal, over
<1>. QED
  BY <1>3, <1>4

(* No call. *)
LEMMA RestHasEffect ==
  ASSUME UNCHANGED <<status, acked, files, marker>>
  PROVE  \A k, p : Effect(k, {}, p)
BY DEF Effect, terminal

(* Markers stay, and the files behind them. *)
LEMMA EffectGrows ==
  ASSUME IInv, Coordinated', restoredID' = restoredID, NEW k, NEW X, NEW p, Effect(k, X, p)
  PROVE  Grows
<1>1. ASSUME NEW j \in IDs, marker[j] PROVE marker'[j] /\ files'[j] = files[j]
  <2>1. marker'[j]
    BY <1>1 DEF Effect
  <2>2. j <= restoredID \/ terminal(j)
    BY <1>1 DEF IInv, Coordinated, MarkedRestores
  <2>3. CASE terminal(j)
    BY <2>1, <2>3 DEF Effect
  <2>4. CASE j <= restoredID
    <3>1. status'[j] # "unknown" => j > restoredID
      BY DEF Coordinated, KnownAreNew
    <3>2. restoredID \in Nat /\ j \in Nat
      BY Numbers DEF IInv, RunTypes
    <3>. QED
      BY <2>1, <2>4, <3>1, <3>2 DEF Effect
  <2>. QED
    BY <2>2, <2>3, <2>4
<1>. QED
  BY <1>1 DEF Grows

(* Checkpoints are epochs, and both are numbers. *)
LEMMA EpochNat ==
  /\ \A k \in Epochs : k \in Nat /\ k >= 1
  /\ \A k \in IDs : k \in Epochs
  /\ \A l \in IDs \cup {0} : l \in Nat
  /\ \A k \in Epochs, l \in IDs \cup {0} : l >= k => k \in IDs
<1>1. \A k \in Epochs : k \in Nat /\ k >= 1
  BY Numbers
<1>2. \A k \in IDs : k \in Epochs
  BY Numbers
<1>3. \A l \in IDs \cup {0} : l \in Nat
  BY Numbers
<1>4. ASSUME NEW k \in Epochs, NEW l \in IDs \cup {0}, l >= k PROVE k \in IDs
  <2>1. l # 0
    BY <1>1, <1>3, <1>4
  <2>2. l <= Cardinality(IDs) /\ l \in Nat
    BY <2>1, Numbers
  <2>. QED
    BY <1>1, <1>4, <2>2, Numbers
<1>. QED
  BY <1>1, <1>2, <1>3, <1>4

(* The levels after a step that counts X for checkpoint k. *)
After(level, nlv, k, X) ==
  \A j \in Epochs : Open(j)' =>
    \A x \in Subtasks : nlv[x] >= j <=> level[x] >= j \/ (j = k /\ x \in X)

(* The levels stay. *)
LEMMA AfterRest == ASSUME NEW level, NEW k PROVE After(level, level, k, {})
BY DEF After

(* The level of s goes to the next checkpoint. *)
LEMMA AfterRaise ==
  ASSUME NEW level \in [Subtasks -> IDs \cup {0}], NEW s \in Subtasks, NEW k \in IDs, k = level[s] + 1
  PROVE  /\ After(level, [level EXCEPT ![s] = k], k, {s})
         /\ [level EXCEPT ![s] = k] \in [Subtasks -> IDs \cup {0}]
<1>. DEFINE lv == [level EXCEPT ![s] = k]
<1>1. /\ lv \in [Subtasks -> IDs \cup {0}] /\ lv[s] = k
      /\ \A x \in Subtasks : x # s => lv[x] = level[x]
  OBVIOUS
<1>2. level[s] \in Nat /\ \A j \in Epochs : j \in Nat
  BY EpochNat
<1>. HIDE DEF lv
<1>3. \A j \in Epochs : lv[s] >= j <=> level[s] >= j \/ j = k
  BY <1>1, <1>2
<1>4. After(level, lv, k, {s})
  BY <1>1, <1>3 DEF After
<1>. QED
  BY <1>1, <1>4 DEF lv

(* A step that acknowledges the state a subtask is in changes no cut. *)
LEMMA SnapshotsStay ==
  ASSUME IInv, restoredID' = restoredID,
         NEW level \in [Subtasks -> IDs \cup {0}], Counted(level),
         NEW nlv \in [Subtasks -> IDs \cup {0}],
         NEW k, NEW X \in SUBSET Subtasks, NEW p, Effect(k, X, p), After(level, nlv, k, X),
         position' = position, held' = held,
         \A y \in X : ~(level[y] >= k) /\ (y \in Sources => p = position[y]) /\ (y \in Operators => p = held[y])
  PROVE  \A j \in Epochs : Open(j)' =>
           /\ Open(j)
           /\ \A y \in Subtasks : y \notin Sinks => snapshot(nlv, j, y)' = snapshot(level, j, y)
<1>1. SUFFICES ASSUME NEW j \in Epochs, Open(j)'
               PROVE  /\ Open(j)
                      /\ \A y \in Subtasks : y \notin Sinks => snapshot(nlv, j, y)' = snapshot(level, j, y)
  OBVIOUS
<1>2. j > restoredID /\ (j \in IDs => ~terminal(j)' /\ ~terminal(j))
  BY <1>1 DEF Open, Effect
<1>3. Open(j)
  BY <1>2 DEF Open
<1>4. ASSUME NEW y \in Subtasks, y \notin Sinks
      PROVE  snapshot(nlv, j, y)' = snapshot(level, j, y)
  <2>1. nlv[y] >= j <=> level[y] >= j \/ (j = k /\ y \in X)
    BY <1>1 DEF After
  <2>2. level[y] \in IDs \cup {0} /\ nlv[y] \in IDs \cup {0} /\ (nlv[y] >= j => j \in IDs)
    BY EpochNat
  <2>3. CASE j = k /\ y \in X
    <3>1. files'[j][y] = p
      BY <1>2, <2>1, <2>2, <2>3 DEF Effect
    <3>2. y \in Sources \/ y \in Operators
      BY <1>4 DEF Operators
    <3>. QED
      BY <2>1, <2>3, <3>1, <3>2, KindsOfSubtasks DEF snapshot
  <2>4. CASE ~(j = k /\ y \in X) /\ level[y] >= j
    <3>1. files'[j][y] = files[j][y]
      BY <1>2, <2>1, <2>2, <2>4 DEF Effect
    <3>. QED
      BY <2>1, <2>4, <3>1 DEF snapshot
  <2>5. CASE ~(j = k /\ y \in X) /\ ~(level[y] >= j)
    BY <2>1, <2>5 DEF snapshot
  <2>. QED
    BY <2>3, <2>4, <2>5
<1>. QED
  BY <1>3, <1>4

(* The directories stay. *)
LEMMA FilesSame ==
  ASSUME staging' = staging, committed' = committed
  PROVE  /\ \A s, e : current(s, e)' = current(s, e)
         /\ \A k, r : Kept(k, r)' = Kept(k, r)
         /\ written' = written /\ restoredID' = restoredID => \A k, r : Stored(k, r)' = Stored(k, r)
<1>1. \A s, e : current(s, e)' = current(s, e)
  BY DEF current, staged
<1>2. \A k, r : Kept(k, r)' = Kept(k, r)
  BY <1>1 DEF Kept, copies
<1>3. written' = written /\ restoredID' = restoredID => \A k, r : Stored(k, r)' = Stored(k, r)
  BY <1>1 DEF Stored, copies
<1>. QED
  BY <1>1, <1>2, <1>3

(* What a step must not touch for every cut in the making to stay. *)
LEMMA CutsStay ==
  ASSUME NEW level, NEW nlv, RunCuts(level), mode' # "down" => mode # "down",
         \A j \in Epochs : Open(j)' =>
           /\ Open(j)
           /\ \A y \in Subtasks : y \notin Sinks => snapshot(nlv, j, y)' = snapshot(level, j, y)
           /\ \A r \in Records : /\ Stored(j, r)' = Stored(j, r)
                                 /\ Alike(OnTheWay(chan, level, j, r), OnTheWay(chan', nlv, j, r))
  PROVE  RunCuts(nlv)'
<1>1. SUFFICES ASSUME mode' # "down", NEW j \in Epochs, Open(j)', NEW r \in Records
               PROVE  RunCut(nlv, j, r)'
  BY DEF RunCuts
<1>2. RunCut(level, j, r)
  BY <1>1 DEF RunCuts
<1>3. r[1] \in Subtasks /\ r[1] \notin Sinks
  BY RecordIs, KindsOfSubtasks
<1>4. \A o \in Operators : o \in Subtasks /\ o \notin Sinks
  BY KindsOfSubtasks
<1>5. snapshot(nlv, j, r[1])' = snapshot(level, j, r[1])
  BY <1>1, <1>3
<1>6. {o \in Operators : r \in snapshot(nlv, j, o)'} = {o \in Operators : r \in snapshot(level, j, o)}
  BY <1>1, <1>4
<1>7. OnePlace(r[2] <= snapshot(level, j, r[1]), {o \in Operators : r \in snapshot(level, j, o)},
               OnTheWay(chan', nlv, j, r), Stored(j, r))
  BY <1>1, <1>2, AlikeKeeps DEF RunCut
<1>8. OnePlace(r[2] <= snapshot(nlv, j, r[1])', {o \in Operators : r \in snapshot(nlv, j, o)'},
               OnTheWay(chan', nlv, j, r), Stored(j, r)')
  BY <1>1, <1>5, <1>6, <1>7
<1>. QED
  BY <1>8 DEF RunCut, OnTheWay

(* The files of covered epochs are left alone. *)
CoveredKept == \A s \in Sinks, e \in Epochs : Covered(e) => current(s, e)' = current(s, e)

(* The same for complete checkpoints, and new ones must be cuts. *)
LEMMA MarkedCutsStay ==
  ASSUME MarkedCuts, Grows, CoveredKept,
         \A k \in IDs : marker'[k] /\ ~marker[k] => \A r \in Records : MarkedCut(files[k], k, r)'
  PROVE  MarkedCuts'
<1>1. ASSUME NEW k \in IDs, marker[k], NEW r \in Records PROVE MarkedCut(files[k], k, r)'
  <2>1. files'[k] = files[k]
    BY <1>1 DEF Grows
  <2>2. \A s \in Sinks, e \in Epochs : e <= k => current(s, e)' = current(s, e)
    <3>1. \A e \in Epochs : e <= k => Covered(e)
      BY <1>1, EpochNat DEF Covered
    <3>. QED
      BY <3>1 DEF CoveredKept
  <2>3. Kept(k, r)' = Kept(k, r)
    BY <2>2 DEF Kept, copies
  <2>4. MarkedCut(files[k], k, r)
    BY <1>1 DEF MarkedCuts
  <2>. QED
    BY <2>1, <2>3, <2>4 DEF MarkedCut
<1>. QED
  BY <1>1 DEF MarkedCuts

(* The subtasks in X stand before barrier k, and p is the state they are in. *)
StandsAt(level, k, X, p) ==
  \A y \in X :
    /\ ~(level[y] >= k)
    /\ y \in Sources => p = position[y]
    /\ y \in Operators => p = held[y]
    /\ y \in Sinks => pc[y] = "run"
    /\ \A u \in Up[y] : chan[<<u, y>>] = << >> \/ (chan[<<u, y>>] # << >> /\ Head(chan[<<u, y>>]) = Bar(k))

(* Those who have not acknowledged a checkpoint that completes now are the *)
(* one that does so now, and finished sources.                             *)
LEMMA NewMark ==
  ASSUME IInv, Coordinated', restoredID' = restoredID, NEW level, Counted(level),
         NEW k, NEW X \in SUBSET Subtasks, NEW p, Effect(k, X, p),
         \A y \in Subtasks : done'[y] # NoFile => y \in Sources,
         NEW j \in IDs, marker'[j], ~marker[j]
  PROVE  /\ j > restoredID /\ ~terminal(j)
         /\ \A y \in Subtasks : \/ j = k /\ y \in X /\ files'[j][y] = p
                                \/ level[y] >= j /\ files'[j][y] = files[j][y]
                                \/ ~(level[y] >= j) /\ y \in Sources /\ done'[y] # NoFile /\ files'[j][y] = done'[y]
<1>1. ~terminal(j) /\ terminal(j)'
  BY DEF Effect
<1>2. j > restoredID
  BY <1>1 DEF Coordinated, KnownAreNew, terminal
<1>3. \A y \in Subtasks : y \in acked[j] <=> level[y] >= j
  BY <1>1, <1>2 DEF Counted
<1>4. \A y \in Subtasks : \/ j = k /\ y \in X /\ files'[j][y] = p
                          \/ y \in acked[j] /\ files'[j][y] = files[j][y]
                          \/ y \notin acked[j] /\ done'[y] # NoFile /\ files'[j][y] = done'[y]
  BY DEF Effect
<1>. QED
  BY <1>1, <1>2, <1>3, <1>4

(* The cut in the making is the cut the files hold. *)
LEMMA CutMarks ==
  ASSUME IInv, Coordinated', restoredID' = restoredID, mode = "running",
         NEW level \in [Subtasks -> IDs \cup {0}], LeveledBy(level), Counted(level), RunCuts(level), OwnFiles, Settled(level),
         NEW k, NEW X \in SUBSET Subtasks, NEW p, Effect(k, X, p), StandsAt(level, k, X, p),
         \A y \in Subtasks : done'[y] # NoFile => y \in Sources /\ done'[y] = position[y],
         staging' = staging, committed' = committed, ~succeeded,
         NEW j \in IDs, marker'[j], ~marker[j], NEW r \in Records
  PROVE  MarkedCut(files[j], j, r)'
<1>1. /\ j > restoredID /\ ~terminal(j)
      /\ \A y \in Subtasks : \/ j = k /\ y \in X /\ files'[j][y] = p
                             \/ level[y] >= j /\ files'[j][y] = files[j][y]
                             \/ ~(level[y] >= j) /\ y \in Sources /\ done'[y] # NoFile /\ files'[j][y] = done'[y]
  BY NewMark
<1>2. j \in Epochs /\ Open(j)
  BY <1>1, EpochNat DEF Open
<1>3. RunCut(level, j, r)
  BY <1>2 DEF RunCuts
<1>4. ASSUME NEW y \in Subtasks, y \notin Sinks PROVE files'[j][y] = snapshot(level, j, y)
  <2>1. CASE j = k /\ y \in X /\ files'[j][y] = p
    <3>1. y \in Sources \/ (y \in Operators /\ y \notin Sources)
      BY <1>4 DEF Operators
    <3>. QED
      BY <2>1, <3>1 DEF StandsAt, snapshot
  <2>2. CASE level[y] >= j /\ files'[j][y] = files[j][y]
    BY <2>2 DEF snapshot
  <2>3. CASE ~(level[y] >= j) /\ y \in Sources /\ done'[y] # NoFile /\ files'[j][y] = done'[y]
    BY <2>3 DEF snapshot
  <2>. QED
    BY <1>1, <2>1, <2>2, <2>3
<1>5. r[1] \in Subtasks /\ r[1] \notin Sinks /\ \A o \in Operators : o \in Subtasks /\ o \notin Sinks
  BY RecordIs, KindsOfSubtasks
<1>6. chan \in Channels
  BY DEF IInv, FlowTypes
<1>7. OnTheWay(chan, level, j, r) = {}
  <2>1. ASSUME NEW e, NEW n, <<e, n>> \in OnTheWay(chan, level, j, r) PROVE FALSE
    <3>1. e \in Edges /\ level[e[2]] < j /\ n \in ahead(chan[e], j, r)
      BY <1>6, <2>1, WayIs
    <3>2. e[2] \in Subtasks /\ e[1] \in Up[e[2]] /\ e = <<e[1], e[2]>> /\ e[2] \notin Sources /\ chan[e] \in Seq(Messages)
      BY <1>6, <3>1, EdgeIs, KindsOfSubtasks DEF Channels
    <3>3. level[e[2]] \in Nat /\ j \in Nat
      BY <3>2, EpochNat, <1>2
    <3>4. j = k /\ e[2] \in X
      BY <1>1, <3>1, <3>2, <3>3
    <3>5. chan[e] = << >> \/ (chan[e] # << >> /\ Head(chan[e]) = Bar(j))
      BY <3>2, <3>4 DEF StandsAt
    <3>6. CASE chan[e] = << >>
      BY <3>1, <3>6 DEF ahead
    <3>7. CASE chan[e] # << >> /\ Head(chan[e]) = Bar(j)
      <4>1. 1 \notin ahead(chan[e], j, r) /\ \A i \in ahead(chan[e], j, r) : i = 1
        BY <3>2, <3>3, <3>7, AheadTail, MessagesDiffer
      <4>. QED
        BY <3>1, <4>1
    <3>. QED
      BY <3>5, <3>6, <3>7
  <2>2. \A q \in OnTheWay(chan, level, j, r) : q = <<q[1], q[2]>>
    BY <1>6, WayIs
  <2>. QED
    BY <2>1, <2>2
<1>8. ASSUME NEW z \in Sinks, NEW e \in Epochs, copies(current(z, e), r) > 0
      PROVE  e <= restoredID \/ e \in written[z]
  <2>1. CASE staged(z, e)
    <3>1. z \in Subtasks /\ z \notin Sources
      BY KindsOfSubtasks
    <3>2. level[z] # restoredID \/ pc[z] = "run"
      <4>1. CASE j = k /\ z \in X
        BY <4>1 DEF StandsAt
      <4>2. CASE level[z] >= j
        <5>1. restoredID \in Nat /\ j \in Nat /\ level[z] \in Nat
          BY <3>1, EpochNat, <1>2 DEF IInv, RunTypes
        <5>. QED
          BY <1>1, <4>2, <5>1
      <4>. QED
        BY <1>1, <3>1, <4>1, <4>2
    <3>. QED
      BY <2>1, <3>2 DEF Settled
  <2>2. CASE ~staged(z, e)
    BY <1>8, <2>2 DEF OwnFiles, current
  <2>. QED
    BY <2>1, <2>2
<1>9. Kept(j, r)' = Stored(j, r)
  <2>1. Kept(j, r)' = Kept(j, r)
    BY FilesSame
  <2>2. \A q \in Sinks \X Epochs : copies(current(q[1], q[2]), r) > 0 => q[2] <= restoredID \/ q[2] \in written[q[1]]
    BY <1>8
  <2>3. Kept(j, r) = Stored(j, r)
    BY <2>2 DEF Kept, Stored
  <2>. QED
    BY <2>1, <2>3
<1>10. OnePlace(r[2] <= files'[j][r[1]], {o \in Operators : r \in files'[j][o]}, {}, Stored(j, r))
  <2>1. files'[j][r[1]] = snapshot(level, j, r[1])
    BY <1>4, <1>5
  <2>2. {o \in Operators : r \in files'[j][o]} = {o \in Operators : r \in snapshot(level, j, o)}
    BY <1>4, <1>5
  <2>. QED
    BY <1>3, <1>7, <2>1, <2>2 DEF RunCut
<1>. QED
  BY <1>9, <1>10 DEF MarkedCut

-----------------------------------------------------------------------------
(* The accounts. *)

(* Who passes the barrier is who is counted. *)
LEMMA CountedStays ==
  ASSUME restoredID' = restoredID, NEW level, NEW nlv, Counted(level),
         NEW k, NEW X, NEW p, Effect(k, X, p), After(level, nlv, k, X)
  PROVE  Counted(nlv)'
<1>1. ASSUME NEW j \in IDs, j > restoredID, ~terminal(j)', NEW x \in Subtasks
      PROVE  x \in acked'[j] <=> nlv[x] >= j
  <2>1. ~terminal(j) /\ (x \in acked'[j] <=> x \in acked[j] \/ (j = k /\ x \in X))
    BY <1>1 DEF Effect
  <2>2. x \in acked[j] <=> level[x] >= j
    BY <1>1, <2>1 DEF Counted
  <2>3. nlv[x] >= j <=> level[x] >= j \/ (j = k /\ x \in X)
    BY <1>1, EpochNat DEF After, Open
  <2>. QED
    BY <2>1, <2>2, <2>3
<1>. QED
  BY <1>1 DEF Counted

(* What a file that counts after the step is. *)
LEMMA RecordedIs ==
  ASSUME IInv, Coordinated', Grows, restoredID' = restoredID, NEW level, Counted(level),
         NEW k, NEW X \in SUBSET Subtasks, NEW p, Effect(k, X, p),
         \A y \in Subtasks : done'[y] # NoFile => y \in Sources,
         NEW j \in IDs, NEW x \in Subtasks, Recorded(j, x)'
  PROVE  \/ Recorded(j, x) /\ files'[j][x] = files[j][x]
         \/ j = k /\ x \in X /\ files'[j][x] = p
         \/ ~(level[x] >= j) /\ x \in Sources /\ done'[x] # NoFile /\ files'[j][x] = done'[x]
<1>1. CASE marker[j]
  BY <1>1 DEF Grows, Recorded
<1>2. CASE marker'[j] /\ ~marker[j]
  <2>1. /\ j > restoredID /\ ~terminal(j)
        /\ \/ j = k /\ x \in X /\ files'[j][x] = p
           \/ level[x] >= j /\ files'[j][x] = files[j][x]
           \/ ~(level[x] >= j) /\ x \in Sources /\ done'[x] # NoFile /\ files'[j][x] = done'[x]
    BY <1>2, NewMark
  <2>2. x \in acked[j] <=> level[x] >= j
    BY <2>1 DEF Counted
  <2>. QED
    BY <2>1, <2>2 DEF Recorded
<1>3. CASE ~terminal(j)' /\ x \in acked'[j]
  BY <1>3 DEF Effect, Recorded
<1>. QED
  BY <1>1, <1>2, <1>3 DEF Recorded

(* A checkpoint completes only when every sink has passed it. *)
LEMMA MarkedPassedStays ==
  ASSUME IInv, Coordinated', restoredID' = restoredID,
         NEW level \in [Subtasks -> IDs \cup {0}], NEW nlv \in [Subtasks -> IDs \cup {0}],
         Counted(level), MarkedPassed(level),
         NEW k, NEW X \in SUBSET Subtasks, X # {} => k \in IDs, NEW p, Effect(k, X, p),
         \A y \in Subtasks : done'[y] # NoFile => y \in Sources,
         returned \subseteq returned', \A x \in Subtasks : nlv[x] >= level[x],
         \A z \in X : z \in Sinks => z \in returned' \/ nlv[z] >= k
  PROVE  MarkedPassed(nlv)'
<1>1. ASSUME NEW j \in IDs, marker'[j], NEW z \in Sinks PROVE z \in returned' \/ nlv[z] >= j
  <2>1. z \in Subtasks /\ z \notin Sources /\ level[z] \in Nat /\ nlv[z] \in Nat /\ nlv[z] >= level[z] /\ j \in Nat
    BY KindsOfSubtasks, EpochNat
  <2>2. CASE marker[j]
    BY <2>1, <2>2 DEF MarkedPassed
  <2>3. CASE ~marker[j]
    <3>1. (j = k /\ z \in X) \/ level[z] >= j
      BY <1>1, <2>1, <2>3, NewMark
    <3>. QED
      BY <2>1, <3>1
  <2>. QED
    BY <2>2, <2>3
<1>. QED
  BY <1>1 DEF MarkedPassed

(* A source does not move after it has finished. *)
LEMMA DoneAtStays ==
  ASSUME DoneAt,
         \A s \in Sources : done'[s] # NoFile => \/ done'[s] = done[s]
                                                 \/ s \in returned' /\ done'[s] = position'[s] /\ injected'[s] >= maxBarriers(s),
         \A s \in Sources : s \in returned => s \in returned' /\ position'[s] = position[s] /\ injected'[s] = injected[s]
  PROVE  DoneAt'
BY DEF DoneAt, maxBarriers

(* A position handed over is Interval records for each barrier. *)
LEMMA PacedFilesStays ==
  ASSUME IInv, Coordinated', Grows, restoredID' = restoredID,
         NEW level \in [Subtasks -> IDs \cup {0}], LeveledBy(level), Counted(level), PacedFiles,
         NEW k, NEW X \in SUBSET Subtasks, NEW p, Effect(k, X, p),
         \A y \in Subtasks : done'[y] # NoFile => y \in Sources /\ injected[y] >= maxBarriers(y),
         \A s \in X : s \in Sources => p = k * Interval[s]
  PROVE  PacedFiles'
<1>1. ASSUME NEW j \in IDs, NEW s \in Sources, j <= maxBarriers(s), Recorded(j, s)'
      PROVE  files'[j][s] = j * Interval[s]
  <2>1. s \in Subtasks /\ level[s] = injected[s] /\ level[s] \in Nat /\ j \in Nat /\ maxBarriers(s) \in Nat
    BY KindsOfSubtasks, EpochNat, JobAssumption DEF LeveledBy
  <2>2. \/ Recorded(j, s) /\ files'[j][s] = files[j][s]
        \/ j = k /\ s \in X /\ files'[j][s] = p
        \/ ~(level[s] >= j) /\ s \in Sources /\ done'[s] # NoFile /\ files'[j][s] = done'[s]
    BY <1>1, <2>1, RecordedIs
  <2>3. CASE Recorded(j, s) /\ files'[j][s] = files[j][s]
    BY <1>1, <2>3 DEF PacedFiles
  <2>4. CASE j = k /\ s \in X /\ files'[j][s] = p
    BY <2>4
  <2>5. CASE ~(level[s] >= j) /\ done'[s] # NoFile
    BY <1>1, <2>1, <2>5
  <2>. QED
    BY <2>2, <2>3, <2>4, <2>5
<1>. QED
  BY <1>1 DEF PacedFiles, maxBarriers

(* Markers stay. *)
LEMMA SuccessMarkedStays ==
  ASSUME restoredID' = restoredID, mode' = "running" => mode = "running", succeeded' = succeeded,
         Grows, SuccessMarked
  PROVE  SuccessMarked'
<1>1. \A e : Covered(e) => Covered(e)'
  BY DEF Covered, Grows
<1>. QED
  BY <1>1 DEF SuccessMarked, maxBarriers

(* Markers stay, and so do the pending checkpoints. *)
LEMMA RememberedStays ==
  ASSUME restoredID' = restoredID, epoch' = epoch, pending' = pending, Grows, Remembered
  PROVE  Remembered'
BY DEF Remembered, Grows

(* Who returns without an error has done what it had to. *)
LEMMA ReturnedStays ==
  ASSUME NEW level, NEW nlv, Returned(level), mode' = "running", ~failed' => ~failed,
         \A j \in IDs : status[j] = "complete" => status'[j] = "complete",
         pending' \in [Sinks -> SUBSET IDs], pending \in [Sinks -> SUBSET IDs],
         ~failed' =>
           /\ \A s \in Sources : s \in returned' =>
                \/ s \in returned /\ position'[s] = position[s] /\ injected'[s] = injected[s]
                \/ position'[s] = Count[s] /\ injected'[s] >= maxBarriers(s)
           /\ \A o \in Operators : o \in returned' =>
                \/ o \in returned /\ ended'[o] = ended[o] /\ held'[o] = held[o]
                \/ Up[o] \subseteq ended'[o] /\ held'[o] = {}
           /\ \A s \in Sinks : pc'[s] \in {"last", "returned"} =>
                \/ /\ pc[s] \in {"last", "returned"} /\ ended'[s] = ended[s] /\ epoch'[s] = epoch[s]
                   /\ nlv[s] = level[s] /\ pending'[s] \subseteq pending[s]
                \/ /\ Up[s] \subseteq ended'[s] /\ epoch'[s] = nlv[s] + 1
                   /\ \A k \in pending'[s] : status'[k] = "complete"
  PROVE  Returned(nlv)'
<1>1. ASSUME ~failed', NEW s \in Sources, s \in returned'
      PROVE  position'[s] = Count[s] /\ injected'[s] >= maxBarriers(s)
  BY <1>1 DEF Returned
<1>2. ASSUME ~failed', NEW o \in Operators, o \in returned'
      PROVE  Up[o] \subseteq ended'[o] /\ held'[o] = {}
  BY <1>2 DEF Returned
<1>3. ASSUME ~failed', NEW s \in Sinks, pc'[s] \in {"last", "returned"}
      PROVE  /\ Up[s] \subseteq ended'[s] /\ epoch'[s] = nlv[s] + 1
             /\ \A k \in pending'[s] : status'[k] = "complete"
  <2>1. CASE /\ pc[s] \in {"last", "returned"} /\ ended'[s] = ended[s] /\ epoch'[s] = epoch[s]
             /\ nlv[s] = level[s] /\ pending'[s] \subseteq pending[s]
    BY <1>3, <2>1 DEF Returned
  <2>. QED
    BY <1>3, <2>1
<1>. QED
  BY <1>1, <1>2, <1>3 DEF Returned, maxBarriers

(* What a sink does other than to write, rename or restore. *)
SinkGoesOn(level, nlv, s) ==
  \/ nlv[s] = level[s] /\ epoch'[s] = epoch[s] /\ opened'[s] = opened[s] /\ pc'[s] = pc[s]
  \/ pc[s] = "run" /\ epoch'[s] = epoch[s] + 1 /\ ~opened'[s]
  \/ /\ nlv[s] = level[s] /\ epoch'[s] = epoch[s] /\ ~opened'[s] /\ pc'[s] = "returned"
     /\ failed' \/ pc[s] = "last"
  \/ /\ epoch'[s] = epoch[s] /\ opened'[s] = opened[s]
     /\ pc[s] \notin {"restore", "returned"} /\ pc'[s] \notin {"restore", "returned"}

(* The directories rest. *)
LEMMA DiskStays ==
  ASSUME SinkTypes, NEW level, NEW nlv, Settled(level), OwnFiles, FinalFiles, FileContents,
         staging' = staging, committed' = committed, written' = written,
         firstEpoch' = firstEpoch, restoredID' = restoredID,
         succeeded' = succeeded, failed => failed',
         \A s \in Sinks : SinkGoesOn(level, nlv, s), Grows, CommittedIsCovered,
         \A r \in Records, j \in IDs : marker'[j] /\ ~marker[j] => ~succeeded
  PROVE  Settled(nlv)' /\ OwnFiles' /\ FinalFiles' /\ FileContents'
<1>1. \A e : Covered(e) => Covered(e)'
  BY DEF Covered, Grows
<1>2. \A r \in Records : \A e : succeeded /\ ~Covered(e) => ~Covered(e)'
  BY DEF Covered
<1>3. \A s, e : (staged(s, e)' <=> staged(s, e)) /\ current(s, e)' = current(s, e)
  BY DEF staged, current
<1>4. \A f, r : copies(f, r)' = copies(f, r)
  BY DEF copies
<1>5. Settled(nlv)'
  <2>1. ASSUME NEW s \in Sinks
        PROVE  \/ \A e \in Epochs : staged(s, e)' => e \in written'[s]
               \/ nlv[s] = restoredID' /\ (pc'[s] = "restore" \/ (failed' /\ pc'[s] = "returned"))
    BY <1>3 DEF Settled, SinkGoesOn
  <2>. QED
    BY <2>1 DEF Settled
<1>6. OwnFiles'
  <2>1. ASSUME NEW s \in Sinks
        PROVE  /\ firstEpoch'[s] <= restoredID' + 1
               /\ opened'[s] => epoch'[s] \in written'[s]
               /\ \A e \in written'[s] : /\ e > restoredID' /\ e <= epoch'[s]
                                         /\ e = epoch'[s] => opened'[s] \/ pc'[s] = "returned"
    <3>1. epoch[s] \in Nat /\ written[s] \subseteq Nat
      BY EpochNat DEF SinkTypes
    <3>2. /\ firstEpoch[s] <= restoredID + 1
          /\ opened[s] => epoch[s] \in written[s]
          /\ \A e \in written[s] : /\ e > restoredID /\ e <= epoch[s]
                                   /\ e = epoch[s] => opened[s] \/ pc[s] = "returned"
      BY DEF OwnFiles
    <3>. QED
      BY <3>1, <3>2 DEF SinkGoesOn
  <2>2. ASSUME NEW s \in Sinks, NEW e \in Epochs, NEW r \in Records, copies(committed'[s][e], r) > 0
        PROVE  /\ e <= restoredID' \/ e \in written'[s] \/ (succeeded' /\ ~Covered(e)')
               /\ staged(s, e)' => succeeded' /\ ~Covered(e)'
    BY <1>2, <1>3, <2>2 DEF OwnFiles
  <2>. QED
    BY <2>1, <2>2 DEF OwnFiles, copies
<1>7. FileContents'
  BY DEF FileContents, copies
<1>8. FinalFiles'
  <2>1. ASSUME NEW s \in Sinks, NEW e \in Epochs, NEW r \in Records, copies(committed[s][e], r) > 0, ~Covered(e)'
        PROVE  /\ e = 1 \/ Covered(e - 1)'
               /\ \A t \in Sinks, f \in Epochs : Covered(f)' => copies(current(t, f), r) = 0
    <3>1. ~Covered(e)
      BY <1>1, <2>1
    <3>2. succeeded
      <4>1. committed[s][e] # NoFile
        BY <2>1 DEF copies
      <4>. QED
        BY <3>1, <4>1 DEF CommittedIsCovered, Covered
    <3>3. \A f : Covered(f)' => Covered(f)
      BY <1>2, <3>2
    <3>. QED
      BY <1>1, <2>1, <3>1, <3>3 DEF FinalFiles
  <2>. QED
    BY <1>3, <2>1 DEF FinalFiles, copies
<1>. QED
  BY <1>5, <1>6, <1>7, <1>8

(* The end of a stream is the last thing in it, and is sent on returning; *)
(* an input that has ended is empty, and its subtask not behind it.        *)
Streams(c, over, back, level) ==
  \A e \in Edges :
    /\ \A n \in 1..Len(c[e]) : c[e][n].kind = "eos" => n = Len(c[e]) /\ e[1] \in back
    /\ e[1] \in over[e[2]] => e[1] \in back /\ c[e] = << >> /\ level[e[1]] <= level[e[2]]

(* Records are sent along their routes. *)
Routed(c) == \A e \in Edges : \A n \in 1..Len(c[e]) : c[e][n].kind = "record" => e[2] \in route(c[e][n].val)

(* Ends and ChannelContents in these terms. *)
LEMMA StreamsAre ==
  /\ \A level : Ends(level) <=> Streams(chan, ended, returned, level)
  /\ \A level : Ends(level)' <=> Streams(chan', ended', returned', level)
  /\ ChannelContents <=> Routed(chan)
  /\ ChannelContents' <=> Routed(chan')
  BY DEF Ends, Streams, ChannelContents, Routed

(* The first element of some inputs is taken. *)
LEMMA StreamsTake ==
  ASSUME NEW c \in Channels, NEW over, NEW back, NEW level, Streams(c, over, back, level), Routed(c),
         NEW s \in Subtasks, NEW us \in SUBSET Up[s], \A u \in us : c[<<u, s>>] # << >>,
         NEW d, TakesFrom(c, d, s, us)
  PROVE  Streams(d, over, back, level) /\ Routed(d)
<1>. USE DEF TakesFrom
<1>. SUFFICES ASSUME NEW e \in Edges
     PROVE  /\ \A n \in 1..Len(d[e]) : d[e][n].kind = "eos" => n = Len(d[e]) /\ e[1] \in back
            /\ e[1] \in over[e[2]] => e[1] \in back /\ d[e] = << >> /\ level[e[1]] <= level[e[2]]
            /\ \A n \in 1..Len(d[e]) : d[e][n].kind = "record" => e[2] \in route(d[e][n].val)
  BY DEF Streams, Routed
<1>1. /\ \A n \in 1..Len(c[e]) : c[e][n].kind = "eos" => n = Len(c[e]) /\ e[1] \in back
      /\ e[1] \in over[e[2]] => e[1] \in back /\ c[e] = << >> /\ level[e[1]] <= level[e[2]]
      /\ \A n \in 1..Len(c[e]) : c[e][n].kind = "record" => e[2] \in route(c[e][n].val)
  BY DEF Streams, Routed
<1>2. CASE ~(e[2] = s /\ e[1] \in us)
  BY <1>1, <1>2
<1>3. CASE e[2] = s /\ e[1] \in us
  <2>1. c[e] \in Seq(Messages) /\ c[e] # << >> /\ d[e] = Tail(c[e])
    BY <1>3, EdgeIs DEF Channels
  <2>2. /\ Len(c[e]) \in Nat /\ Len(d[e]) = Len(c[e]) - 1
        /\ \A n \in 1..Len(d[e]) : n + 1 \in 1..Len(c[e]) /\ d[e][n] = c[e][n + 1]
    <3>1. /\ Len(c[e]) \in Nat /\ Len(Tail(c[e])) = Len(c[e]) - 1
          /\ \A n \in 1..Len(Tail(c[e])) : n + 1 \in 1..Len(c[e]) /\ Tail(c[e])[n] = c[e][n + 1]
      BY <2>1, TailIs, ZenonT(30)
    <3>. QED
      BY <2>1, <3>1
  <2>3. \A n \in 1..Len(d[e]) : d[e][n].kind = "eos" => n = Len(d[e]) /\ e[1] \in back
    BY <1>1, <2>2
  <2>4. \A n \in 1..Len(d[e]) : d[e][n].kind = "record" => e[2] \in route(d[e][n].val)
    BY <1>1, <2>2
  <2>. QED
    BY <1>1, <2>1, <2>3, <2>4
<1>. QED
  BY <1>2, <1>3

(* u sends something on other than the end, records along their routes. *)
Sends(c, d, u) ==
  \A e \in Edges :
    \/ d[e] = c[e]
    \/ /\ e[1] = u
       /\ \E q \in Seq(Messages) :
            /\ d[e] = c[e] \o q
            /\ \A n \in 1..Len(q) : /\ q[n].kind # "eos"
                                    /\ q[n].kind = "record" => e[2] \in route(q[n].val)

(* One who has not returned sends something on. *)
LEMMA StreamsSend ==
  ASSUME NEW c \in Channels, NEW over, NEW back, NEW level, Streams(c, over, back, level), Routed(c),
         NEW u, u \notin back, NEW d,
         Sends(c, d, u)
  PROVE  Streams(d, over, back, level) /\ Routed(d)
<1>. SUFFICES ASSUME NEW e \in Edges
     PROVE  /\ \A n \in 1..Len(d[e]) : d[e][n].kind = "eos" => n = Len(d[e]) /\ e[1] \in back
            /\ e[1] \in over[e[2]] => e[1] \in back /\ d[e] = << >> /\ level[e[1]] <= level[e[2]]
            /\ \A n \in 1..Len(d[e]) : d[e][n].kind = "record" => e[2] \in route(d[e][n].val)
  BY DEF Streams, Routed
<1>1. /\ \A n \in 1..Len(c[e]) : c[e][n].kind = "eos" => n = Len(c[e]) /\ e[1] \in back
      /\ e[1] \in over[e[2]] => e[1] \in back /\ c[e] = << >> /\ level[e[1]] <= level[e[2]]
      /\ \A n \in 1..Len(c[e]) : c[e][n].kind = "record" => e[2] \in route(c[e][n].val)
  BY DEF Streams, Routed
<1>2. CASE d[e] = c[e]
  BY <1>1, <1>2
<1>3. ASSUME e[1] = u, NEW q \in Seq(Messages), d[e] = c[e] \o q,
             \A n \in 1..Len(q) : q[n].kind # "eos" /\ (q[n].kind = "record" => e[2] \in route(q[n].val))
      PROVE  /\ \A n \in 1..Len(d[e]) : d[e][n].kind = "eos" => n = Len(d[e]) /\ e[1] \in back
             /\ e[1] \in over[e[2]] => e[1] \in back /\ d[e] = << >> /\ level[e[1]] <= level[e[2]]
             /\ \A n \in 1..Len(d[e]) : d[e][n].kind = "record" => e[2] \in route(d[e][n].val)
  <2>1. c[e] \in Seq(Messages)
    BY DEF Channels
  <2>2. /\ Len(d[e]) = Len(c[e]) + Len(q) /\ Len(c[e]) \in Nat /\ Len(q) \in Nat
        /\ \A n \in 1..Len(d[e]) : \/ n \in 1..Len(c[e]) /\ d[e][n] = c[e][n]
                                   \/ n - Len(c[e]) \in 1..Len(q) /\ d[e][n] = q[n - Len(c[e])]
    BY <1>3, <2>1
  <2>3. ASSUME NEW n \in 1..Len(d[e])
        PROVE  d[e][n].kind # "eos" /\ (d[e][n].kind = "record" => e[2] \in route(d[e][n].val))
    <3>1. CASE n \in 1..Len(c[e]) /\ d[e][n] = c[e][n]
      BY <1>1, <1>3, <3>1
    <3>2. CASE n - Len(c[e]) \in 1..Len(q) /\ d[e][n] = q[n - Len(c[e])]
      BY <1>3, <3>2
    <3>. QED
      BY <2>2, <3>1, <3>2
  <2>. QED
    BY <1>1, <1>3, <2>3
<1>. QED
  BY <1>2, <1>3 DEF Sends

(* A barrier is such a thing. *)
LEMMA BarrierSends ==
  ASSUME NEW c \in Channels, NEW u, NEW k, Bar(k) \in Messages
  PROVE  Sends(c, Broadcast(c, u, Bar(k)), u)
<1>. DEFINE d == Broadcast(c, u, Bar(k))
            q == <<Bar(k)>>
<1>1. q \in Seq(Messages) /\ Len(q) = 1 /\ q[1] = Bar(k) /\ Bar(k).kind = "barrier"
  BY DEF Bar
<1>2. ASSUME NEW e \in Edges, e[1] = u PROVE d[e] = c[e] \o q
  <2>1. d[e] = Append(c[e], Bar(k)) /\ c[e] \in Seq(Messages)
    BY <1>2 DEF Broadcast, Channels
  <2>. QED
    BY <2>1, AppendIsConcat
<1>3. \A e \in Edges : e[1] # u => d[e] = c[e]
  BY DEF Broadcast
<1>4. \A n \in 1..Len(q) : q[n].kind # "eos" /\ q[n].kind # "record"
  BY <1>1
<1>. HIDE DEF d, q
<1>5. Sends(c, d, u)
  BY <1>1, <1>2, <1>3, <1>4 DEF Sends
<1>. QED
  BY <1>5 DEF d

(* It returns. *)
LEMMA StreamsEnd ==
  ASSUME NEW c \in Channels, NEW over, NEW back, NEW level, Streams(c, over, back, level), Routed(c),
         NEW u, u \notin back
  PROVE  Streams(Broadcast(c, u, EOS), over, back \cup {u}, level) /\ Routed(Broadcast(c, u, EOS))
<1>. DEFINE d == Broadcast(c, u, EOS)
<1>. SUFFICES ASSUME NEW e \in Edges
     PROVE  /\ \A n \in 1..Len(d[e]) : d[e][n].kind = "eos" => n = Len(d[e]) /\ e[1] \in back \cup {u}
            /\ e[1] \in over[e[2]] => e[1] \in back \cup {u} /\ d[e] = << >> /\ level[e[1]] <= level[e[2]]
            /\ \A n \in 1..Len(d[e]) : d[e][n].kind = "record" => e[2] \in route(d[e][n].val)
  BY DEF Streams, Routed
<1>1. /\ \A n \in 1..Len(c[e]) : c[e][n].kind = "eos" => n = Len(c[e]) /\ e[1] \in back
      /\ e[1] \in over[e[2]] => e[1] \in back /\ c[e] = << >> /\ level[e[1]] <= level[e[2]]
      /\ \A n \in 1..Len(c[e]) : c[e][n].kind = "record" => e[2] \in route(c[e][n].val)
  BY DEF Streams, Routed
<1>2. d[e] = IF e[1] = u THEN Append(c[e], EOS) ELSE c[e]
  BY DEF Broadcast
<1>3. c[e] \in Seq(Messages) /\ EOS.kind = "eos"
  BY MessagesDiffer DEF Channels
<1>. HIDE DEF d
<1>4. CASE e[1] # u
  BY <1>1, <1>2, <1>4
<1>5. CASE e[1] = u
  <2>1. /\ Len(d[e]) = Len(c[e]) + 1 /\ Len(c[e]) \in Nat
        /\ \A n \in 1..Len(d[e]) : \/ n \in 1..Len(c[e]) /\ d[e][n] = c[e][n]
                                   \/ n = Len(d[e]) /\ d[e][n] = EOS
    BY <1>2, <1>3, <1>5
  <2>2. \A n \in 1..Len(d[e]) : d[e][n].kind = "eos" => n = Len(d[e])
    BY <1>1, <1>5, <2>1
  <2>3. \A n \in 1..Len(d[e]) : d[e][n].kind = "record" => e[2] \in route(d[e][n].val)
    BY <1>1, <1>3, <1>5, <2>1
  <2>. QED
    BY <1>1, <1>5, <2>2, <2>3
<1>. QED
  BY <1>4, <1>5

(* A subtask that has not returned takes a barrier. *)
LEMMA StreamsRaise ==
  ASSUME NEW c, NEW over, NEW back, NEW level \in [Subtasks -> Nat], Streams(c, over, back, level),
         NEW s \in Subtasks, s \notin back, NEW k \in Nat, k >= level[s]
  PROVE  Streams(c, over, back, [level EXCEPT ![s] = k])
  BY EdgeIs DEF Streams

-----------------------------------------------------------------------------
(* Steps, one lemma for each action. *)

(* Only the channels, the positions and the state of operators change. *)
LEMMA FlowWhole ==
  ASSUME NEW level, Whole(level), mode = "running",
         UNCHANGED <<coordinator, injected, sinkVars, sink, runVars>>,
         LeveledBy(level)', Ends(level)', PacedSources', Returned(level)',
         returned \subseteq returned',
         \A s \in Sources : s \in returned => position'[s] = position[s],
         \A o \in Operators : \A r \in held'[o] : o \in route(r),
         ChannelContents', RunCuts(level)'
  PROVE  Whole(level)'
<1>1. /\ status' = status /\ acked' = acked /\ done' = done /\ files' = files /\ marker' = marker
      /\ injected' = injected /\ pc' = pc /\ pending' = pending /\ todo' = todo
      /\ epoch' = epoch /\ firstEpoch' = firstEpoch /\ opened' = opened /\ written' = written
      /\ staging' = staging /\ committed' = committed
      /\ mode' = mode /\ failed' = failed /\ restoredID' = restoredID /\ succeeded' = succeeded
  BY DEF coordinator, memory, disk, sinkVars, sink, sinkMemory, sinkDisk, runVars
<1>2. Accounts(level) /\ OnDisk(level) /\ MarkedCuts
  BY DEF Whole, Cuts
<1>3. Counted(level)' /\ Budgeted(level)' /\ PacedFiles' /\ SuccessMarked' /\ Blamed' /\ Remembered'
  BY <1>1, <1>2 DEF Accounts, Counted, Budgeted, PacedFiles, SuccessMarked, Blamed, Remembered,
     terminal, Recorded, Covered
<1>4. DoneAt'
  BY <1>1, <1>2 DEF Accounts, DoneAt
<1>5. MarkedPassed(level)'
  BY <1>1, <1>2 DEF Accounts, MarkedPassed
<1>6. Settled(level)' /\ OwnFiles'
  BY <1>1, <1>2 DEF OnDisk, Settled, OwnFiles, staged, Covered
<1>7. FileContents'
  BY <1>1, <1>2 DEF OnDisk, FileContents
<1>8. FinalFiles'
  <2>1. \A s, e : current(s, e)' = current(s, e)
    BY <1>1, FilesSame
  <2>2. \A e : Covered(e)' <=> Covered(e)
    BY <1>1 DEF Covered
  <2>3. FinalFiles
    BY <1>2 DEF OnDisk
  <2>. QED
    BY <1>1, <2>1, <2>2, <2>3 DEF FinalFiles
<1>9. StateContents'
  BY <1>1, <1>2 DEF OnDisk, StateContents, Recorded, terminal
<1>10. MarkedCuts'
  <2>1. \A k, r : Kept(k, r)' = Kept(k, r)
    BY <1>1, FilesSame
  <2>. QED
    BY <1>1, <1>2, <2>1 DEF MarkedCuts, MarkedCut
<1>. QED
  BY <1>3, <1>4, <1>5, <1>6, <1>7, <1>8, <1>9, <1>10 DEF Whole, Accounts, OnDisk, Cuts

(* What flow steps leave of a cut. *)
LEMMA FlowCuts ==
  ASSUME NEW level, RunCuts(level), mode' = mode, restoredID' = restoredID, status' = status,
         files' = files, staging' = staging, committed' = committed, written' = written,
         \A k \in Epochs : Open(k) => \A r \in Records : RunCut(level, k, r) =>
           OnePlace(r[2] <= snapshot(level, k, r[1])', {o \in Operators : r \in snapshot(level, k, o)'},
                    OnTheWay(chan', level, k, r), Stored(k, r))
  PROVE  RunCuts(level)'
<1>1. \A k, r : Stored(k, r)' = Stored(k, r)
  BY FilesSame
<1>2. \A k : Open(k)' <=> Open(k)
  BY DEF Open, terminal
<1>. SUFFICES ASSUME mode' # "down", NEW k \in Epochs, Open(k)', NEW r \in Records PROVE RunCut(level, k, r)'
  BY DEF RunCuts
<1>3. Open(k) /\ RunCut(level, k, r)
  BY <1>2 DEF RunCuts
<1>. QED
  BY <1>1, <1>3 DEF RunCut

(* What most steps need of the invariant. *)
LEMMA RunningFacts ==
  ASSUME IInv, NEW level \in [Subtasks -> IDs \cup {0}], Whole(level)
  PROVE  /\ level \in [Subtasks -> Nat] /\ chan \in Channels /\ Leveled(chan, ended, level)
         /\ held \in [Operators -> SUBSET Records] /\ restoredID \in Nat
         /\ \A u \in Subtasks : u \notin returned => \A e \in Edges : e[1] = u => u \notin ended[e[2]]
<1>1. Ends(level) /\ LeveledBy(level)
  BY DEF Whole, Accounts
<1>2. \A u \in Subtasks : u \notin returned => \A e \in Edges : e[1] = u => u \notin ended[e[2]]
  BY <1>1 DEF Ends
<1>. QED
  BY <1>1, <1>2, LevelNat, Numbers DEF IInv, FlowTypes, RunTypes, LeveledBy

(* A record that is sent on goes along its route. *)
LEMMA EmitStreams ==
  ASSUME NEW c \in Channels, NEW over, NEW back, NEW level, Streams(c, over, back, level), Routed(c),
         NEW u \in Subtasks, u \notin back, u \notin Sinks, NEW r \in Records, u \in route(r)
  PROVE  Streams(EmitRecord(c, u, r), over, back, level) /\ Routed(EmitRecord(c, u, r))
<1>. DEFINE d == EmitRecord(c, u, r)
<1>1. Dest(u, r) \subseteq route(r)
  BY RouteIs
<1>2. /\ <<Rec(r)>> \in Seq(Messages) /\ Len(<<Rec(r)>>) = 1 /\ <<Rec(r)>>[1] = Rec(r)
      /\ Rec(r).kind = "record" /\ Rec(r).val = r
  BY MessagesDiffer DEF Messages
<1>3. ASSUME NEW e \in Edges
      PROVE  \/ d[e] = c[e]
             \/ /\ e[1] = u
                /\ \E q \in Seq(Messages) :
                     /\ d[e] = c[e] \o q
                     /\ \A n \in 1..Len(q) : /\ q[n].kind # "eos"
                                             /\ q[n].kind = "record" => e[2] \in route(q[n].val)
  <2>1. CASE ~(e[1] = u /\ e[2] \in Dest(u, r))
    BY <2>1 DEF EmitRecord
  <2>2. CASE e[1] = u /\ e[2] \in Dest(u, r)
    <3>1. d[e] = Append(c[e], Rec(r)) /\ c[e] \in Seq(Messages)
      BY <2>2 DEF EmitRecord, Channels
    <3>2. d[e] = c[e] \o <<Rec(r)>>
      BY <3>1, AppendIsConcat
    <3>3. \A n \in 1..Len(<<Rec(r)>>) : n = 1
      BY <1>2
    <3>. QED
      BY <1>1, <1>2, <2>2, <3>2, <3>3
  <2>. QED
    BY <2>1, <2>2
<1>. HIDE DEF d
<1>4. Streams(d, over, back, level) /\ Routed(d)
  <2>1. Sends(c, d, u)
    BY <1>3 DEF Sends
  <2>. QED
    BY <2>1, StreamsSend
<1>. QED
  BY <1>4 DEF d

(* runSourceSubtask emits a record: from ahead of the source to a          *)
(* channel.                                                                *)
LEMMA SourceRecordWhole ==
  ASSUME IInv, IInv', NEW level \in [Subtasks -> IDs \cup {0}], Whole(level), NEW s \in Sources, SourceRecord(s)
  PROVE  Whole(level)'
<1>. DEFINE q == <<s, position[s] + 1>>
<1>1. /\ mode = "running" /\ ~failed /\ s \notin returned /\ ~barrierDue(s) /\ position[s] < Count[s]
      /\ position' = [position EXCEPT ![s] = @ + 1]
      /\ sinceLast' = [sinceLast EXCEPT ![s] = IF injected[s] < maxBarriers(s) THEN @ + 1 ELSE @]
      /\ chan' = EmitRecord(chan, s, q)
      /\ UNCHANGED <<coordinator, injected, sinkVars, sink, runVars>>
      /\ ended' = ended /\ returned' = returned /\ held' = held
      /\ pc' = pc /\ pending' = pending /\ epoch' = epoch /\ restoredID' = restoredID /\ injected' = injected
      /\ mode' = mode /\ failed' = failed /\ status' = status /\ files' = files
      /\ staging' = staging /\ committed' = committed /\ written' = written
  BY DEF SourceRecord, up, sinkVars, sink, sinkMemory, sinkDisk, runVars, coordinator, memory, disk
<1>2. /\ level \in [Subtasks -> Nat] /\ chan \in Channels /\ Leveled(chan, ended, level)
      /\ s \in Subtasks /\ s \notin Sinks /\ s \notin Operators
      /\ \A e \in Edges : e[1] = s => s \notin ended[e[2]]
      /\ position \in [Sources -> Nat] /\ sinceLast \in [Sources -> Nat] /\ injected \in [Sources -> IDs \cup {0}]
      /\ injected[s] \in Nat /\ position[s] \in Nat /\ sinceLast[s] \in Nat /\ injected[s] = level[s]
  <2>1. s \in Subtasks /\ s \notin Sinks /\ s \notin Operators
    BY KindsOfSubtasks
  <2>2. position \in [Sources -> Nat] /\ sinceLast \in [Sources -> Nat] /\ injected \in [Sources -> IDs \cup {0}]
    BY DEF IInv, FlowTypes
  <2>3. injected[s] \in Nat /\ injected[s] = level[s]
    BY <2>2, Numbers DEF Whole, LeveledBy
  <2>. QED
    BY <1>1, <2>1, <2>2, <2>3, RunningFacts
<1>3. q \in Records /\ q[1] = s /\ q[2] = position[s] + 1 /\ s \in route(q)
  <2>1. q \in Records
    BY <1>1, <1>2, JobAssumption
  <2>. QED
    BY <2>1, RouteIs
<1>. HIDE DEF q
<1>4. PICK d \in Subtasks : s \in Up[d] /\ Dest(s, q) = {d}
  BY <1>2, <1>3, RouteIs
<1>5. chan' \in Channels /\ Leveled(chan', ended, level)
  BY <1>1, <1>2, <1>3, EmitKeeps
<1>6. LeveledBy(level)'
  BY <1>1, <1>5 DEF Whole, LeveledBy
<1>7. Ends(level)' /\ ChannelContents'
  <2>1. Streams(chan, ended, returned, level) /\ Routed(chan)
    BY StreamsAre DEF Whole, Accounts, OnDisk
  <2>2. Streams(chan', ended, returned, level) /\ Routed(chan')
    BY <1>1, <1>2, <1>3, <2>1, EmitStreams, ZenonT(30)
  <2>. QED
    BY <1>1, <2>2, StreamsAre
<1>8. PacedSources'
  <2>1. PacedSources
    BY DEF Whole, Accounts
  <2>2. ASSUME NEW x \in Sources, injected'[x] < maxBarriers(x)
        PROVE  position'[x] = injected'[x] * Interval[x] + sinceLast'[x]
    <3>1. Interval[x] \in Nat /\ injected[x] \in Nat /\ sinceLast[x] \in Nat /\ position[x] \in Nat
      <4>1. Interval[x] \in Nat
        BY JobAssumption
      <4>2. injected[x] \in Nat
        BY <1>2, Numbers
      <4>. QED
        BY <1>2, <4>1, <4>2
    <3>2. position[x] = injected[x] * Interval[x] + sinceLast[x]
      BY <1>1, <2>1, <2>2 DEF PacedSources
    <3>3. injected[x] * Interval[x] \in Nat
      BY <3>1
    <3>. DEFINE z == injected[x] * Interval[x]
    <3>4. z \in Nat /\ position[x] = z + sinceLast[x]
      BY <3>2, <3>3
    <3>. HIDE DEF z
    <3>5. position'[x] = z + sinceLast'[x]
      BY <1>1, <1>2, <2>2, <3>1, <3>4
    <3>. QED
      BY <1>1, <3>5 DEF z
  <2>. QED
    BY <2>2 DEF PacedSources
<1>9. Returned(level)'
  <2>1. Returned(level)
    BY DEF Whole, Accounts
  <2>2. \A x \in Sources : x \in returned => position'[x] = position[x]
    BY <1>1, <1>2
  <2>3. pending \in [Sinks -> SUBSET IDs]
    BY DEF IInv, SinkTypes
  <2>. QED
    BY <1>1, <2>1, <2>2, <2>3, ReturnedStays
<1>10. RunCuts(level)'
  <2>1. ASSUME NEW k \in Epochs, Open(k), NEW r \in Records, RunCut(level, k, r)
        PROVE  OnePlace(r[2] <= snapshot(level, k, r[1])', {o \in Operators : r \in snapshot(level, k, o)'},
                        OnTheWay(chan', level, k, r), Stored(k, r))
    <3>1. \A o \in Operators : snapshot(level, k, o)' = snapshot(level, k, o)
      BY <1>1, KindsOfSubtasks DEF snapshot
    <3>2. {o \in Operators : r \in snapshot(level, k, o)'} = {o \in Operators : r \in snapshot(level, k, o)}
      BY <3>1
    <3>3. k \in Nat /\ r[1] \in Sources /\ r[2] \in Nat /\ r = <<r[1], r[2]>> /\ level[s] \in Nat
      BY <1>2, EpochNat, RecordIs
    <3>4. CASE r = q /\ level[s] < k
      <4>1. snapshot(level, k, r[1])' = position[s] + 1 /\ snapshot(level, k, r[1]) = position[s]
        BY <1>1, <1>2, <1>3, <3>3, <3>4 DEF snapshot
      <4>2. (r[2] <= snapshot(level, k, r[1])') = TRUE /\ (r[2] <= snapshot(level, k, r[1])) = FALSE
        BY <1>2, <1>3, <3>4, <4>1
      <4>3. Gains(OnTheWay(chan, level, k, r), OnTheWay(chan', level, k, r))
        BY <1>1, <1>2, <1>3, <1>4, <3>3, <3>4, EmitHere
      <4>4. OnePlace(FALSE, {o \in Operators : r \in snapshot(level, k, o)}, OnTheWay(chan, level, k, r), Stored(k, r))
        BY <2>1, <4>2 DEF RunCut
      <4>5. OnePlace(TRUE, {o \in Operators : r \in snapshot(level, k, o)}, OnTheWay(chan', level, k, r), Stored(k, r))
        BY <4>3, <4>4, AppearsY
      <4>. QED
        BY <3>2, <4>2, <4>5
    <3>5. CASE r # q \/ level[s] >= k
      <4>1. OnTheWay(chan', level, k, r) = OnTheWay(chan, level, k, r)
        BY <1>1, <1>2, <1>3, <3>3, <3>5, EmitSame
      <4>2. (r[2] <= snapshot(level, k, r[1])') <=> (r[2] <= snapshot(level, k, r[1]))
        <5>1. CASE r[1] # s \/ level[s] >= k
          BY <1>1, <1>2, <3>3, <5>1 DEF snapshot
        <5>2. CASE r[1] = s /\ ~(level[s] >= k)
          <6>1. snapshot(level, k, r[1])' = position[s] + 1 /\ snapshot(level, k, r[1]) = position[s]
            BY <1>1, <1>2, <3>3, <5>2 DEF snapshot
          <6>2. r[2] # position[s] + 1
            BY <1>2, <3>3, <3>5, <5>2 DEF q
          <6>. QED
            BY <1>2, <3>3, <6>1, <6>2
        <5>. QED
          BY <5>1, <5>2
      <4>. QED
        BY <2>1, <3>2, <4>1, <4>2 DEF RunCut, OnePlace
    <3>. QED
      BY <3>3, <3>4, <3>5
  <2>2. RunCuts(level)
    BY DEF Whole, Cuts
  <2>. QED
    BY <1>1, <2>1, <2>2, FlowCuts
<1>11. \A o \in Operators : \A r \in held'[o] : o \in route(r)
  BY <1>1 DEF Whole, OnDisk, StateContents
<1>12. \A x \in Sources : x \in returned => position'[x] = position[x]
  BY <1>1, <1>2
<1>. QED
  BY <1>1, <1>6, <1>7, <1>8, <1>9, <1>10, <1>11, <1>12, FlowWhole

(* The sources, the coordinator, the sinks and the executor stand by. *)
LEMMA OperatorStepWhole ==
  ASSUME IInv, NEW level \in [Subtasks -> IDs \cup {0}], Whole(level), mode = "running",
         UNCHANGED <<coordinator, sourceVars, ended, sinkVars, sink, runVars>>,
         Leveled(chan', ended, level), Streams(chan', ended, returned', level), Routed(chan'),
         returned \subseteq returned',
         \A s \in Sources : s \in returned' => s \in returned,
         \A o \in Operators : o \in returned' => \/ o \in returned /\ held'[o] = held[o]
                                                 \/ Up[o] \subseteq ended[o] /\ held'[o] = {},
         \A o \in Operators : \A r \in held'[o] : o \in route(r),
         \A k \in Epochs : Open(k) => \A r \in Records : RunCut(level, k, r) =>
           OnePlace(r[2] <= snapshot(level, k, r[1]), {o \in Operators : r \in snapshot(level, k, o)'},
                    OnTheWay(chan', level, k, r), Stored(k, r))
  PROVE  Whole(level)'
<1>1. /\ position' = position /\ injected' = injected /\ sinceLast' = sinceLast /\ ended' = ended
      /\ pc' = pc /\ pending' = pending /\ epoch' = epoch /\ restoredID' = restoredID
      /\ mode' = mode /\ failed' = failed /\ status' = status /\ files' = files
      /\ staging' = staging /\ committed' = committed /\ written' = written
      /\ UNCHANGED <<coordinator, injected, sinkVars, sink, runVars>>
  BY DEF sourceVars, sinkVars, sink, sinkMemory, sinkDisk, runVars, coordinator, memory, disk
<1>2. LeveledBy(level)'
  BY <1>1 DEF Whole, LeveledBy
<1>3. Ends(level)' /\ ChannelContents'
  BY <1>1, StreamsAre
<1>4. PacedSources'
  BY <1>1 DEF Whole, Accounts, PacedSources
<1>5. Returned(level)'
  <2>1. Returned(level)
    BY DEF Whole, Accounts
  <2>2. pending \in [Sinks -> SUBSET IDs]
    BY DEF IInv, SinkTypes
  <2>. QED
    BY <1>1, <2>1, <2>2, ReturnedStays
<1>6. RunCuts(level)'
  <2>1. RunCuts(level)
    BY DEF Whole, Cuts
  <2>2. \A k : \A r \in Records : snapshot(level, k, r[1])' = snapshot(level, k, r[1])
    BY <1>1, RecordIs DEF snapshot
  <2>3. \A k \in Epochs : Open(k) => \A r \in Records : RunCut(level, k, r) =>
           OnePlace(r[2] <= snapshot(level, k, r[1])', {o \in Operators : r \in snapshot(level, k, o)'},
                    OnTheWay(chan', level, k, r), Stored(k, r))
    BY <2>2
  <2>. QED
    BY <1>1, <2>1, <2>3, FlowCuts
<1>. QED
  BY <1>1, <1>2, <1>3, <1>4, <1>5, <1>6, FlowWhole

(* An operator sends a record it held: from its state to a channel. *)
LEMMA OperatorFiresWhole ==
  ASSUME IInv, NEW level \in [Subtasks -> IDs \cup {0}], Whole(level), NEW o \in Operators, OperatorFires(o)
  PROVE  Whole(level)'
<1>1. PICK q \in held[o] : chan' = EmitRecord(chan, o, q) /\ held' = [held EXCEPT ![o] = @ \ {q}]
  BY DEF OperatorFires
<1>2. /\ UNCHANGED <<coordinator, sourceVars, ended, sinkVars, sink, runVars>>
      /\ returned' = returned /\ mode = "running" /\ o \notin returned /\ files' = files
  BY DEF OperatorFires, up, coordinator, disk
<1>3. /\ level \in [Subtasks -> Nat] /\ chan \in Channels /\ Leveled(chan, ended, level)
      /\ held \in [Operators -> SUBSET Records]
      /\ o \in Subtasks /\ o \notin Sinks /\ o \notin Sources
      /\ \A e \in Edges : e[1] = o => o \notin ended[e[2]]
  BY <1>2, KindsOfSubtasks, RunningFacts
<1>4. q \in Records /\ o \in route(q)
  BY <1>1, <1>3 DEF Whole, OnDisk, StateContents
<1>5. PICK d \in Subtasks : o \in Up[d] /\ Dest(o, q) = {d}
  BY <1>3, <1>4, RouteIs
<1>6. chan' \in Channels /\ Leveled(chan', ended, level)
  BY <1>1, <1>3, <1>4, EmitKeeps
<1>7. Streams(chan', ended, returned', level) /\ Routed(chan')
  <2>1. Streams(chan, ended, returned, level) /\ Routed(chan)
    BY StreamsAre DEF Whole, Accounts, OnDisk
  <2>. QED
    BY <1>1, <1>2, <1>3, <1>4, <2>1, EmitStreams
<1>8. ASSUME NEW k \in Epochs, Open(k), NEW r \in Records, RunCut(level, k, r)
      PROVE  OnePlace(r[2] <= snapshot(level, k, r[1]), {x \in Operators : r \in snapshot(level, k, x)'},
                      OnTheWay(chan', level, k, r), Stored(k, r))
  <2>. DEFINE X == {x \in Operators : r \in snapshot(level, k, x)}
              X2 == {x \in Operators : r \in snapshot(level, k, x)'}
  <2>1. k \in Nat /\ level[o] \in Nat
    BY <1>3, EpochNat
  <2>2. CASE r = q /\ level[o] < k
    <3>1. Gains(OnTheWay(chan, level, k, r), OnTheWay(chan', level, k, r))
      BY <1>1, <1>3, <1>4, <1>5, <2>1, <2>2, EmitHere
    <3>2. X2 = X \ {o} /\ o \in X
      BY <1>1, <1>2, <1>3, <2>1, <2>2, KindsOfSubtasks DEF snapshot
    <3>3. OnePlace(r[2] <= snapshot(level, k, r[1]), X, OnTheWay(chan, level, k, r), Stored(k, r))
      BY <1>8 DEF RunCut
    <3>. HIDE DEF X, X2
    <3>4. OnePlace(r[2] <= snapshot(level, k, r[1]), X2, OnTheWay(chan', level, k, r), Stored(k, r))
      BY <3>1, <3>2, <3>3, MovesXY
    <3>. QED
      BY <3>4 DEF X2
  <2>3. CASE r # q \/ level[o] >= k
    <3>1. OnTheWay(chan', level, k, r) = OnTheWay(chan, level, k, r)
      BY <1>1, <1>3, <1>4, <2>1, <2>3, EmitSame
    <3>2. X2 = X
      BY <1>1, <1>2, <1>3, <2>1, <2>3, KindsOfSubtasks DEF snapshot
    <3>. QED
      BY <1>8, <3>1, <3>2 DEF RunCut
  <2>. QED
    BY <2>1, <2>2, <2>3
<1>9. \A x \in Operators : \A r \in held'[x] : x \in route(r)
  BY <1>1, <1>3 DEF Whole, OnDisk, StateContents
<1>10. \A x \in Operators : x \in returned' => x \in returned /\ held'[x] = held[x]
  BY <1>1, <1>2, <1>3
<1>. QED
  BY <1>2, <1>6, <1>7, <1>8, <1>9, <1>10, OperatorStepWhole

(* An operator takes a record and sends it on or holds it. *)
LEMMA OperatorRecordWhole ==
  ASSUME IInv, NEW level \in [Subtasks -> IDs \cup {0}], Whole(level),
         NEW o \in Operators, NEW u \in Up[o], OperatorRecord(o, u)
  PROVE  Whole(level)'
<1>. DEFINE q == Head(chan[<<u, o>>]).val
            t == taken(o, {u})
<1>1. /\ u \in liveInputs(o) /\ headIs(u, o, "record") /\ mode = "running" /\ o \notin returned
      /\ \/ chan' = EmitRecord(t, o, q) /\ held' = held
         \/ chan' = t /\ held' = [held EXCEPT ![o] = @ \cup {q}]
      /\ UNCHANGED <<coordinator, sourceVars, ended, sinkVars, sink, runVars>>
      /\ returned' = returned /\ files' = files
  BY DEF OperatorRecord, up, coordinator, disk
<1>2. /\ level \in [Subtasks -> Nat] /\ chan \in Channels /\ Leveled(chan, ended, level)
      /\ held \in [Operators -> SUBSET Records]
      /\ o \in Subtasks /\ o \notin Sinks /\ o \notin Sources
      /\ \A e \in Edges : e[1] = o => o \notin ended[e[2]]
  BY <1>1, KindsOfSubtasks, RunningFacts
<1>3. /\ chan[<<u, o>>] # << >> /\ Head(chan[<<u, o>>]).kind # "barrier"
      /\ q \in Records /\ Head(chan[<<u, o>>]) = Rec(q) /\ o \in route(q)
  <2>1. chan[<<u, o>>] # << >> /\ Head(chan[<<u, o>>]).kind = "record" /\ q \in Records
    BY <1>1, <1>2, HeadRecord DEF headIs
  <2>2. <<u, o>> \in Edges /\ chan[<<u, o>>] \in Seq(Messages) /\ <<u, o>>[2] = o
    BY <1>2, EdgeIs DEF Channels
  <2>3. Head(chan[<<u, o>>]) \in Messages /\ Head(chan[<<u, o>>]) = chan[<<u, o>>][1] /\ 1 \in 1..Len(chan[<<u, o>>])
    BY <2>1, <2>2, TailIs
  <2>4. Head(chan[<<u, o>>]) = Rec(q)
    BY <2>1, <2>3, MessageIsOne
  <2>5. ChannelContents
    BY DEF Whole, OnDisk
  <2>6. o \in route(q)
    BY <2>1, <2>2, <2>3, <2>5 DEF ChannelContents
  <2>. QED
    BY <2>1, <2>4, <2>6
<1>. HIDE DEF q
<1>4. t \in Channels /\ Leveled(t, ended, level)
  BY <1>2, <1>3, TakeKeeps
<1>5. TakesFrom(chan, t, o, {u})
  BY TakenIs
<1>. HIDE DEF t
<1>6. PICK d \in Subtasks : o \in Up[d] /\ Dest(o, q) = {d}
  BY <1>2, <1>3, RouteIs
<1>7. Streams(t, ended, returned, level) /\ Routed(t)
  <2>1. Streams(chan, ended, returned, level) /\ Routed(chan)
    BY StreamsAre DEF Whole, Accounts, OnDisk
  <2>2. {u} \in SUBSET Up[o] /\ \A x \in {u} : chan[<<x, o>>] # << >>
    BY <1>3
  <2>. QED
    BY <1>2, <1>5, <2>1, <2>2, StreamsTake
<1>8. Streams(chan', ended, returned', level) /\ Routed(chan') /\ Leveled(chan', ended, level) /\ chan' \in Channels
  <2>1. CASE chan' = t
    BY <1>1, <1>4, <1>7, <2>1
  <2>2. CASE chan' = EmitRecord(t, o, q)
    <3>1. Streams(EmitRecord(t, o, q), ended, returned, level) /\ Routed(EmitRecord(t, o, q))
      BY <1>1, <1>2, <1>3, <1>4, <1>7, EmitStreams
    <3>2. EmitRecord(t, o, q) \in Channels /\ Leveled(EmitRecord(t, o, q), ended, level)
      BY <1>2, <1>3, <1>4, EmitKeeps
    <3>. QED
      BY <1>1, <2>2, <3>1, <3>2
  <2>. QED
    BY <1>1, <2>1, <2>2
<1>9. ASSUME NEW k \in Epochs, Open(k), NEW r \in Records, RunCut(level, k, r)
      PROVE  OnePlace(r[2] <= snapshot(level, k, r[1]), {x \in Operators : r \in snapshot(level, k, x)'},
                      OnTheWay(chan', level, k, r), Stored(k, r))
  <2>. DEFINE X == {x \in Operators : r \in snapshot(level, k, x)}
              X2 == {x \in Operators : r \in snapshot(level, k, x)'}
              E == r[2] <= snapshot(level, k, r[1])
              Y == OnTheWay(chan, level, k, r)
              Z == Stored(k, r)
  <2>1. k \in Nat /\ level[o] \in Nat
    BY <1>2, EpochNat
  <2>2. OnePlace(E, X, Y, Z)
    BY <1>9 DEF RunCut
  <2>3. held' = held => X2 = X
    BY <1>1, KindsOfSubtasks DEF snapshot
  <2>4. CASE r = q /\ level[o] < k
    <3>1. AtMostOne(Y)
      BY <2>2 DEF OnePlace
    <3>2. Y # {} /\ OnTheWay(t, level, k, r) = {}
      <4>1. /\ chan[<<u, o>>] # << >> /\ Head(chan[<<u, o>>]) = Rec(r) /\ level[o] < k
            /\ chan \in Channels /\ t \in Channels /\ k \in Nat /\ o \in Subtasks
        BY <1>2, <1>3, <1>4, <2>1, <2>4
      <4>. HIDE DEF Channels, Leveled
      <4>. QED
        BY <1>5, <3>1, <4>1, TakenHere
    <3>3. CASE chan' = EmitRecord(t, o, q) /\ held' = held
      <4>1. Gains(OnTheWay(t, level, k, r), OnTheWay(chan', level, k, r))
        BY <1>2, <1>3, <1>4, <1>6, <2>1, <2>4, <3>3, EmitHere
      <4>2. Gains({}, OnTheWay(chan', level, k, r))
        BY <3>2, <4>1
      <4>. HIDE DEF X, X2, E, Y, Z
      <4>3. OnePlace(E, X, OnTheWay(chan', level, k, r), Z)
        BY <2>2, <3>2, <4>2, MovesYY
      <4>. QED
        BY <2>3, <3>3, <4>3 DEF E, X2, Z
    <3>4. CASE chan' = t /\ held' = [held EXCEPT ![o] = @ \cup {q}]
      <4>1. X2 = X \cup {o}
        BY <1>1, <1>2, <2>1, <2>4, <3>4, KindsOfSubtasks DEF snapshot
      <4>2. Gains(X, X2)
        BY <4>1 DEF Gains
      <4>. HIDE DEF X, X2, E, Y, Z
      <4>3. OnePlace(E, X2, {}, Z)
        BY <2>2, <3>2, <4>2, MovesYX
      <4>. QED
        BY <3>2, <3>4, <4>3 DEF E, X2, Z
    <3>. QED
      BY <1>1, <3>3, <3>4
  <2>5. CASE r # q \/ level[o] >= k
    <3>1. Alike(Y, OnTheWay(t, level, k, r))
      <4>1. \A x \in {u} : chan[<<x, o>>] # << >>
        BY <1>3
      <4>2. level[o] < k => \A x \in {u} : Head(chan[<<x, o>>]) # Rec(r) /\ Head(chan[<<x, o>>]) # Bar(k)
        BY <1>3, <2>1, <2>5, MessagesDiffer
      <4>3. {u} \in SUBSET Up[o]
        OBVIOUS
      <4>. QED
        BY <1>2, <1>4, <1>5, <4>1, <4>2, <4>3, TakenAlike
    <3>2. OnTheWay(chan', level, k, r) = OnTheWay(t, level, k, r)
      <4>1. OnTheWay(EmitRecord(t, o, q), level, k, r) = OnTheWay(t, level, k, r)
        BY <1>2, <1>3, <1>4, <2>1, <2>5, EmitSame
      <4>. QED
        BY <1>1, <4>1
    <3>3. X2 = X
      BY <1>1, <1>2, <2>1, <2>5, KindsOfSubtasks DEF snapshot
    <3>. HIDE DEF X, X2, E, Y, Z
    <3>4. OnePlace(E, X2, OnTheWay(chan', level, k, r), Z)
      BY <2>2, <3>1, <3>2, <3>3, AlikeKeeps
    <3>. QED
      BY <3>4 DEF E, X2, Z
  <2>. QED
    BY <2>1, <2>4, <2>5
<1>10. \A x \in Operators : \A r \in held'[x] : x \in route(r)
  BY <1>1, <1>2, <1>3 DEF Whole, OnDisk, StateContents
<1>11. \A x \in Operators : x \in returned' => x \in returned /\ held'[x] = held[x]
  BY <1>1, <1>2
<1>. QED
  BY <1>1, <1>8, <1>9, <1>10, <1>11, OperatorStepWhole

(* An operator at the end of its inputs sends all it holds. *)
LEMMA OperatorEndWhole ==
  ASSUME IInv, NEW level \in [Subtasks -> IDs \cup {0}], Whole(level), NEW o \in Operators, OperatorEnd(o)
  PROVE  Whole(level)'
<1>. DEFINE c == [e \in Edges |-> IF e[1] = o THEN chan[e] \o flushed(o, e[2]) ELSE chan[e]]
<1>1. /\ chan' = Broadcast(c, o, EOS) /\ held' = [held EXCEPT ![o] = {}] /\ returned' = returned \cup {o}
      /\ UNCHANGED <<coordinator, sourceVars, ended, sinkVars, sink, runVars>>
      /\ mode = "running" /\ o \notin returned /\ liveInputs(o) = {} /\ files' = files
  BY DEF OperatorEnd, up, coordinator, disk
<1>2. /\ level \in [Subtasks -> Nat] /\ chan \in Channels /\ Leveled(chan, ended, level)
      /\ held \in [Operators -> SUBSET Records]
      /\ o \in Subtasks /\ o \notin Sinks /\ o \notin Sources
      /\ \A e \in Edges : e[1] = o => o \notin ended[e[2]]
  BY <1>1, KindsOfSubtasks, RunningFacts
<1>3. c \in Channels /\ Leveled(c, ended, level)
  BY <1>2, FlushKeeps
<1>4. \A r \in held[o] : r \in Records /\ o \in route(r)
  BY <1>2 DEF Whole, OnDisk, StateContents
<1>5. ASSUME NEW r \in Records
      PROVE  r \in held[o] => \E d \in Subtasks : o \in Up[d] /\ Dest(o, r) = {d}
  BY <1>2, <1>4, RouteIs
<1>6. ASSUME NEW k \in Nat, NEW r \in Records
      PROVE  /\ r \notin held[o] \/ level[o] >= k => OnTheWay(c, level, k, r) = OnTheWay(chan, level, k, r)
             /\ r \in held[o] /\ level[o] < k => Gains(OnTheWay(chan, level, k, r), OnTheWay(c, level, k, r))
  <2>1. LetsGo(c, o)
    BY DEF LetsGo
  <2>. HIDE DEF c
  <2>2. c \in Channels
    BY <1>3
  <2>3. r \in held[o] => \E d \in Subtasks : o \in Up[d] /\ Dest(o, r) = {d}
    BY <1>5
  <2>. QED
    BY <1>2, <2>1, <2>2, <2>3, FlushMoves
<1>7. Streams(c, ended, returned, level) /\ Routed(c)
  <2>1. Streams(chan, ended, returned, level) /\ Routed(chan)
    BY StreamsAre DEF Whole, Accounts, OnDisk
  <2>2. ASSUME NEW e \in Edges
        PROVE  \/ c[e] = chan[e]
               \/ /\ e[1] = o
                  /\ \E q \in Seq(Messages) :
                       /\ c[e] = chan[e] \o q
                       /\ \A n \in 1..Len(q) : /\ q[n].kind # "eos"
                                               /\ q[n].kind = "record" => e[2] \in route(q[n].val)
    <3>1. CASE e[1] # o
      BY <3>1
    <3>2. CASE e[1] = o
      <4>. DEFINE q == flushed(o, e[2])
      <4>1. c[e] = chan[e] \o q
        BY <3>2
      <4>2. /\ q \in Seq(Messages)
            /\ \A n \in 1..Len(q) : \E r \in held[o] : e[2] \in Dest(o, r) /\ q[n] = Rec(r)
        BY <1>2, FlushedIs
      <4>. HIDE DEF q, c
      <4>3. ASSUME NEW n \in 1..Len(q)
            PROVE  q[n].kind # "eos" /\ (q[n].kind = "record" => e[2] \in route(q[n].val))
        <5>1. PICK r \in held[o] : e[2] \in Dest(o, r) /\ q[n] = Rec(r)
          BY <4>2
        <5>2. r \in Records /\ o \in route(r)
          BY <1>4
        <5>3. Dest(o, r) \subseteq route(r)
          BY <1>2, <5>2, RouteIs
        <5>4. Rec(r).kind = "record" /\ Rec(r).val = r
          BY <5>2, MessagesDiffer
        <5>. QED
          BY <5>1, <5>3, <5>4
      <4>. QED
        BY <3>2, <4>1, <4>2, <4>3
    <3>. QED
      BY <3>1, <3>2
  <2>. HIDE DEF c
  <2>3. Sends(chan, c, o)
    BY <2>2 DEF Sends
  <2>. QED
    <3>1. o \notin returned /\ chan \in Channels
      BY <1>1, <1>2
    <3>. QED
      BY <2>1, <2>3, <3>1, StreamsSend
<1>. HIDE DEF c
<1>8. Streams(chan', ended, returned', level) /\ Routed(chan')
  BY <1>1, <1>3, <1>7, StreamsEnd
<1>9. chan' \in Channels /\ Leveled(chan', ended, level)
  BY <1>1, <1>2, <1>3, EndKeeps
<1>10. ASSUME NEW k \in Epochs, Open(k), NEW r \in Records, RunCut(level, k, r)
      PROVE  OnePlace(r[2] <= snapshot(level, k, r[1]), {x \in Operators : r \in snapshot(level, k, x)'},
                      OnTheWay(chan', level, k, r), Stored(k, r))
  <2>. DEFINE X == {x \in Operators : r \in snapshot(level, k, x)}
              X2 == {x \in Operators : r \in snapshot(level, k, x)'}
              E == r[2] <= snapshot(level, k, r[1])
              Y == OnTheWay(chan, level, k, r)
              Z == Stored(k, r)
  <2>1. k \in Nat /\ level[o] \in Nat
    BY <1>2, EpochNat
  <2>2. OnePlace(E, X, Y, Z)
    BY <1>10 DEF RunCut
  <2>3. OnTheWay(chan', level, k, r) = OnTheWay(c, level, k, r)
    <3>1. EOS \in Messages /\ EOS # Rec(r)
      BY <2>1, MessagesDiffer DEF Messages
    <3>2. Broadcast(c, o, EOS) \in Channels
      BY <1>1, <1>9
    <3>. QED
      BY <1>1, <1>3, <2>1, <3>1, <3>2, BroadcastSame
  <2>4. CASE r \in held[o] /\ level[o] < k
    <3>1. Gains(Y, OnTheWay(chan', level, k, r))
      BY <1>6, <2>1, <2>3, <2>4
    <3>2. X2 = X \ {o} /\ o \in X
      BY <1>1, <1>2, <2>1, <2>4, KindsOfSubtasks DEF snapshot
    <3>. HIDE DEF X, X2, E, Y, Z
    <3>3. OnePlace(E, X2, OnTheWay(chan', level, k, r), Z)
      BY <2>2, <3>1, <3>2, MovesXY
    <3>. QED
      BY <3>3 DEF E, X2, Z
  <2>5. CASE ~(r \in held[o] /\ level[o] < k)
    <3>1. OnTheWay(chan', level, k, r) = Y
      BY <1>6, <2>1, <2>3, <2>5
    <3>2. X2 = X
      BY <1>1, <1>2, <2>1, <2>5, KindsOfSubtasks DEF snapshot
    <3>. QED
      BY <2>2, <3>1, <3>2
  <2>. QED
    BY <2>4, <2>5
<1>11. \A x \in Operators : \A r \in held'[x] : x \in route(r)
  BY <1>1, <1>2 DEF Whole, OnDisk, StateContents
<1>12. \A x \in Operators : x \in returned' => \/ x \in returned /\ held'[x] = held[x]
                                               \/ Up[x] \subseteq ended[x] /\ held'[x] = {}
  BY <1>1, <1>2 DEF liveInputs
<1>13. \A k \in Epochs : Open(k) => \A r \in Records : RunCut(level, k, r) =>
           OnePlace(r[2] <= snapshot(level, k, r[1]), {x \in Operators : r \in snapshot(level, k, x)'},
                    OnTheWay(chan', level, k, r), Stored(k, r))
  BY <1>10
<1>14. returned \subseteq returned' /\ \A s \in Sources : s \in returned' => s \in returned
  BY <1>1, <1>2
<1>15. mode = "running" /\ UNCHANGED <<coordinator, sourceVars, ended, sinkVars, sink, runVars>>
  BY <1>1
<1>. QED
  BY <1>8, <1>9, <1>11, <1>12, <1>13, <1>14, <1>15, OperatorStepWhole

(* An input of a subtask ends. *)
LEMMA InputEndsWhole ==
  ASSUME IInv, NEW level \in [Subtasks -> IDs \cup {0}], Whole(level),
         NEW s \in Subtasks, NEW u \in Up[s], s \in Sinks => pc[s] = "run", InputEnds(s, u)
  PROVE  Whole(level)'
<1>. DEFINE t == taken(s, {u})
<1>1. /\ mode = "running" /\ s \notin returned /\ u \in liveInputs(s) /\ headIs(u, s, "eos")
      /\ chan' = t /\ ended' = [ended EXCEPT ![s] = @ \cup {u}]
      /\ UNCHANGED <<coordinator, injected, sinkVars, sink, runVars>>
      /\ position' = position /\ injected' = injected /\ sinceLast' = sinceLast
      /\ returned' = returned /\ held' = held
      /\ pc' = pc /\ pending' = pending /\ epoch' = epoch /\ restoredID' = restoredID
      /\ mode' = mode /\ failed' = failed /\ status' = status /\ files' = files
      /\ staging' = staging /\ committed' = committed /\ written' = written
  BY DEF InputEnds, up, sourceVars, sinkVars, sink, sinkMemory, sinkDisk, runVars, coordinator, memory, disk
<1>2. /\ level \in [Subtasks -> Nat] /\ chan \in Channels /\ Leveled(chan, ended, level)
      /\ ended \in [Subtasks -> SUBSET Subtasks]
  BY RunningFacts DEF IInv, FlowTypes
<1>3. /\ chan[<<u, s>>] # << >> /\ Head(chan[<<u, s>>]).kind = "eos" /\ Head(chan[<<u, s>>]) = EOS
      /\ <<u, s>> \in Edges /\ chan[<<u, s>>] \in Seq(Messages) /\ u \notin ended[s]
      /\ chan[<<u, s>>][1] = Head(chan[<<u, s>>]) /\ 1 \in 1..Len(chan[<<u, s>>]) /\ u \in Subtasks
  <2>1. chan[<<u, s>>] # << >> /\ Head(chan[<<u, s>>]).kind = "eos" /\ u \notin ended[s]
    BY <1>1 DEF headIs, liveInputs
  <2>2. <<u, s>> \in Edges /\ chan[<<u, s>>] \in Seq(Messages) /\ u \in Subtasks
    BY <1>2, EdgeIs, KindsOfSubtasks DEF Channels
  <2>3. Head(chan[<<u, s>>]) \in Messages /\ Head(chan[<<u, s>>]) = chan[<<u, s>>][1] /\ 1 \in 1..Len(chan[<<u, s>>])
    BY <2>1, <2>2, TailIs
  <2>. QED
    BY <2>1, <2>2, <2>3, MessageIsOne
<1>4. t \in Channels /\ Leveled(t, ended, level)
  BY <1>2, <1>3, TakeKeeps
<1>5. TakesFrom(chan, t, s, {u})
  BY TakenIs
<1>. HIDE DEF t
<1>6. Leveled(t, ended', level)
  <2>1. \A e \in Edges : e[1] \notin ended'[e[2]] => e[1] \notin ended[e[2]]
    BY <1>1, <1>2, EdgeIs
  <2>. QED
    BY <1>4, <2>1 DEF Leveled
<1>7. LeveledBy(level)'
  BY <1>1, <1>6 DEF Whole, LeveledBy
<1>8. Streams(chan, ended, returned, level) /\ Routed(chan)
  BY StreamsAre DEF Whole, Accounts, OnDisk
<1>9. Streams(t, ended, returned, level) /\ Routed(t)
  <2>1. {u} \in SUBSET Up[s] /\ \A x \in {u} : chan[<<x, s>>] # << >>
    BY <1>3
  <2>. QED
    BY <1>2, <1>5, <1>8, <2>1, StreamsTake
<1>10. u \in returned /\ t[<<u, s>>] = << >> /\ level[u] <= level[s]
  <2>. DEFINE c == chan[<<u, s>>]
  <2>1. /\ \A n \in 1..Len(c) : c[n].kind = "eos" => n = Len(c) /\ u \in returned
        /\ t[<<u, s>>] = Tail(c)
    BY <1>3, <1>5, <1>8 DEF Streams, TakesFrom
  <2>2. Between(c, level[s], level[u])
    BY <1>2, <1>3 DEF Leveled
  <2>3. c \in Seq(Messages) /\ c # << >> /\ c[1].kind = "eos" /\ 1 \in 1..Len(c)
    BY <1>3
  <2>. HIDE DEF c
  <2>4. Len(c) = 1 /\ u \in returned
    BY <2>1, <2>3
  <2>5. Tail(c) = << >>
    <3>. DEFINE w == Tail(c)
    <3>1. Len(w) = 0 /\ w \in Seq(Messages)
      BY <2>3, <2>4, TailIs
    <3>. HIDE DEF w
    <3>2. w = << >>
      BY <3>1
    <3>. QED
      BY <3>2 DEF w
  <2>6. level[u] \in Nat /\ level[s] \in Nat
    BY <1>2, <1>3
  <2>7. level[u] <= level[s]
    <3>1. SUFFICES ASSUME level[u] > level[s] PROVE FALSE
      BY <2>6
    <3>2. level[s] + 1 \in level[s]+1..level[u]
      BY <2>6, <3>1
    <3>3. PICK n \in 1..Len(c) : c[n].kind = "barrier"
      BY <2>2, <3>2 DEF Between
    <3>. QED
      BY <2>3, <2>4, <3>3
  <2>. QED
    BY <2>1, <2>4, <2>5, <2>7
<1>11. Ends(level)' /\ ChannelContents'
  <2>1. Streams(t, ended', returned, level)
    <3>1. \A e \in Edges : e[1] \in ended'[e[2]] => e[1] \in ended[e[2]] \/ e = <<u, s>>
      BY <1>1, <1>2, EdgeIs
    <3>. QED
      BY <1>9, <1>10, <3>1 DEF Streams
  <2>. QED
    BY <1>1, <1>9, <2>1, StreamsAre
<1>12. PacedSources'
  BY <1>1 DEF Whole, Accounts, PacedSources
<1>13. Returned(level)'
  <2>1. Returned(level)
    BY DEF Whole, Accounts
  <2>2. pending \in [Sinks -> SUBSET IDs]
    BY DEF IInv, SinkTypes
  <2>3. \A o \in Operators : o \in returned' => ended'[o] = ended[o]
    BY <1>1, <1>2, KindsOfSubtasks
  <2>4. \A x \in Sinks : pc'[x] \in {"last", "returned"} => ended'[x] = ended[x]
    BY <1>1, <1>2, KindsOfSubtasks
  <2>. QED
    BY <1>1, <2>1, <2>2, <2>3, <2>4, ReturnedStays
<1>14. RunCuts(level)'
  <2>1. ASSUME NEW k \in Epochs, Open(k), NEW r \in Records, RunCut(level, k, r)
        PROVE  OnePlace(r[2] <= snapshot(level, k, r[1])', {o \in Operators : r \in snapshot(level, k, o)'},
                        OnTheWay(chan', level, k, r), Stored(k, r))
    <3>1. \A x : snapshot(level, k, x)' = snapshot(level, k, x)
      BY <1>1 DEF snapshot
    <3>2. Alike(OnTheWay(chan, level, k, r), OnTheWay(t, level, k, r))
      <4>1. \A x \in {u} : chan[<<x, s>>] # << >>
        BY <1>3
      <4>2. k \in Nat
        BY EpochNat
      <4>3. level[s] < k => \A x \in {u} : Head(chan[<<x, s>>]) # Rec(r) /\ Head(chan[<<x, s>>]) # Bar(k)
        BY <1>3, <4>2, MessagesDiffer
      <4>4. {u} \in SUBSET Up[s]
        OBVIOUS
      <4>. QED
        BY <1>2, <1>4, <1>5, <4>1, <4>3, <4>4, TakenAlike
    <3>3. OnePlace(r[2] <= snapshot(level, k, r[1]), {o \in Operators : r \in snapshot(level, k, o)},
                   OnTheWay(t, level, k, r), Stored(k, r))
      BY <2>1, <3>2, AlikeKeeps DEF RunCut
    <3>4. {o \in Operators : r \in snapshot(level, k, o)'} = {o \in Operators : r \in snapshot(level, k, o)}
      BY <3>1
    <3>5. snapshot(level, k, r[1])' = snapshot(level, k, r[1])
      BY <3>1
    <3>. QED
      BY <1>1, <3>3, <3>4, <3>5
  <2>2. RunCuts(level)
    BY DEF Whole, Cuts
  <2>. QED
    BY <1>1, <2>1, <2>2, FlowCuts
<1>15. \A o \in Operators : \A r \in held'[o] : o \in route(r)
  BY <1>1 DEF Whole, OnDisk, StateContents
<1>. QED
  BY <1>1, <1>7, <1>11, <1>12, <1>13, <1>14, <1>15, FlowWhole

(* A run that starts after success has no barrier left to send. *)
LEMMA AllLevel ==
  ASSUME IInv, NEW level \in [Subtasks -> IDs \cup {0}], Whole(level), mode = "running", succeeded
  PROVE  /\ \A x \in Subtasks : level[x] = restoredID
         /\ \A s \in Sources : maxBarriers(s) <= restoredID
<1>1. \A s \in Sources : maxBarriers(s) <= restoredID /\ maxBarriers(s) \in Nat
  BY JobAssumption, Numbers DEF Whole, Accounts, SuccessMarked
<1>2. \A x \in Subtasks : level[x] \in Nat /\ restoredID <= level[x]
  BY LevelNat DEF Whole, LeveledBy
<1>3. restoredID \in Nat
  BY RunningFacts
<1>4. \A x \in Subtasks : level[x] = restoredID \/ \E s \in Sources : level[x] <= maxBarriers(s)
  BY DEF Whole, Accounts, Budgeted
<1>. QED
  BY <1>1, <1>2, <1>3, <1>4

(* No checkpoint completes after success, where there is anything to lose. *)
LEMMA NoMarks ==
  ASSUME IInv, Coordinated', restoredID' = restoredID,
         NEW level \in [Subtasks -> IDs \cup {0}], Whole(level), mode = "running",
         NEW k, NEW X \in SUBSET Subtasks, NEW p, Effect(k, X, p), succeeded => X = {},
         \A y \in Subtasks : done'[y] # NoFile => y \in Sources,
         NEW r \in Records, NEW j \in IDs, marker'[j], ~marker[j]
  PROVE  ~succeeded
<1>. SUFFICES ASSUME succeeded PROVE FALSE
  OBVIOUS
<1>1. Counted(level)
  BY DEF Whole, Accounts
<1>2. PICK s \in Sinks : s \in route(r)
  BY RouteIs
<1>3. s \in Subtasks /\ s \notin Sources
  BY KindsOfSubtasks
<1>4. j > restoredID /\ level[s] >= j
  BY <1>1, <1>3, NewMark
<1>5. level[s] = restoredID
  BY <1>3, AllLevel
<1>6. j \in Nat /\ restoredID \in Nat
  BY RunningFacts, EpochNat
<1>. QED
  BY <1>4, <1>5, <1>6

(* What a step that calls the coordinator keeps, whichever it is. *)
Called(level, nlv, k, X, p) ==
  /\ Effect(k, X, p) /\ After(level, nlv, k, X) /\ StandsAt(level, k, X, p)
  /\ succeeded => X = {}
  /\ X # {} => k \in IDs
  /\ \A s \in X : s \in Sources => p = k * Interval[s]
  /\ \A z \in X : z \in Sinks => z \in returned' \/ nlv[z] >= k
  /\ \A x \in Subtasks : nlv[x] >= level[x]
  /\ \A y \in Subtasks : done'[y] # NoFile =>
       y \in Sources /\ done'[y] = position[y] /\ injected[y] >= maxBarriers(y)

(* What concerns checkpoints and cuts is kept by every such step. *)
LEMMA CalledWhole ==
  ASSUME IInv, Coordinated',
         NEW level \in [Subtasks -> IDs \cup {0}], Whole(level), mode = "running",
         NEW nlv \in [Subtasks -> IDs \cup {0}],
         NEW k, NEW X \in SUBSET Subtasks, NEW p, Called(level, nlv, k, X, p),
         restoredID' = restoredID, mode' = mode, succeeded' = succeeded,
         position' = position, held' = held,
         staging' = staging, committed' = committed, written' = written,
         returned \subseteq returned',
         \A j \in Epochs : Open(j)' => \A r \in Records :
           Alike(OnTheWay(chan, level, j, r), OnTheWay(chan', nlv, j, r))
  PROVE  /\ Grows
         /\ Counted(nlv)' /\ MarkedPassed(nlv)' /\ PacedFiles' /\ SuccessMarked' /\ StateContents' /\ Cuts(nlv)'
         /\ \A r \in Records, j \in IDs : marker'[j] /\ ~marker[j] => ~succeeded
<1>1. /\ Effect(k, X, p) /\ After(level, nlv, k, X) /\ StandsAt(level, k, X, p)
      /\ succeeded => X = {}
      /\ X # {} => k \in IDs
      /\ \A s \in X : s \in Sources => p = k * Interval[s]
      /\ \A z \in X : z \in Sinks => z \in returned' \/ nlv[z] >= k
      /\ \A x \in Subtasks : nlv[x] >= level[x]
      /\ \A y \in Subtasks : done'[y] # NoFile =>
           y \in Sources /\ done'[y] = position[y] /\ injected[y] >= maxBarriers(y)
  BY DEF Called
<1>2. /\ LeveledBy(level) /\ Counted(level) /\ MarkedPassed(level) /\ PacedFiles /\ SuccessMarked
      /\ Settled(level) /\ OwnFiles /\ StateContents /\ RunCuts(level) /\ MarkedCuts
  BY DEF Whole, Accounts, OnDisk, Cuts
<1>3. Grows
  BY <1>1, EffectGrows
<1>4. Counted(nlv)'
  BY <1>1, <1>2, CountedStays
<1>5. \A y \in Subtasks : done'[y] # NoFile => y \in Sources
  BY <1>1
<1>6. MarkedPassed(nlv)'
  BY <1>1, <1>2, <1>5, MarkedPassedStays
<1>7. PacedFiles'
  BY <1>1, <1>2, <1>3, PacedFilesStays
<1>8. SuccessMarked'
  BY <1>2, <1>3, SuccessMarkedStays
<1>9. StateContents'
  <2>1. \A o \in Operators : \A r \in held'[o] : o \in route(r)
    BY <1>2 DEF StateContents
  <2>2. ASSUME NEW j \in IDs, NEW o \in Operators, Recorded(j, o)', NEW r \in files'[j][o]
        PROVE  o \in route(r)
    <3>1. o \in Subtasks /\ o \notin Sources
      BY KindsOfSubtasks
    <3>2. \/ Recorded(j, o) /\ files'[j][o] = files[j][o]
          \/ j = k /\ o \in X /\ files'[j][o] = p
      BY <1>1, <1>2, <1>3, <1>5, <2>2, <3>1, RecordedIs
    <3>3. o \in X => p = held[o]
      BY <1>1 DEF StandsAt
    <3>. QED
      BY <1>2, <3>2, <3>3 DEF StateContents
  <2>. QED
    BY <2>1, <2>2 DEF StateContents
<1>10. ASSUME NEW r \in Records, NEW j \in IDs, marker'[j], ~marker[j] PROVE ~succeeded
  BY <1>1, <1>5, <1>10, NoMarks
<1>11. MarkedCuts'
  <2>1. CoveredKept
    BY FilesSame DEF CoveredKept
  <2>2. ASSUME NEW j \in IDs, marker'[j], ~marker[j], NEW r \in Records PROVE MarkedCut(files[j], j, r)'
    <3>1. ~succeeded
      BY <1>10, <2>2
    <3>2. \A y \in Subtasks : done'[y] # NoFile => y \in Sources /\ done'[y] = position[y]
      BY <1>1
    <3>. QED
      BY <1>1, <1>2, <2>2, <3>1, <3>2, CutMarks
  <2>3. \A j \in IDs : marker'[j] /\ ~marker[j] => \A r \in Records : MarkedCut(files[j], j, r)'
    BY <2>2
  <2>. QED
    BY <1>2, <1>3, <2>1, <2>3, MarkedCutsStay
<1>12. RunCuts(nlv)'
  <2>1. \A y \in X : ~(level[y] >= k) /\ (y \in Sources => p = position[y]) /\ (y \in Operators => p = held[y])
    BY <1>1 DEF StandsAt
  <2>2. \A j \in Epochs : Open(j)' =>
           /\ Open(j)
           /\ \A y \in Subtasks : y \notin Sinks => snapshot(nlv, j, y)' = snapshot(level, j, y)
    BY <1>1, <1>2, <2>1, SnapshotsStay
  <2>3. \A j, r : Stored(j, r)' = Stored(j, r)
    BY FilesSame
  <2>4. \A j \in Epochs : Open(j)' =>
           /\ Open(j)
           /\ \A y \in Subtasks : y \notin Sinks => snapshot(nlv, j, y)' = snapshot(level, j, y)
           /\ \A r \in Records : /\ Stored(j, r)' = Stored(j, r)
                                 /\ Alike(OnTheWay(chan, level, j, r), OnTheWay(chan', nlv, j, r))
    BY <2>2, <2>3
  <2>. QED
    BY <1>2, <2>4, CutsStay
<1>. QED
  BY <1>3, <1>4, <1>6, <1>7, <1>8, <1>9, <1>10, <1>11, <1>12 DEF Cuts

(* The directories rest, and the coordinator is called. *)
LEMMA CalledKeeps ==
  ASSUME IInv, Coordinated',
         NEW level \in [Subtasks -> IDs \cup {0}], Whole(level), mode = "running",
         NEW nlv \in [Subtasks -> IDs \cup {0}],
         NEW k, NEW X \in SUBSET Subtasks, NEW p, Called(level, nlv, k, X, p),
         restoredID' = restoredID, mode' = mode, succeeded' = succeeded, failed => failed',
         position' = position, held' = held,
         staging' = staging, committed' = committed, written' = written, firstEpoch' = firstEpoch,
         returned \subseteq returned',
         \A j \in Epochs : Open(j)' => \A r \in Records :
           Alike(OnTheWay(chan, level, j, r), OnTheWay(chan', nlv, j, r)),
         \A s \in Sinks : SinkGoesOn(level, nlv, s),
         LeveledBy(nlv)', Ends(nlv)', ChannelContents', DoneAt', Budgeted(nlv)', PacedSources', Blamed',
         Grows => Remembered', Returned(nlv)'
  PROVE  Whole(nlv)'
<1>1. /\ Grows
      /\ Counted(nlv)' /\ MarkedPassed(nlv)' /\ PacedFiles' /\ SuccessMarked' /\ StateContents' /\ Cuts(nlv)'
      /\ \A r \in Records, j \in IDs : marker'[j] /\ ~marker[j] => ~succeeded
  BY CalledWhole
<1>2. Settled(level) /\ OwnFiles /\ FinalFiles /\ FileContents
  BY DEF Whole, OnDisk
<1>3. Settled(nlv)' /\ OwnFiles' /\ FinalFiles' /\ FileContents'
  <2>1. SinkTypes /\ CommittedIsCovered
    BY DEF IInv
  <2>. QED
    BY <1>1, <1>2, <2>1, DiskStays
<1>. QED
  BY <1>1, <1>3 DEF Whole, Accounts, OnDisk

(* A successful acknowledgement abandons nothing. *)
LEMMA AckBlames ==
  ASSUME Types, NEW k \in IDs, NEW s, NEW p, Acknowledged(k, s, p)
  PROVE  \A j \in IDs : status'[j] = "abandoned" => status[j] = "abandoned"
BY DEF Types, Acknowledged, AckIgnored, AckRecorded, AckCompletes, coordinator, memory

(* A barrier is taken from all live inputs. *)
LEMMA BarrierAlike ==
  ASSUME chan \in Channels, NEW level \in [Subtasks -> Nat], NEW s \in Subtasks, NEW k \in Nat, k = level[s] + 1,
         \A u \in Up[s] : chan[<<u, s>>] = << >> \/ (chan[<<u, s>>] # << >> /\ Head(chan[<<u, s>>]) = Bar(k)),
         NEW us \in SUBSET Up[s], \A u \in us : chan[<<u, s>>] # << >>,
         taken(s, us) \in Channels, NEW nlv, Raised(level, nlv, s, k), NEW j \in Nat, NEW r \in Records
  PROVE  Alike(OnTheWay(chan, level, j, r), OnTheWay(taken(s, us), nlv, j, r))
<1>. DEFINE t == taken(s, us)
<1>1. OnTheWay(chan, level, j, r) = OnTheWay(chan, nlv, j, r)
  BY RaisedSame
<1>2. nlv[s] = k /\ TakesFrom(chan, t, s, us) /\ t \in Channels
  BY TakenIs DEF Raised
<1>. HIDE DEF t
<1>3. nlv[s] < j => \A u \in us : Head(chan[<<u, s>>]) # Rec(r) /\ Head(chan[<<u, s>>]) # Bar(j)
  BY <1>2, MessagesDiffer
<1>4. Alike(OnTheWay(chan, nlv, j, r), OnTheWay(t, nlv, j, r))
  BY <1>2, <1>3, TakenAlike
<1>. QED
  BY <1>1, <1>4 DEF t

(* Where a subtask that is not a source stands before barrier k, some      *)
(* source had that barrier to send.                                        *)
LEMMA CutIsBudgeted ==
  ASSUME IInv, NEW level \in [Subtasks -> IDs \cup {0}], Whole(level), NEW s \in Subtasks, NEW k, atCut(s, k)
  PROVE  \E x \in Sources : k <= maxBarriers(x)
<1>1. level \in [Subtasks -> Nat] /\ chan \in Channels /\ Leveled(chan, ended, level) /\ restoredID \in Nat
  BY RunningFacts
<1>2. PICK u \in liveInputs(s) : headIs(u, s, "barrier") /\ Head(chan[<<u, s>>]).val = k
  BY DEF atCut
<1>3. <<u, s>> \in Edges /\ u \in Subtasks /\ u \notin ended[s]
  BY EdgeIs, KindsOfSubtasks DEF liveInputs
<1>4. /\ chan[<<u, s>>] \in Seq(Messages) /\ chan[<<u, s>>] # << >>
      /\ Head(chan[<<u, s>>]).kind = "barrier" /\ Head(chan[<<u, s>>]).val = k
  BY <1>1, <1>2, <1>3 DEF headIs, Channels
<1>5. /\ Head(chan[<<u, s>>]) = chan[<<u, s>>][1] /\ 1 \in 1..Len(chan[<<u, s>>])
  BY <1>4, TailIs
<1>6. Between(chan[<<u, s>>], level[s], level[u])
  BY <1>1, <1>3 DEF Leveled
<1>7. level[s] < k /\ k <= level[u]
  BY <1>4, <1>5, <1>6 DEF Between
<1>8. k = level[s] + 1
  BY <1>1, CutIsNext
<1>9. level[u] = restoredID \/ \E x \in Sources : level[u] <= maxBarriers(x)
  BY <1>3 DEF Whole, Accounts, Budgeted
<1>10. restoredID <= level[s] /\ level[s] \in Nat /\ level[u] \in Nat
  BY <1>1, <1>3 DEF Whole, LeveledBy
<1>11. \A x \in Sources : maxBarriers(x) \in Nat
  BY JobAssumption, Numbers
<1>. QED
  BY <1>1, <1>7, <1>8, <1>9, <1>10, <1>11

(* Barrier k goes through s: it is taken from all live inputs, the state   *)
(* is acknowledged, and the barrier goes on.                               *)
Passes(s, k, p) ==
  /\ mode = "running" /\ s \notin returned /\ Acknowledged(k, s, p)
  /\ s \in Sources => barrierDue(s) /\ p = position[s] /\ k = injected[s] + 1
  /\ s \in Operators => atCut(s, k) /\ p = held[s]
  /\ s \in Sinks => atCut(s, k) /\ pc[s] = "run"
  /\ chan' = Broadcast(taken(s, liveInputs(s)), s, Bar(k))
  /\ ended' = ended /\ returned' = returned /\ held' = held /\ position' = position
  /\ staging' = staging /\ committed' = committed /\ written' = written /\ firstEpoch' = firstEpoch
  /\ restoredID' = restoredID /\ mode' = mode /\ failed' = failed /\ succeeded' = succeeded
  /\ \A x \in Sources : /\ x # s => injected'[x] = injected[x] /\ sinceLast'[x] = sinceLast[x]
                        /\ x = s => injected'[x] = k /\ sinceLast'[x] = 0
  /\ \A x \in Sinks :
       /\ x # s => epoch'[x] = epoch[x] /\ pc'[x] = pc[x] /\ opened'[x] = opened[x] /\ pending'[x] = pending[x]
       /\ x = s => /\ epoch'[x] = epoch[x] + 1 /\ pc'[x] = "ask" /\ ~opened'[x]
                   /\ pending'[x] = pending[x] \cup {k}

(* The level of the subtask is raised, and every cut stays a cut. *)
LEMMA PassesWhole ==
  ASSUME IInv, IInv', NEW level \in [Subtasks -> IDs \cup {0}], Whole(level),
         NEW s \in Subtasks, NEW k \in IDs, k = level[s] + 1, NEW p, Passes(s, k, p)
  PROVE  \E nlv \in [Subtasks -> IDs \cup {0}] : Whole(nlv)'
<1>. DEFINE nlv == [level EXCEPT ![s] = k]
            us == liveInputs(s)
            t == taken(s, us)
<1>1. /\ mode = "running" /\ s \notin returned /\ Acknowledged(k, s, p)
      /\ s \in Sources => barrierDue(s) /\ p = position[s] /\ k = injected[s] + 1
      /\ s \in Operators => atCut(s, k) /\ p = held[s]
      /\ s \in Sinks => atCut(s, k) /\ pc[s] = "run"
      /\ chan' = Broadcast(t, s, Bar(k))
      /\ ended' = ended /\ returned' = returned /\ held' = held /\ position' = position
      /\ staging' = staging /\ committed' = committed /\ written' = written /\ firstEpoch' = firstEpoch
      /\ restoredID' = restoredID /\ mode' = mode /\ failed' = failed /\ succeeded' = succeeded
  BY DEF Passes
<1>2. /\ \A x \in Sources : /\ x # s => injected'[x] = injected[x] /\ sinceLast'[x] = sinceLast[x]
                            /\ x = s => injected'[x] = k /\ sinceLast'[x] = 0
      /\ \A x \in Sinks :
           /\ x # s => epoch'[x] = epoch[x] /\ pc'[x] = pc[x] /\ opened'[x] = opened[x] /\ pending'[x] = pending[x]
           /\ x = s => /\ epoch'[x] = epoch[x] + 1 /\ pc'[x] = "ask" /\ ~opened'[x]
                       /\ pending'[x] = pending[x] \cup {k}
  BY DEF Passes
<1>3. /\ level \in [Subtasks -> Nat] /\ chan \in Channels /\ Leveled(chan, ended, level) /\ restoredID \in Nat
      /\ ended \in [Subtasks -> SUBSET Subtasks] /\ k \in Nat /\ level[s] \in Nat /\ restoredID <= level[s]
  BY RunningFacts, EpochNat DEF IInv, FlowTypes, Whole, LeveledBy
<1>4. /\ Types /\ Coordinated' /\ FlowTypes /\ SinkTypes /\ pending' \in [Sinks -> SUBSET IDs] /\ SinkTypes'
  BY DEF IInv, Coordinated, SinkTypes
<1>5. /\ nlv \in [Subtasks -> IDs \cup {0}] /\ Raised(level, nlv, s, k) /\ nlv[s] = k
      /\ \A x \in Subtasks : x # s => nlv[x] = level[x]
      /\ After(level, nlv, k, {s})
  BY <1>3, AfterRaise DEF Raised
<1>6. us \subseteq Up[s] /\ (s \in Sources => Up[s] = {}) /\ (s \in Sources \/ s \in Operators \/ s \in Sinks)
  BY KindsOfSubtasks DEF liveInputs, Operators
<1>7. \A u \in us : headIs(u, s, "barrier") /\ Head(chan[<<u, s>>]).val = k
  BY <1>1, <1>6 DEF atCut
<1>8. ASSUME NEW u \in us PROVE chan[<<u, s>>] # << >> /\ Head(chan[<<u, s>>]) = Bar(k)
  <2>1. chan[<<u, s>>] # << >> /\ Head(chan[<<u, s>>]).kind = "barrier" /\ Head(chan[<<u, s>>]).val = k
    BY <1>7 DEF headIs
  <2>2. <<u, s>> \in Edges /\ chan[<<u, s>>] \in Seq(Messages)
    BY <1>3, <1>6, EdgeIs DEF Channels
  <2>3. Head(chan[<<u, s>>]) \in Messages
    BY <2>1, <2>2, TailIs
  <2>. QED
    BY <2>1, <2>3, MessageIsOne
<1>9. \A u \in Up[s] : chan[<<u, s>>] = << >> \/ (chan[<<u, s>>] # << >> /\ Head(chan[<<u, s>>]) = Bar(k))
  <2>1. Ends(level)
    BY DEF Whole, Accounts
  <2>2. ASSUME NEW u \in Up[s], u \notin us PROVE chan[<<u, s>>] = << >>
    <3>1. <<u, s>> \in Edges /\ u \in ended[s]
      BY <2>2, EdgeIs DEF liveInputs
    <3>. QED
      BY <2>1, <3>1 DEF Ends
  <2>. QED
    BY <1>8, <2>2
<1>10. t \in Channels /\ chan' \in Channels /\ Leveled(chan', ended, nlv)
  <2>1. \A u \in liveInputs(s) : headIs(u, s, "barrier")
    BY <1>7
  <2>2. chan' = Broadcast(taken(s, liveInputs(s)), s, Bar(k))
    BY <1>1
  <2>. QED
    BY <1>3, <2>1, <2>2, BarrierKeeps
<1>11. /\ s \in Sources => injected[s] = level[s]
       /\ s \in Sinks => epoch[s] = k /\ epoch[s] \in Nat
  <2>1. s \in Sinks => pc[s] \notin {"restore", "returned"}
    BY <1>1
  <2>. QED
    BY <1>3, <2>1 DEF Whole, LeveledBy
<1>12. LeveledBy(nlv)'
  <2>1. \A x \in Sources : injected'[x] = IF x = s THEN k ELSE injected[x]
    BY <1>2
  <2>2. \A x \in Sinks : /\ x # s => epoch'[x] = epoch[x] /\ pc'[x] = pc[x]
                         /\ x = s => epoch'[x] = k + 1 /\ pc'[x] # "restore"
    BY <1>2, <1>11
  <2>3. LeveledBy(level)
    BY DEF Whole
  <2>. QED
    BY <1>1, <1>10, <2>1, <2>2, <2>3, LevelRaised
<1>13. TakesFrom(chan, t, s, us) /\ Broadcast(t, s, Bar(k)) \in Channels /\ Bar(k) \in Messages
  BY <1>1, <1>10, TakenIs DEF Messages
<1>14. \A j \in Epochs : Open(j)' => \A r \in Records :
           Alike(OnTheWay(chan, level, j, r), OnTheWay(chan', nlv, j, r))
  <2>1. SUFFICES ASSUME NEW j \in Nat, NEW r \in Records
                 PROVE  Alike(OnTheWay(chan, level, j, r), OnTheWay(chan', nlv, j, r))
    BY EpochNat
  <2>. HIDE DEF nlv
  <2>2. Alike(OnTheWay(chan, level, j, r), OnTheWay(t, nlv, j, r))
    <3>1. us \in SUBSET Up[s] /\ \A u \in us : chan[<<u, s>>] # << >>
      BY <1>6, <1>8
    <3>. HIDE DEF us
    <3>. QED
      BY <1>3, <1>5, <1>9, <1>10, <3>1, BarrierAlike
  <2>. HIDE DEF t, us
  <2>3. Bar(k) # Rec(r)
    BY <1>3, MessagesDiffer
  <2>4. OnTheWay(t, nlv, j, r) = OnTheWay(Broadcast(t, s, Bar(k)), nlv, j, r)
    BY <1>10, <1>13, <2>3, BroadcastSame
  <2>. QED
    BY <1>1, <2>2, <2>4
<1>15. Ends(nlv)' /\ ChannelContents'
  <2>. HIDE DEF t, us, nlv
  <2>1. Streams(chan, ended, returned, level) /\ Routed(chan)
    BY StreamsAre DEF Whole, Accounts, OnDisk
  <2>2. Streams(t, ended, returned, level) /\ Routed(t)
    <3>1. us \in SUBSET Up[s] /\ \A u \in us : chan[<<u, s>>] # << >>
      BY <1>6, <1>8
    <3>. QED
      BY <1>3, <1>13, <2>1, <3>1, StreamsTake
  <2>3. Streams(chan', ended, returned, level) /\ Routed(chan')
    <3>1. Sends(t, chan', s)
      BY <1>1, <1>3, <1>10, <1>13, BarrierSends
    <3>2. s \notin returned /\ t \in Channels
      BY <1>1, <1>10
    <3>. QED
      BY <2>2, <3>1, <3>2, StreamsSend
  <2>4. Streams(chan', ended, returned, nlv)
    <3>1. s \notin returned /\ k >= level[s]
      BY <1>1, <1>3
    <3>. QED
      BY <1>3, <1>5, <2>3, <3>1, EdgeIs DEF Streams
  <2>. QED
    BY <1>1, <2>3, <2>4, StreamsAre
<1>16. \E x \in Sources : k <= maxBarriers(x)
  <2>1. CASE s \in Sources
    <3>1. injected[s] < maxBarriers(s) /\ maxBarriers(s) \in Nat /\ injected[s] \in Nat /\ k = injected[s] + 1
      BY <1>1, <1>3, <1>11, <2>1, JobAssumption, Numbers DEF barrierDue
    <3>. QED
      BY <2>1, <3>1
  <2>2. CASE s \notin Sources
    BY <1>1, <1>6, <2>2, CutIsBudgeted
  <2>. QED
    BY <2>1, <2>2
<1>17. ~succeeded
  <2>1. SUFFICES ASSUME succeeded PROVE FALSE
    OBVIOUS
  <2>2. \A x \in Sources : maxBarriers(x) <= restoredID /\ maxBarriers(x) \in Nat
    BY <1>1, <2>1, AllLevel, JobAssumption, Numbers
  <2>. QED
    BY <1>3, <1>16, <2>2
<1>18. Budgeted(nlv)'
  <2>1. Budgeted(level)
    BY DEF Whole, Accounts
  <2>. HIDE DEF nlv
  <2>2. ASSUME NEW x \in Subtasks PROVE nlv[x] = restoredID \/ \E y \in Sources : nlv[x] <= maxBarriers(y)
    BY <1>5, <1>16, <2>1 DEF Budgeted
  <2>. QED
    BY <1>1, <2>2 DEF Budgeted, maxBarriers
<1>19. s \in Sources => position[s] = k * Interval[s]
  <2>1. SUFFICES ASSUME s \in Sources PROVE position[s] = k * Interval[s]
    OBVIOUS
  <2>2. PacedSources /\ injected[s] < maxBarriers(s) /\ sinceLast[s] = Interval[s]
    BY <1>1, <2>1 DEF Whole, Accounts, barrierDue
  <2>3. position[s] = injected[s] * Interval[s] + Interval[s]
    BY <2>1, <2>2 DEF PacedSources
  <2>4. Interval[s] \in Nat /\ injected[s] \in Nat /\ k = injected[s] + 1
    BY <1>1, <1>3, <1>11, <2>1, JobAssumption
  <2>. QED
    BY <2>3, <2>4
<1>20. PacedSources'
  <2>1. PacedSources
    BY DEF Whole, Accounts
  <2>2. ASSUME NEW x \in Sources, injected'[x] < maxBarriers(x)
        PROVE  position'[x] = injected'[x] * Interval[x] + sinceLast'[x]
    <3>1. CASE x # s
      BY <1>1, <1>2, <2>1, <2>2, <3>1 DEF PacedSources
    <3>2. CASE x = s
      <4>1. Interval[s] \in Nat
        BY <3>2, JobAssumption
      <4>2. k * Interval[s] \in Nat
        BY <1>3, <4>1
      <4>. QED
        BY <1>1, <1>2, <1>19, <3>2, <4>2
    <3>. QED
      BY <3>1, <3>2
  <2>. QED
    BY <2>2 DEF PacedSources
<1>21. Effect(k, {s}, p) /\ done' = done
  BY <1>1, <1>4, AckHasEffect
<1>22. Blamed'
  <2>1. \A j \in IDs : status'[j] = "abandoned" => status[j] = "abandoned"
    BY <1>1, <1>4, AckBlames
  <2>. QED
    BY <1>1, <2>1 DEF Whole, Accounts, Blamed
<1>23. Called(level, nlv, k, {s}, p)
  <2>. HIDE DEF nlv
  <2>1. StandsAt(level, k, {s}, p)
    BY <1>1, <1>3, <1>9 DEF StandsAt
  <2>2. \A x \in Subtasks : nlv[x] >= level[x]
    BY <1>3, <1>5
  <2>3. \A y \in Subtasks : done'[y] # NoFile =>
          y \in Sources /\ done'[y] = position[y] /\ injected[y] >= maxBarriers(y)
    BY <1>21 DEF Whole, Accounts, DoneAt, IInv, Coordinated, DoneAreSources
  <2>4. \A x \in {s} : x \in Sources => p = k * Interval[x]
    BY <1>1, <1>19
  <2>5. \A z \in {s} : z \in Sinks => z \in returned' \/ nlv[z] >= k
    BY <1>3, <1>5
  <2>. QED
    BY <1>5, <1>17, <1>21, <2>1, <2>2, <2>3, <2>4, <2>5 DEF Called
<1>24. DoneAt'
  <2>1. DoneAt
    BY DEF Whole, Accounts
  <2>2. \A x \in Sources : x \in returned => x \in returned' /\ position'[x] = position[x] /\ injected'[x] = injected[x]
    BY <1>1, <1>2
  <2>. QED
    BY <1>21, <2>1, <2>2, DoneAtStays
<1>25. Grows => Remembered'
  <2>1. SUFFICES ASSUME Grows, NEW x \in Sinks, NEW j \in IDs, restoredID < j, j < epoch'[x]
                 PROVE  j \in pending'[x] \/ marker'[j]
    BY <1>1 DEF Remembered
  <2>2. Remembered
    BY DEF Whole, Accounts
  <2>3. CASE x # s
    BY <1>2, <2>1, <2>2, <2>3 DEF Remembered, Grows
  <2>4. CASE x = s
    <3>1. j < epoch[x] \/ j = k
      BY <1>2, <1>3, <1>11, <2>1, <2>4, EpochNat
    <3>. QED
      BY <1>2, <2>1, <2>2, <2>4, <3>1 DEF Remembered, Grows
  <2>. QED
    BY <2>3, <2>4
<1>26. Returned(nlv)'
  <2>. HIDE DEF nlv
  <2>1. Returned(level)
    BY DEF Whole, Accounts
  <2>2. \A j \in IDs : status[j] = "complete" => status'[j] = "complete"
    BY <1>21 DEF Effect
  <2>3. pending \in [Sinks -> SUBSET IDs] /\ pending' \in [Sinks -> SUBSET IDs]
    BY <1>4 DEF SinkTypes
  <2>4. \A x \in Sources : x \in returned' => x \in returned /\ position'[x] = position[x] /\ injected'[x] = injected[x]
    BY <1>1, <1>2
  <2>5. \A o \in Operators : o \in returned' => o \in returned /\ ended'[o] = ended[o] /\ held'[o] = held[o]
    BY <1>1
  <2>6. \A x \in Sinks : pc'[x] \in {"last", "returned"} =>
          /\ pc[x] \in {"last", "returned"} /\ ended'[x] = ended[x] /\ epoch'[x] = epoch[x]
          /\ nlv[x] = level[x] /\ pending'[x] \subseteq pending[x]
    BY <1>1, <1>2, <1>5, KindsOfSubtasks
  <2>7. mode' = "running" /\ (~failed' => ~failed)
    BY <1>1
  <2>. QED
    BY <2>1, <2>2, <2>3, <2>4, <2>5, <2>6, <2>7, ReturnedStays
<1>27. \A x \in Sinks : SinkGoesOn(level, nlv, x)
  <2>. HIDE DEF nlv
  <2>. QED
    BY <1>1, <1>2, <1>5, KindsOfSubtasks DEF SinkGoesOn
<1>28. {s} \in SUBSET Subtasks /\ returned \subseteq returned' /\ (failed => failed')
  BY <1>1
<1>. HIDE DEF nlv
<1>29. Whole(nlv)'
  BY <1>1, <1>4, <1>5, <1>12, <1>14, <1>15, <1>18, <1>20, <1>22, <1>23, <1>24, <1>25, <1>26, <1>27, <1>28, CalledKeeps
<1>. QED
  BY <1>5, <1>29

(* A source sends a barrier. *)
LEMMA SourceBarrierWhole ==
  ASSUME IInv, IInv', NEW level \in [Subtasks -> IDs \cup {0}], Whole(level), NEW s \in Sources, SourceBarrier(s)
  PROVE  \E nlv \in [Subtasks -> IDs \cup {0}] : Whole(nlv)'
<1>. DEFINE k == injected[s] + 1
<1>1. /\ barrierDue(s) /\ Acknowledged(k, s, position[s]) /\ mode = "running" /\ s \notin returned
      /\ injected' = [injected EXCEPT ![s] = @ + 1] /\ sinceLast' = [sinceLast EXCEPT ![s] = 0]
      /\ chan' = Broadcast(chan, s, Bar(k))
      /\ position' = position /\ ended' = ended /\ returned' = returned /\ held' = held
      /\ pc' = pc /\ pending' = pending /\ epoch' = epoch /\ opened' = opened
      /\ staging' = staging /\ committed' = committed /\ written' = written /\ firstEpoch' = firstEpoch
      /\ restoredID' = restoredID /\ mode' = mode /\ failed' = failed /\ succeeded' = succeeded
  BY DEF SourceBarrier, up, sinkVars, runVars, sink, sinkMemory, sinkDisk
<1>2. /\ injected \in [Sources -> IDs \cup {0}] /\ sinceLast \in [Sources -> Nat] /\ chan \in Channels
      /\ s \in Subtasks /\ s \notin Operators /\ s \notin Sinks /\ Up[s] = {}
  BY KindsOfSubtasks DEF IInv, FlowTypes
<1>3. k \in IDs
  <2>1. injected[s] < maxBarriers(s) /\ maxBarriers(s) \in IDs \cup {0} /\ injected[s] \in IDs \cup {0}
    BY <1>1, <1>2, JobAssumption DEF barrierDue
  <2>. QED
    BY <2>1, NextNumber
<1>4. k = level[s] + 1
  BY DEF Whole, LeveledBy
<1>5. taken(s, liveInputs(s)) = chan
  <2>1. liveInputs(s) = {}
    BY <1>2 DEF liveInputs
  <2>. QED
    BY <1>2, <2>1 DEF taken, Channels
<1>6. \A x \in Sources : /\ x # s => injected'[x] = injected[x] /\ sinceLast'[x] = sinceLast[x]
                         /\ x = s => injected'[x] = k /\ sinceLast'[x] = 0
  BY <1>1, <1>2
<1>. HIDE DEF k
<1>7. Passes(s, k, position[s])
  BY <1>1, <1>2, <1>5, <1>6 DEF Passes, k
<1>. QED
  BY <1>2, <1>3, <1>4, <1>7, PassesWhole

(* A barrier goes through an operator. *)
LEMMA OperatorBarrierWhole ==
  ASSUME IInv, IInv', NEW level \in [Subtasks -> IDs \cup {0}], Whole(level),
         NEW o \in Operators, NEW k \in IDs, OperatorBarrier(o, k)
  PROVE  \E nlv \in [Subtasks -> IDs \cup {0}] : Whole(nlv)'
<1>1. /\ atCut(o, k) /\ Acknowledged(k, o, held[o]) /\ mode = "running" /\ o \notin returned
      /\ chan' = Broadcast(taken(o, liveInputs(o)), o, Bar(k))
      /\ position' = position /\ injected' = injected /\ sinceLast' = sinceLast
      /\ ended' = ended /\ returned' = returned /\ held' = held
      /\ pc' = pc /\ pending' = pending /\ epoch' = epoch /\ opened' = opened
      /\ staging' = staging /\ committed' = committed /\ written' = written /\ firstEpoch' = firstEpoch
      /\ restoredID' = restoredID /\ mode' = mode /\ failed' = failed /\ succeeded' = succeeded
  BY DEF OperatorBarrier, up, sourceVars, sinkVars, runVars, sink, sinkMemory, sinkDisk
<1>2. o \in Subtasks /\ o \notin Sources /\ o \notin Sinks
  BY KindsOfSubtasks
<1>3. k = level[o] + 1
  BY <1>1, <1>2, RunningFacts, CutIsNext
<1>4. Passes(o, k, held[o])
  BY <1>1, <1>2 DEF Passes
<1>. QED
  BY <1>2, <1>3, <1>4, PassesWhole

(* A barrier reaches a sink, which closes its epoch. *)
LEMMA SinkBarrierWhole ==
  ASSUME IInv, IInv', NEW level \in [Subtasks -> IDs \cup {0}], Whole(level),
         NEW s \in Sinks, NEW k \in IDs, SinkBarrier(s, k)
  PROVE  \E nlv \in [Subtasks -> IDs \cup {0}] : Whole(nlv)'
<1>1. /\ atCut(s, k) /\ Acknowledged(k, s, epoch[s]) /\ mode = "running" /\ pc[s] = "run"
      /\ chan' = taken(s, liveInputs(s))
      /\ pending' = [pending EXCEPT ![s] = @ \cup {k}] /\ pc' = [pc EXCEPT ![s] = "ask"]
      /\ opened' = [opened EXCEPT ![s] = FALSE] /\ epoch' = [epoch EXCEPT ![s] = @ + 1]
      /\ position' = position /\ injected' = injected /\ sinceLast' = sinceLast
      /\ ended' = ended /\ returned' = returned /\ held' = held
      /\ staging' = staging /\ committed' = committed /\ written' = written /\ firstEpoch' = firstEpoch
      /\ restoredID' = restoredID /\ mode' = mode /\ failed' = failed /\ succeeded' = succeeded
  BY DEF SinkBarrier, up, Snapshot, sourceVars, sinkVars, runVars, sink, sinkMemory, sinkDisk
<1>2. s \in Subtasks /\ s \notin Sources /\ s \notin Operators
  BY KindsOfSubtasks
<1>3. k = level[s] + 1
  BY <1>1, <1>2, RunningFacts, CutIsNext
<1>4. Broadcast(taken(s, liveInputs(s)), s, Bar(k)) = taken(s, liveInputs(s))
  <2>1. \A e \in Edges : e[1] # s
    BY EdgeIs, KindsOfSubtasks
  <2>. QED
    BY <2>1 DEF Broadcast, taken
<1>5. s \notin returned
  BY <1>1 DEF IInv, WrittenExist
<1>6. \A x \in Sinks :
       /\ x # s => epoch'[x] = epoch[x] /\ pc'[x] = pc[x] /\ opened'[x] = opened[x] /\ pending'[x] = pending[x]
       /\ x = s => /\ epoch'[x] = epoch[x] + 1 /\ pc'[x] = "ask" /\ ~opened'[x]
                   /\ pending'[x] = pending[x] \cup {k}
  BY <1>1 DEF IInv, SinkTypes
<1>7. \A x \in Sources : x # s
  BY <1>2
<1>8. Passes(s, k, epoch[s])
  BY <1>1, <1>2, <1>4, <1>5, <1>6, <1>7 DEF Passes
<1>. QED
  BY <1>2, <1>3, <1>8, PassesWhole

(* A source that has read all its range has sent all its barriers. *)
LEMMA PacedOut ==
  ASSUME IInv, NEW level, Whole(level), NEW s \in Sources, ~barrierDue(s), position[s] = Count[s]
  PROVE  injected[s] >= maxBarriers(s)
<1>1. /\ Interval[s] \in Nat /\ Count[s] \in Nat /\ Floor[s] \in {Count[s] - 1, Count[s]}
      /\ maxBarriers(s) \in Nat /\ injected[s] \in Nat /\ sinceLast[s] \in Nat /\ sinceLast[s] <= Interval[s]
  <2>1. Interval[s] \in Nat /\ Count[s] \in Nat /\ Floor[s] \in {Count[s] - 1, Count[s]} /\ maxBarriers(s) \in Nat
    BY JobAssumption, Numbers
  <2>2. injected[s] \in IDs \cup {0} /\ sinceLast[s] \in Nat /\ sinceLast[s] <= Interval[s]
    BY DEF IInv, FlowTypes
  <2>. QED
    BY <2>1, <2>2, Numbers
<1>2. SUFFICES ASSUME injected[s] < maxBarriers(s) PROVE FALSE
  BY <1>1
<1>3. position[s] = injected[s] * Interval[s] + sinceLast[s]
  BY <1>2 DEF Whole, Accounts, PacedSources
<1>4. Interval[s] > 0 /\ maxBarriers(s) = Floor[s] \div Interval[s]
  BY <1>1, <1>2 DEF maxBarriers
<1>5. sinceLast[s] < Interval[s]
  BY <1>1, <1>2, <1>4 DEF barrierDue
<1>. DEFINE i == Interval[s]
            b == maxBarriers(s)
            n == injected[s]
<1>6. Floor[s] \in Nat
  <2>1. CASE Floor[s] = Count[s]
    BY <1>1, <2>1
  <2>2. CASE Floor[s] = Count[s] - 1 /\ Count[s] > 0
    BY <1>1, <2>2
  <2>3. CASE Count[s] = 0 /\ Floor[s] = -1
    <3>1. (-1) \div i < 0
      <4>1. i \in Nat /\ i > 0
        BY <1>1, <1>4
      <4>. HIDE DEF i
      <4>. QED
        BY <4>1
    <3>. QED
      BY <1>1, <1>2, <1>4, <2>3, <3>1
  <2>. QED
    BY <1>1, <2>1, <2>2, <2>3
<1>7. b * i <= Floor[s]
  <2>1. Interval[s] \in Nat \ {0}
    BY <1>1, <1>4
  <2>. QED
    BY <1>4, <1>6, <2>1, DivFits
<1>8. (n + 1) * i <= b * i
  <2>1. n \in Nat /\ b \in Nat /\ i \in Nat /\ n + 1 <= b
    BY <1>1, <1>2
  <2>. HIDE DEF n, b, i
  <2>. QED
    BY <2>1
<1>9. (n + 1) * i = n * i + i /\ n * i \in Nat /\ (n + 1) * i \in Nat /\ b * i \in Nat
  <2>1. n \in Nat /\ b \in Nat /\ i \in Nat
    BY <1>1
  <2>. HIDE DEF n, b, i
  <2>. QED
    BY <2>1
<1>. QED
  <2>. DEFINE ni == n * i
              n1i == (n + 1) * i
              bi == b * i
  <2>1. /\ ni \in Nat /\ n1i \in Nat /\ bi \in Nat /\ n1i = ni + i /\ n1i <= bi /\ bi <= Floor[s]
        /\ position[s] = ni + sinceLast[s] /\ sinceLast[s] < i /\ i \in Nat /\ sinceLast[s] \in Nat
    BY <1>1, <1>3, <1>5, <1>7, <1>8, <1>9
  <2>2. Floor[s] <= Count[s] /\ Floor[s] \in Nat /\ Count[s] \in Nat
    BY <1>1, <1>6
  <2>. HIDE DEF ni, n1i, bi, i
  <2>. QED
    BY <2>1, <2>2

(* Nor does Finished abandon anything. *)
LEMMA FinishedBlames ==
  ASSUME Types, NEW s, NEW p, FinishedOK(s, p)
  PROVE  \A j \in IDs : status'[j] = "abandoned" => status[j] = "abandoned"
BY DEF Types, FinishedOK

(* A source is finished and says so. *)
LEMMA SourceEndWhole ==
  ASSUME IInv, IInv', NEW level \in [Subtasks -> IDs \cup {0}], Whole(level), NEW s \in Sources, SourceEnd(s)
  PROVE  Whole(level)'
<1>1. /\ FinishedOK(s, position[s]) /\ chan' = Broadcast(chan, s, EOS) /\ mode = "running"
      /\ s \notin returned /\ ~barrierDue(s) /\ position[s] = Count[s]
      /\ returned' = returned \cup {s}
      /\ position' = position /\ injected' = injected /\ sinceLast' = sinceLast
      /\ ended' = ended /\ held' = held
      /\ pc' = pc /\ pending' = pending /\ epoch' = epoch /\ opened' = opened
      /\ staging' = staging /\ committed' = committed /\ written' = written /\ firstEpoch' = firstEpoch
      /\ restoredID' = restoredID /\ mode' = mode /\ failed' = failed /\ succeeded' = succeeded
  BY DEF SourceEnd, up, sourceVars, sinkVars, runVars, sink, sinkMemory, sinkDisk
<1>2. /\ level \in [Subtasks -> Nat] /\ chan \in Channels /\ Leveled(chan, ended, level)
      /\ s \in Subtasks /\ s \notin Operators /\ s \notin Sinks
      /\ Types /\ Coordinated' /\ done \in [Subtasks -> Snapshots] /\ pending \in [Sinks -> SUBSET IDs]
  BY RunningFacts, KindsOfSubtasks DEF IInv, Coordinated, Types, SinkTypes
<1>3. injected[s] >= maxBarriers(s)
  BY <1>1, PacedOut
<1>4. Effect(0, {}, position[s]) /\ done' = [done EXCEPT ![s] = position[s]]
  BY <1>1, <1>2, FinishedHasEffect
<1>5. \A y \in Subtasks : done'[y] # NoFile =>
          y \in Sources /\ done'[y] = position[y] /\ injected[y] >= maxBarriers(y)
  <2>1. \A y \in Subtasks : done[y] # NoFile =>
          y \in Sources /\ done[y] = position[y] /\ injected[y] >= maxBarriers(y)
    BY DEF Whole, Accounts, DoneAt, IInv, Coordinated, DoneAreSources
  <2>2. \A y \in Subtasks : done'[y] = IF y = s THEN position[s] ELSE done[y]
    BY <1>2, <1>4
  <2>. QED
    BY <1>3, <2>1, <2>2
<1>6. Called(level, level, 0, {}, position[s])
  <2>1. After(level, level, 0, {})
    BY AfterRest
  <2>2. StandsAt(level, 0, {}, position[s])
    BY DEF StandsAt
  <2>3. \A x \in Subtasks : level[x] >= level[x]
    BY <1>2
  <2>. QED
    BY <1>4, <1>5, <2>1, <2>2, <2>3 DEF Called
<1>7. chan' \in Channels /\ Leveled(chan', ended, level)
  BY <1>1, <1>2, EndKeeps
<1>8. LeveledBy(level)'
  BY <1>1, <1>7 DEF Whole, LeveledBy
<1>9. Ends(level)' /\ ChannelContents'
  <2>1. Streams(chan, ended, returned, level) /\ Routed(chan)
    BY StreamsAre DEF Whole, Accounts, OnDisk
  <2>2. Streams(chan', ended, returned', level) /\ Routed(chan')
    BY <1>1, <1>2, <2>1, StreamsEnd
  <2>. QED
    BY <1>1, <2>2, StreamsAre
<1>10. \A j \in Epochs : Open(j)' => \A r \in Records :
           Alike(OnTheWay(chan, level, j, r), OnTheWay(chan', level, j, r))
  <2>1. SUFFICES ASSUME NEW j \in Nat, NEW r \in Records
                 PROVE  Alike(OnTheWay(chan, level, j, r), OnTheWay(chan', level, j, r))
    BY EpochNat
  <2>2. EOS \in Messages /\ EOS # Rec(r)
    BY MessagesDiffer DEF Messages
  <2>3. Broadcast(chan, s, EOS) \in Channels
    BY <1>1, <1>7
  <2>4. OnTheWay(chan, level, j, r) = OnTheWay(Broadcast(chan, s, EOS), level, j, r)
    BY <1>2, <2>2, <2>3, BroadcastSame
  <2>. QED
    BY <1>1, <2>4, AlikeSame
<1>11. DoneAt'
  <2>1. \A x \in Sources : done'[x] # NoFile =>
          x \in returned' /\ done'[x] = position'[x] /\ injected'[x] >= maxBarriers(x)
    <3>1. SUFFICES ASSUME NEW x \in Sources, done'[x] # NoFile PROVE x \in returned'
      BY <1>1, <1>5, KindsOfSubtasks
    <3>2. x = s \/ done[x] # NoFile
      BY <1>2, <1>4, <3>1, KindsOfSubtasks
    <3>. QED
      BY <1>1, <3>2 DEF Whole, Accounts, DoneAt
  <2>. QED
    BY <2>1 DEF DoneAt, maxBarriers
<1>12. Budgeted(level)' /\ PacedSources'
  BY <1>1 DEF Whole, Accounts, Budgeted, PacedSources, maxBarriers
<1>13. Blamed'
  <2>1. \A j \in IDs : status'[j] = "abandoned" => status[j] = "abandoned"
    BY <1>1, <1>2, FinishedBlames
  <2>. QED
    BY <1>1, <2>1 DEF Whole, Accounts, Blamed
<1>14. Grows => Remembered'
  BY <1>1, RememberedStays DEF Whole, Accounts
<1>15. Returned(level)'
  <2>1. Returned(level)
    BY DEF Whole, Accounts
  <2>2. \A j \in IDs : status[j] = "complete" => status'[j] = "complete"
    BY <1>4 DEF Effect
  <2>3. \A x \in Sources : x \in returned' =>
          \/ x \in returned /\ position'[x] = position[x] /\ injected'[x] = injected[x]
          \/ position'[x] = Count[x] /\ injected'[x] >= maxBarriers(x)
    BY <1>1, <1>3
  <2>4. \A o \in Operators : o \in returned' => o \in returned /\ ended'[o] = ended[o] /\ held'[o] = held[o]
    BY <1>1, <1>2
  <2>5. \A x \in Sinks : pc'[x] \in {"last", "returned"} =>
          /\ pc[x] \in {"last", "returned"} /\ ended'[x] = ended[x] /\ epoch'[x] = epoch[x]
          /\ level[x] = level[x] /\ pending'[x] \subseteq pending[x]
    BY <1>1
  <2>6. mode' = "running" /\ (~failed' => ~failed) /\ pending' \in [Sinks -> SUBSET IDs]
    BY <1>1, <1>2
  <2>. QED
    BY <1>2, <2>1, <2>2, <2>3, <2>4, <2>5, <2>6, ReturnedStays
<1>16. \A x \in Sinks : SinkGoesOn(level, level, x)
  BY <1>1 DEF SinkGoesOn
<1>17. {} \in SUBSET Subtasks /\ returned \subseteq returned' /\ (failed => failed')
  BY <1>1
<1>. QED
  BY <1>1, <1>2, <1>6, <1>8, <1>9, <1>10, <1>11, <1>12, <1>13, <1>14, <1>15, <1>16, <1>17, CalledKeeps

-----------------------------------------------------------------------------
(* Before barrier k all that is left of the inputs is the barrier. *)
LEMMA CutStands ==
  ASSUME IInv, NEW level \in [Subtasks -> IDs \cup {0}], Whole(level), NEW s \in Subtasks, NEW k, atCut(s, k)
  PROVE  /\ k = level[s] + 1
         /\ \A u \in Up[s] : chan[<<u, s>>] = << >> \/ (chan[<<u, s>>] # << >> /\ Head(chan[<<u, s>>]) = Bar(k))
<1>1. level \in [Subtasks -> Nat] /\ chan \in Channels /\ Leveled(chan, ended, level) /\ Ends(level)
  BY RunningFacts DEF Whole, Accounts
<1>2. k = level[s] + 1
  BY <1>1, CutIsNext
<1>3. ASSUME NEW u \in Up[s]
      PROVE  chan[<<u, s>>] = << >> \/ (chan[<<u, s>>] # << >> /\ Head(chan[<<u, s>>]) = Bar(k))
  <2>1. <<u, s>> \in Edges /\ chan[<<u, s>>] \in Seq(Messages)
    BY <1>1, EdgeIs DEF Channels
  <2>2. CASE u \in ended[s]
    BY <1>1, <2>1, <2>2 DEF Ends
  <2>3. CASE u \notin ended[s]
    <3>1. chan[<<u, s>>] # << >> /\ Head(chan[<<u, s>>]).kind = "barrier" /\ Head(chan[<<u, s>>]).val = k
      BY <2>3 DEF atCut, liveInputs, headIs
    <3>2. Head(chan[<<u, s>>]) \in Messages
      BY <2>1, <3>1, TailIs
    <3>. QED
      BY <3>1, <3>2, MessageIsOne
  <2>. QED
    BY <2>2, <2>3
<1>. QED
  BY <1>2, <1>3

(* A checkpoint that could not be written is over. *)
LEMMA FailingEnds ==
  ASSUME Types, NEW k \in IDs, NEW s, NEW p, Fail(k, s) \/ AcknowledgeFails(k, s, p)
  PROVE  terminal(k)'
BY DEF Types, Fail, AcknowledgeFails, AckWriteFails, AckCompleteFails, terminal

(* The calls a failing subtask may still have made to the coordinator. *)
LEMMA FailsAtCalls ==
  ASSUME IInv, NEW level \in [Subtasks -> IDs \cup {0}], Whole(level), mode = "running",
         NEW s \in Subtasks, s \in returned', FailsAt(s)
  PROVE  /\ \E k, p : \E X \in SUBSET Subtasks : Called(level, level, k, X, p)
         /\ \A x \in Sources : done'[x] # NoFile => x = s \/ done[x] # NoFile
<1>1. /\ level \in [Subtasks -> Nat] /\ Types /\ \A x \in Subtasks : level[x] >= level[x]
  BY RunningFacts DEF IInv, Coordinated
<1>2. \A y \in Subtasks : done[y] # NoFile =>
        y \in Sources /\ done[y] = position[y] /\ injected[y] >= maxBarriers(y)
  BY DEF Whole, Accounts, DoneAt, IInv, Coordinated, DoneAreSources
<1>3. ASSUME NEW k, NEW p, Effect(k, {}, p),
             \A y \in Subtasks : done'[y] # NoFile =>
                y \in Sources /\ done'[y] = position[y] /\ injected[y] >= maxBarriers(y)
      PROVE  Called(level, level, k, {}, p)
  <2>1. After(level, level, k, {})
    BY AfterRest
  <2>2. StandsAt(level, k, {}, p)
    BY DEF StandsAt
  <2>. QED
    BY <1>1, <1>3, <2>1, <2>2 DEF Called
<1>4. CASE UNCHANGED coordinator
  <2>1. UNCHANGED <<status, acked, files, marker>> /\ done' = done
    BY <1>4 DEF coordinator, memory, disk
  <2>2. Effect(0, {}, 0)
    BY <2>1, RestHasEffect
  <2>3. Called(level, level, 0, {}, 0)
    BY <1>2, <1>3, <2>1, <2>2
  <2>. QED
    BY <2>1, <2>3
<1>5. CASE s \in Sources /\ ~barrierDue(s) /\ position[s] = Count[s] /\ FinishedFails(s, position[s])
  <2>1. Effect(0, {}, position[s]) /\ done' = [done EXCEPT ![s] = position[s]]
    BY <1>1, <1>5, FinishedHasEffect
  <2>2. injected[s] >= maxBarriers(s)
    BY <1>5, PacedOut
  <2>3. \A y \in Subtasks : done'[y] = IF y = s THEN position[s] ELSE done[y]
    BY <1>1, <2>1 DEF Types
  <2>4. \A y \in Subtasks : done'[y] # NoFile =>
                y \in Sources /\ done'[y] = position[y] /\ injected[y] >= maxBarriers(y)
    BY <1>2, <1>5, <2>2, <2>3
  <2>5. Called(level, level, 0, {}, position[s])
    BY <1>3, <2>1, <2>4
  <2>. QED
    BY <2>3, <2>5, KindsOfSubtasks
<1>6. ASSUME NEW k \in IDs, NEW p, Fail(k, s) \/ AcknowledgeFails(k, s, p), k = level[s] + 1,
             \A u \in Up[s] : chan[<<u, s>>] = << >> \/ (chan[<<u, s>>] # << >> /\ Head(chan[<<u, s>>]) = Bar(k)),
             s \in Sources => p = position[s] /\ p = k * Interval[s],
             s \in Operators => p = held[s], s \in Sinks => pc[s] = "run",
             \E x \in Sources : k <= maxBarriers(x)
      PROVE  /\ \E j, q : \E X \in SUBSET Subtasks : Called(level, level, j, X, q)
             /\ \A x \in Sources : done'[x] # NoFile => x = s \/ done[x] # NoFile
  <2>1. Effect(k, {s}, p) /\ done' = done
    BY <1>1, <1>6, AckHasEffect
  <2>2. terminal(k)'
    BY <1>1, <1>6, FailingEnds
  <2>3. After(level, level, k, {s})
    BY <2>2 DEF After, Open
  <2>4. StandsAt(level, k, {s}, p)
    BY <1>1, <1>6 DEF StandsAt
  <2>5. ~succeeded
    <3>1. SUFFICES ASSUME succeeded PROVE FALSE
      OBVIOUS
    <3>2. \A x \in Sources : maxBarriers(x) <= restoredID /\ maxBarriers(x) \in Nat
      BY <3>1, AllLevel, JobAssumption, Numbers
    <3>3. restoredID \in Nat /\ restoredID <= level[s] /\ level[s] \in Nat
      BY <1>1, RunningFacts DEF Whole, LeveledBy
    <3>. QED
      BY <1>6, <3>2, <3>3
  <2>6. Called(level, level, k, {s}, p)
    BY <1>1, <1>2, <1>6, <2>1, <2>3, <2>4, <2>5 DEF Called
  <2>. QED
    BY <2>1, <2>6
<1>7. CASE s \in Sources /\ barrierDue(s) /\ AcknowledgeFails(injected[s] + 1, s, position[s])
  <2>. DEFINE k == injected[s] + 1
  <2>1. s \notin Operators /\ s \notin Sinks /\ Up[s] = {}
    BY <1>7, KindsOfSubtasks
  <2>2. injected[s] < maxBarriers(s) /\ maxBarriers(s) \in IDs \cup {0} /\ injected[s] \in IDs \cup {0}
    BY <1>7, JobAssumption DEF barrierDue, IInv, FlowTypes
  <2>3. k \in IDs /\ k = level[s] + 1
    BY <1>7, <2>2, NextNumber DEF Whole, LeveledBy
  <2>4. maxBarriers(s) \in Nat /\ injected[s] \in Nat /\ Interval[s] \in Nat
    BY <1>7, <2>2, Numbers, JobAssumption
  <2>5. k <= maxBarriers(s)
    BY <2>2, <2>4
  <2>6. position[s] = injected[s] * Interval[s] + Interval[s]
    BY <1>7 DEF Whole, Accounts, PacedSources, barrierDue
  <2>7. position[s] = k * Interval[s]
    BY <2>4, <2>6
  <2>8. Fail(k, s) \/ AcknowledgeFails(k, s, position[s])
    BY <1>7
  <2>. HIDE DEF k
  <2>. QED
    BY <1>6, <1>7, <2>1, <2>3, <2>5, <2>7, <2>8
<1>8. ASSUME NEW k \in IDs, s \in Operators, atCut(s, k), Fail(k, s) \/ AcknowledgeFails(k, s, held[s])
      PROVE  /\ \E j, q : \E X \in SUBSET Subtasks : Called(level, level, j, X, q)
             /\ \A x \in Sources : done'[x] # NoFile => x = s \/ done[x] # NoFile
  <2>1. s \notin Sources /\ s \notin Sinks
    BY <1>8, KindsOfSubtasks
  <2>2. /\ k = level[s] + 1
        /\ \A u \in Up[s] : chan[<<u, s>>] = << >> \/ (chan[<<u, s>>] # << >> /\ Head(chan[<<u, s>>]) = Bar(k))
    BY <1>8, CutStands
  <2>3. \E x \in Sources : k <= maxBarriers(x)
    BY <1>8, CutIsBudgeted
  <2>. QED
    BY <1>6, <1>8, <2>1, <2>2, <2>3
<1>9. ASSUME NEW k \in IDs, s \in Sinks, pc[s] = "run", atCut(s, k), Fail(k, s) \/ AcknowledgeFails(k, s, epoch[s])
      PROVE  /\ \E j, q : \E X \in SUBSET Subtasks : Called(level, level, j, X, q)
             /\ \A x \in Sources : done'[x] # NoFile => x = s \/ done[x] # NoFile
  <2>1. s \notin Sources /\ s \notin Operators
    BY <1>9, KindsOfSubtasks
  <2>2. /\ k = level[s] + 1
        /\ \A u \in Up[s] : chan[<<u, s>>] = << >> \/ (chan[<<u, s>>] # << >> /\ Head(chan[<<u, s>>]) = Bar(k))
    BY <1>9, CutStands
  <2>3. \E x \in Sources : k <= maxBarriers(x)
    BY <1>9, CutIsBudgeted
  <2>. QED
    BY <1>6, <1>9, <2>1, <2>2, <2>3
<1>. QED
  BY <1>4, <1>5, <1>7, <1>8, <1>9 DEF FailsAt

(* A subtask returns an error, wherever it is in its loop. *)
LEMMA SubtaskFailsWhole ==
  ASSUME IInv, IInv', NEW level \in [Subtasks -> IDs \cup {0}], Whole(level), NEW s \in Subtasks, SubtaskFails(s)
  PROVE  Whole(level)'
<1>1. /\ mode = "running" /\ s \notin returned /\ FailsAt(s) /\ failed' = TRUE /\ returned' = returned \cup {s}
      /\ position' = position /\ injected' = injected /\ sinceLast' = sinceLast /\ chan' = chan
      /\ ended' = ended /\ held' = held /\ pending' = pending
      /\ restoredID' = restoredID /\ mode' = mode /\ succeeded' = succeeded
      /\ IF s \in Sinks THEN Close(s) /\ pc' = [pc EXCEPT ![s] = "returned"] ELSE UNCHANGED <<sink, pc>>
  BY DEF SubtaskFails, up, sourceVars
<1>2. /\ staging' = staging /\ committed' = committed /\ written' = written /\ firstEpoch' = firstEpoch
      /\ epoch' = epoch /\ \A x \in Sinks : SinkGoesOn(level, level, x)
      /\ \A x \in Sinks : pc'[x] = pc[x] \/ pc'[x] = "returned"
  <2>1. pc \in [Sinks -> {"restore", "run", "ask", "notify", "await", "last", "returned"}] /\ opened \in [Sinks -> BOOLEAN]
    BY DEF IInv, SinkTypes
  <2>2. CASE s \in Sinks
    BY <1>1, <2>1, <2>2 DEF Close, sinkDisk, SinkGoesOn
  <2>3. CASE s \notin Sinks
    BY <1>1, <2>3 DEF sink, sinkMemory, sinkDisk, SinkGoesOn
  <2>. QED
    BY <2>2, <2>3
<1>3. /\ \E k, p : \E X \in SUBSET Subtasks : Called(level, level, k, X, p)
      /\ \A x \in Sources : done'[x] # NoFile => x = s \/ done[x] # NoFile
  BY <1>1, FailsAtCalls
<1>4. PICK k, p : \E X \in SUBSET Subtasks : Called(level, level, k, X, p)
  BY <1>3
<1>5. PICK X \in SUBSET Subtasks : Called(level, level, k, X, p)
  BY <1>4
<1>6. Coordinated'
  BY DEF IInv
<1>7. LeveledBy(level)'
  BY <1>1, <1>2 DEF Whole, LeveledBy
<1>8. Ends(level)' /\ ChannelContents'
  BY <1>1 DEF Whole, Accounts, OnDisk, Ends, ChannelContents
<1>9. \A j \in Epochs : Open(j)' => \A r \in Records :
           Alike(OnTheWay(chan, level, j, r), OnTheWay(chan', level, j, r))
  BY <1>1, AlikeSame
<1>10. DoneAt'
  <2>1. \A x \in Sources : done'[x] # NoFile =>
          x \in returned' /\ done'[x] = position'[x] /\ injected'[x] >= maxBarriers(x)
    BY <1>1, <1>3, <1>5, KindsOfSubtasks DEF Called, Whole, Accounts, DoneAt
  <2>. QED
    BY <2>1 DEF DoneAt, maxBarriers
<1>11. Budgeted(level)' /\ PacedSources' /\ Blamed'
  BY <1>1 DEF Whole, Accounts, Budgeted, PacedSources, Blamed, maxBarriers
<1>12. Grows => Remembered'
  BY <1>1, <1>2, RememberedStays DEF Whole, Accounts
<1>13. Returned(level)'
  BY <1>1 DEF Returned
<1>14. returned \subseteq returned' /\ (failed => failed')
  BY <1>1
<1>. QED
  BY <1>1, <1>2, <1>5, <1>6, <1>7, <1>8, <1>9, <1>10, <1>11, <1>12, <1>13, <1>14, CalledKeeps

(* What a step of a sink that calls nobody leaves as it was. *)
LEMMA SinkStepKeeps ==
  ASSUME NEW level, Whole(level), UNCHANGED <<status, acked, done, files, marker>>,
         UNCHANGED <<position, injected, sinceLast, held, restoredID>>,
         returned \subseteq returned', failed => failed'
  PROVE  /\ Counted(level)' /\ DoneAt' /\ MarkedPassed(level)' /\ Budgeted(level)'
         /\ PacedSources' /\ PacedFiles' /\ Blamed' /\ StateContents'
<1>. USE DEF Whole, Accounts, OnDisk
<1>1. Counted(level)'
  BY DEF Counted, terminal
<1>2. DoneAt'
  BY DEF DoneAt
<1>3. MarkedPassed(level)'
  BY DEF MarkedPassed
<1>4. Budgeted(level)'
  BY DEF Budgeted
<1>5. PacedSources'
  BY DEF PacedSources
<1>6. PacedFiles'
  BY DEF PacedFiles, Recorded, terminal
<1>7. Blamed'
  BY DEF Blamed
<1>8. StateContents'
  BY DEF StateContents, Recorded, terminal
<1>. QED
  BY <1>1, <1>2, <1>3, <1>4, <1>5, <1>6, <1>7, <1>8

(* The directories and the coordinator's checkpoints rest. *)
LEMMA RestsWhole ==
  ASSUME NEW level, Whole(level), IInv, mode = "running",
         UNCHANGED <<status, acked, done, files, marker>>,
         UNCHANGED <<position, injected, sinceLast, held, restoredID, chan, ended>>,
         UNCHANGED <<staging, committed, written, firstEpoch, mode, succeeded>>,
         returned \subseteq returned', failed => failed',
         \A s \in Sinks : SinkGoesOn(level, level, s),
         LeveledBy(level)', Remembered', Returned(level)'
  PROVE  Whole(level)'
<1>1. /\ Counted(level)' /\ DoneAt' /\ MarkedPassed(level)' /\ Budgeted(level)'
      /\ PacedSources' /\ PacedFiles' /\ Blamed' /\ StateContents'
  BY SinkStepKeeps
<1>2. Grows
  BY DEF Grows
<1>3. SuccessMarked'
  BY <1>2, SuccessMarkedStays DEF Whole, Accounts
<1>4. Ends(level)' /\ ChannelContents'
  BY DEF Whole, Accounts, OnDisk, Ends, ChannelContents
<1>5. Settled(level)' /\ OwnFiles' /\ FinalFiles' /\ FileContents'
  <2>1. SinkTypes /\ CommittedIsCovered
    BY DEF IInv
  <2>2. Settled(level) /\ OwnFiles /\ FinalFiles /\ FileContents
    BY DEF Whole, OnDisk
  <2>3. \A r \in Records, j \in IDs : marker'[j] /\ ~marker[j] => ~succeeded
    OBVIOUS
  <2>4. \A s \in Sinks : SinkGoesOn(level, level, s)
    OBVIOUS
  <2>. QED
    BY <1>2, <2>1, <2>2, <2>3, <2>4, DiskStays
<1>6. RunCuts(level)'
  <2>1. \A k, r : Stored(k, r)' = Stored(k, r)
    BY FilesSame
  <2>. QED
    BY <2>1 DEF Whole, Cuts, RunCuts, RunCut, Open, terminal, snapshot
<1>7. MarkedCuts'
  BY FilesSame DEF Whole, Cuts, MarkedCuts, MarkedCut
<1>. QED
  BY <1>1, <1>3, <1>4, <1>5, <1>6, <1>7 DEF Whole, Accounts, OnDisk, Cuts

(* A sink asks which of its checkpoints are complete. *)
LEMMA SinkAsksWhole ==
  ASSUME IInv, NEW level \in [Subtasks -> IDs \cup {0}], Whole(level), NEW s \in Sinks, SinkAsks(s)
  PROVE  Whole(level)'
<1>1. /\ mode = "running" /\ pc[s] = "ask" /\ pc' = [pc EXCEPT ![s] = "notify"]
      /\ UNCHANGED <<status, acked, done, files, marker>>
      /\ UNCHANGED <<position, injected, sinceLast, held, restoredID, chan, ended>>
      /\ UNCHANGED <<staging, committed, written, firstEpoch, mode, succeeded>>
      /\ returned' = returned /\ failed' = failed /\ epoch' = epoch /\ opened' = opened /\ pending' = pending
  BY DEF SinkAsks, up, coordinator, memory, disk, sourceVars, flowVars, sink, sinkMemory, sinkDisk, runVars
<1>2. \A x \in Sinks : pc'[x] = IF x = s THEN "notify" ELSE pc[x]
  BY <1>1 DEF IInv, SinkTypes
<1>3. \A x \in Sinks : SinkGoesOn(level, level, x)
  BY <1>1, <1>2 DEF SinkGoesOn
<1>4. LeveledBy(level)'
  BY <1>1, <1>2 DEF Whole, LeveledBy
<1>5. Remembered'
  BY <1>1 DEF Whole, Accounts, Remembered
<1>6. Returned(level)'
  BY <1>1, <1>2 DEF Whole, Accounts, Returned
<1>. QED
  BY <1>1, <1>3, <1>4, <1>5, <1>6, RestsWhole

(* A sink has been told of all of them, or one notification failed. *)
LEMMA SinkNotifiedWhole ==
  ASSUME IInv, NEW level \in [Subtasks -> IDs \cup {0}], Whole(level), NEW s \in Sinks, SinkNotified(s)
  PROVE  Whole(level)'
<1>1. /\ mode = "running"
      /\ UNCHANGED <<status, acked, done, files, marker>>
      /\ UNCHANGED <<position, injected, sinceLast, held, restoredID, chan, ended>>
      /\ UNCHANGED <<staging, committed, written, firstEpoch, mode, succeeded>>
      /\ failed' = failed /\ epoch' = epoch /\ pending' = pending
      /\ \/ pc[s] = "notify" /\ pc' = [pc EXCEPT ![s] = "run"] /\ returned' = returned /\ opened' = opened
         \/ /\ pc[s] = "last" /\ pc' = [pc EXCEPT ![s] = "returned"]
            /\ returned' = returned \cup {s} /\ opened' = [opened EXCEPT ![s] = FALSE]
  BY DEF SinkNotified, Close, up, coordinator, memory, disk, sourceVars, flowVars, sink, sinkMemory, sinkDisk, runVars
<1>2. \A x \in Sinks : /\ x # s => pc'[x] = pc[x] /\ opened'[x] = opened[x]
                       /\ x = s => \/ pc[x] = "notify" /\ pc'[x] = "run" /\ opened'[x] = opened[x]
                                   \/ pc[x] = "last" /\ pc'[x] = "returned" /\ ~opened'[x]
  BY <1>1 DEF IInv, SinkTypes
<1>3. \A x \in Sinks : SinkGoesOn(level, level, x)
  BY <1>1, <1>2 DEF SinkGoesOn
<1>4. LeveledBy(level)'
  BY <1>1, <1>2 DEF Whole, LeveledBy
<1>5. Remembered'
  BY <1>1 DEF Whole, Accounts, Remembered
<1>6. Returned(level)'
  <2>1. \A x \in Subtasks : x \notin Sinks => (x \in returned' <=> x \in returned)
    BY <1>1
  <2>2. \A x \in Sources : x \in Subtasks /\ x \notin Sinks
    BY KindsOfSubtasks
  <2>3. \A x \in Operators : x \in Subtasks /\ x \notin Sinks
    BY KindsOfSubtasks
  <2>. QED
    BY <1>1, <1>2, <2>1, <2>2, <2>3 DEF Whole, Accounts, Returned
<1>7. returned \subseteq returned'
  BY <1>1
<1>. QED
  BY <1>1, <1>3, <1>4, <1>5, <1>6, <1>7, RestsWhole

(* A sink at the end of its inputs closes its last epoch. *)
LEMMA SinkEndWhole ==
  ASSUME IInv, NEW level \in [Subtasks -> IDs \cup {0}], Whole(level), NEW s \in Sinks, SinkEnd(s)
  PROVE  Whole(level)'
<1>. DEFINE where == IF waiter'[s] = "returned" THEN "last" ELSE "await"
<1>1. /\ mode = "running" /\ pc[s] \in {"run", "await"} /\ liveInputs(s) = {}
      /\ pc' = [pc EXCEPT ![s] = where]
      /\ UNCHANGED <<status, acked, done, files, marker>>
      /\ UNCHANGED <<position, injected, sinceLast, held, restoredID, chan, ended>>
      /\ UNCHANGED <<staging, committed, written, firstEpoch, mode, succeeded>>
      /\ returned' = returned /\ failed' = failed /\ epoch' = epoch /\ opened' = opened /\ pending' = pending
      /\ AwaitBegins(s) \/ AwaitChecks(s, pending[s]) \/ (failed /\ AwaitCancelled(s))
  BY DEF SinkEnd, up, AwaitBegins, AwaitChecks, AwaitCancelled, coordinator, memory, disk, sourceVars, flowVars, sink,
         sinkMemory, sinkDisk, runVars
<1>2. where \in {"last", "await"} /\ \A x \in Sinks : pc'[x] = IF x = s THEN where ELSE pc[x]
  BY <1>1 DEF IInv, SinkTypes
<1>8. where = "last" /\ ~failed => \A k \in pending[s] : terminal(k)
  <2>1. waiter \in [Sinks -> {"no", "checking", "asleep", "woken", "returned"}]
    BY DEF IInv, Coordinated, Types
  <2>. QED
    BY <1>1, <2>1 DEF AwaitBegins, AwaitChecks, settled
<1>. HIDE DEF where
<1>3. \A x \in Sinks : SinkGoesOn(level, level, x)
  BY <1>1, <1>2 DEF SinkGoesOn
<1>4. LeveledBy(level)'
  BY <1>1, <1>2 DEF Whole, LeveledBy
<1>5. Remembered'
  BY <1>1 DEF Whole, Accounts, Remembered
<1>6. Returned(level)'
  <2>1. Returned(level) /\ Blamed
    BY DEF Whole, Accounts
  <2>2. ASSUME where = "last", ~failed
        PROVE  /\ Up[s] \subseteq ended[s] /\ epoch[s] = level[s] + 1
               /\ \A k \in pending[s] : status[k] = "complete"
    <3>1. epoch[s] = level[s] + 1
      BY <1>1 DEF Whole, LeveledBy
    <3>2. Up[s] \subseteq ended[s]
      BY <1>1 DEF liveInputs
    <3>3. pending[s] \subseteq IDs
      BY DEF IInv, SinkTypes
    <3>. QED
      BY <1>8, <2>1, <2>2, <3>1, <3>2, <3>3 DEF Blamed, terminal
  <2>. QED
    BY <1>1, <1>2, <2>1, <2>2 DEF Returned
<1>. QED
  BY <1>1, <1>3, <1>4, <1>5, <1>6, RestsWhole

(* A sink sees to its files, and nothing else happens. *)
LEMMA DiskStepWhole ==
  ASSUME NEW level, Whole(level), UNCHANGED <<status, acked, done, files, marker>>,
         UNCHANGED <<position, injected, sinceLast, held, restoredID, chan, ended>>,
         UNCHANGED <<returned, mode, failed, succeeded>>,
         LeveledBy(level)', Remembered', Returned(level)',
         Settled(level)', OwnFiles', FinalFiles', FileContents', CoveredKept,
         \A k \in Epochs, r \in Records : Stored(k, r)' = Stored(k, r)
  PROVE  Whole(level)'
<1>1. /\ Counted(level)' /\ DoneAt' /\ MarkedPassed(level)' /\ Budgeted(level)'
      /\ PacedSources' /\ PacedFiles' /\ Blamed' /\ StateContents'
  BY SinkStepKeeps
<1>2. Grows
  BY DEF Grows
<1>3. SuccessMarked'
  BY <1>2, SuccessMarkedStays DEF Whole, Accounts
<1>4. Ends(level)' /\ ChannelContents'
  BY DEF Whole, Accounts, OnDisk, Ends, ChannelContents
<1>6. RunCuts(level)'
  BY DEF Whole, Cuts, RunCuts, RunCut, Open, terminal, snapshot
<1>7. MarkedCuts'
  <2>1. \A k \in IDs : marker'[k] /\ ~marker[k] => \A r \in Records : MarkedCut(files[k], k, r)'
    OBVIOUS
  <2>2. MarkedCuts
    BY DEF Whole, Cuts
  <2>. QED
    BY <1>2, <2>1, <2>2, MarkedCutsStay
<1>. QED
  BY <1>1, <1>3, <1>4, <1>6, <1>7 DEF Whole, Accounts, OnDisk, Cuts

(* A restart finds the same under either name. *)
LEMMA RenameCurrent ==
  ASSUME SinkTypes, NEW s \in Sinks, NEW e \in Epochs, Rename(s, e)
  PROVE  \A x \in Sinks, f \in Epochs :
           /\ current(x, f)' = current(x, f)
           /\ staged(x, f)' => staged(x, f) /\ committed'[x][f] = committed[x][f] /\ staging'[x][f] = staging[x][f]
           /\ staging'[x][f] \in {staging[x][f], NoFile}
           /\ \/ committed'[x][f] = committed[x][f]
              \/ x = s /\ f = e /\ committed'[x][f] = staging[x][f] /\ staged(x, f) /\ ~staged(x, f)'
<1>. SUFFICES ASSUME NEW x \in Sinks, NEW f \in Epochs
     PROVE  /\ current(x, f)' = current(x, f)
            /\ staged(x, f)' => staged(x, f) /\ committed'[x][f] = committed[x][f] /\ staging'[x][f] = staging[x][f]
            /\ staging'[x][f] \in {staging[x][f], NoFile}
            /\ \/ committed'[x][f] = committed[x][f]
               \/ x = s /\ f = e /\ committed'[x][f] = staging[x][f] /\ staged(x, f) /\ ~staged(x, f)'
  OBVIOUS
<1>1. CASE ~staged(s, e)
  BY <1>1 DEF Rename, sinkDisk, current, staged
<1>2. CASE staged(s, e)
  <2>1. /\ committed' = [committed EXCEPT ![s][e] = staging[s][e]]
        /\ staging' = [staging EXCEPT ![s][e] = NoFile]
    BY <1>2 DEF Rename
  <2>2. staging \in [Sinks -> [Epochs -> Files]] /\ committed \in [Sinks -> [Epochs -> Files]]
    BY DEF SinkTypes
  <2>3. CASE x = s /\ f = e
    <3>1. committed'[x][f] = staging[x][f] /\ staging'[x][f] = NoFile
      BY <2>1, <2>2, <2>3
    <3>. QED
      BY <1>2, <2>3, <3>1 DEF current, staged
  <2>4. CASE x # s \/ f # e
    <3>1. committed'[x][f] = committed[x][f] /\ staging'[x][f] = staging[x][f]
      BY <2>1, <2>2, <2>4
    <3>. QED
      BY <3>1 DEF current, staged
  <2>. QED
    BY <2>3, <2>4
<1>. QED
  BY <1>1, <1>2

(* An epoch that a marker stands for, or the last of all, is committed. *)
LEMMA RenameWhole ==
  ASSUME IInv, NEW level \in [Subtasks -> IDs \cup {0}], Whole(level),
         NEW s \in Sinks, NEW e \in Epochs, Rename(s, e), staged(s, e) => e <= restoredID \/ e \in written[s],
         UNCHANGED <<status, acked, done, files, marker>>,
         UNCHANGED <<position, injected, sinceLast, held, restoredID, chan, ended>>,
         UNCHANGED <<returned, mode, failed, succeeded>>,
         UNCHANGED <<epoch, firstEpoch, opened, written, pc>>,
         Remembered', Returned(level)',
         staged(s, e) /\ ~Covered(e) =>
           \A r \in Records : copies(staging[s][e], r) > 0 =>
             /\ e = 1 \/ Covered(e - 1)
             /\ \A t \in Sinks, f \in Epochs : Covered(f) => copies(current(t, f), r) = 0
  PROVE  Whole(level)'
<1>1. \A x \in Sinks, f \in Epochs :
           /\ current(x, f)' = current(x, f)
           /\ staged(x, f)' => staged(x, f) /\ committed'[x][f] = committed[x][f] /\ staging'[x][f] = staging[x][f]
           /\ staging'[x][f] \in {staging[x][f], NoFile}
           /\ \/ committed'[x][f] = committed[x][f]
              \/ x = s /\ f = e /\ committed'[x][f] = staging[x][f] /\ staged(x, f) /\ ~staged(x, f)'
  <2>1. SinkTypes
    BY DEF IInv
  <2>. QED
    BY <2>1, RenameCurrent
<1>0. \A f : Covered(f)' = Covered(f)
  BY DEF Covered
<1>2. LeveledBy(level)'
  BY DEF Whole, LeveledBy
<1>3. Settled(level)'
  BY <1>1 DEF Whole, OnDisk, Settled
<1>4. OwnFiles'
  <2>1. OwnFiles
    BY DEF Whole, OnDisk
  <2>2. ASSUME NEW x \in Sinks
        PROVE  /\ firstEpoch'[x] <= restoredID' + 1
               /\ opened'[x] => epoch'[x] \in written'[x]
               /\ \A f \in written'[x] : /\ f > restoredID' /\ f <= epoch'[x]
                                         /\ f = epoch'[x] => opened'[x] \/ pc'[x] = "returned"
    BY <2>1 DEF OwnFiles
  <2>3. ASSUME NEW x \in Sinks, NEW f \in Epochs, NEW r \in Records, copies(committed'[x][f], r) > 0
        PROVE  /\ f <= restoredID' \/ f \in written'[x] \/ (succeeded' /\ ~Covered(f)')
               /\ staged(x, f)' => succeeded' /\ ~Covered(f)'
    <3>1. CASE committed'[x][f] = committed[x][f]
      BY <1>0, <1>1, <2>1, <2>3, <3>1 DEF OwnFiles
    <3>2. CASE x = s /\ f = e /\ committed'[x][f] = staging[x][f] /\ staged(x, f) /\ ~staged(x, f)'
      BY <3>2
    <3>. QED
      BY <1>1, <3>1, <3>2
  <2>. QED
    BY <2>2, <2>3 DEF OwnFiles, copies
<1>5. FinalFiles'
  <2>1. FinalFiles
    BY DEF Whole, OnDisk
  <2>2. SUFFICES ASSUME NEW x \in Sinks, NEW f \in Epochs, NEW r \in Records,
                        copies(committed'[x][f], r) > 0, ~Covered(f)'
        PROVE  /\ f = 1 \/ Covered(f - 1)'
               /\ \A t \in Sinks, g \in Epochs : Covered(g)' => copies(current(t, g)', r) = 0
    BY DEF FinalFiles, copies
  <2>3. /\ f = 1 \/ Covered(f - 1)
        /\ \A t \in Sinks, g \in Epochs : Covered(g) => copies(current(t, g), r) = 0
    <3>1. CASE committed'[x][f] = committed[x][f]
      BY <1>0, <2>1, <2>2, <3>1 DEF FinalFiles
    <3>2. CASE x = s /\ f = e /\ committed'[x][f] = staging[x][f] /\ staged(x, f) /\ ~staged(x, f)'
      BY <1>0, <2>2, <3>2
    <3>. QED
      BY <1>1, <3>1, <3>2
  <2>. QED
    BY <1>0, <1>1, <2>3
<1>6. FileContents'
  <2>1. FileContents
    BY DEF Whole, OnDisk
  <2>2. SUFFICES ASSUME NEW x \in Sinks, NEW f \in Epochs, NEW r \in Records,
                        NEW g \in {staging'[x][f], committed'[x][f]}
        PROVE  copies(g, r) <= 1 /\ (copies(g, r) > 0 => x \in route(r))
    BY DEF FileContents, copies
  <2>3. g \in {staging[x][f], committed[x][f], NoFile}
    BY <1>1
  <2>4. copies(NoFile, r) = 0
    BY DEF copies
  <2>. QED
    BY <2>1, <2>3, <2>4 DEF FileContents
<1>7. CoveredKept
  BY <1>1 DEF CoveredKept
<1>8. \A k \in Epochs, r \in Records : Stored(k, r)' = Stored(k, r)
  BY <1>1 DEF Stored, copies
<1>. QED
  BY <1>2, <1>3, <1>4, <1>5, <1>6, <1>7, <1>8, DiskStepWhole

(* The file of a complete checkpoint is renamed. *)
LEMMA SinkNotifyWhole ==
  ASSUME IInv, NEW level \in [Subtasks -> IDs \cup {0}], Whole(level), NEW s \in Sinks, SinkNotify(s)
  PROVE  Whole(level)'
<1>. DEFINE k == CHOOSE j \in todo[s] : \A i \in todo[s] : j <= i
<1>1. /\ mode = "running" /\ pc[s] \in {"notify", "last"} /\ todo[s] # {}
      /\ pending' = [pending EXCEPT ![s] = @ \ {k}]
      /\ UNCHANGED <<status, acked, done, files, marker>>
      /\ UNCHANGED <<position, injected, sinceLast, held, restoredID, chan, ended>>
      /\ UNCHANGED <<returned, mode, failed, succeeded>>
      /\ UNCHANGED <<epoch, firstEpoch, opened, written, pc>>
      /\ Rename(s, k) \/ (staging' = staging /\ committed' = committed)
  BY DEF SinkNotify, NotifyCheckpointComplete, up, coordinator, memory, disk, sourceVars, flowVars, sink,
         sinkMemory, sinkDisk, runVars
<1>2. k \in todo[s]
  <2>1. todo[s] \subseteq Nat
    BY Numbers DEF IInv, SinkTypes
  <2>2. \E j \in todo[s] : \A i \in todo[s] : j <= i
    BY <1>1, <2>1, LeastNat
  <2>. QED
    BY <2>2
<1>. HIDE DEF k
<1>3. k \in IDs /\ k \in Epochs /\ marker[k] /\ k \in Nat
  BY <1>2, Numbers DEF IInv, SinkTypes, TodoAreMarked
<1>4. \A x \in Sinks : /\ pending'[x] \subseteq pending[x]
                       /\ \A j \in pending[x] : j \in pending'[x] \/ marker[j]
  BY <1>1, <1>3 DEF IInv, SinkTypes
<1>5. Remembered'
  BY <1>1, <1>4 DEF Whole, Accounts, Remembered
<1>6. Returned(level)'
  BY <1>1, <1>4 DEF Whole, Accounts, Returned
<1>7. CASE Rename(s, k)
  <2>1. Covered(k)
    BY <1>3 DEF Covered
  <2>2. staged(s, k) => k <= restoredID \/ k \in written[s]
    BY <1>1, <1>3 DEF Whole, OnDisk, Settled
  <2>. QED
    BY <1>1, <1>3, <1>5, <1>6, <1>7, <2>1, <2>2, RenameWhole
<1>8. CASE staging' = staging /\ committed' = committed
  <2>1. \A x \in Sinks : SinkGoesOn(level, level, x)
    BY <1>1 DEF SinkGoesOn
  <2>2. LeveledBy(level)'
    BY <1>1 DEF Whole, LeveledBy
  <2>. QED
    BY <1>1, <1>5, <1>6, <1>8, <2>1, <2>2, RestsWhole
<1>. QED
  BY <1>1, <1>7, <1>8

(* What is on disk of this run is accounted for by the cut of no checkpoint. *)
LEMMA StoredIsOne ==
  ASSUME IInv, NEW level \in [Subtasks -> IDs \cup {0}], Whole(level), mode # "down", NEW r \in Records,
         NEW s \in Sinks, NEW e \in Epochs, e <= restoredID \/ e \in written[s], copies(current(s, e), r) > 0,
         NEW t \in Sinks, NEW f \in Epochs, f <= restoredID \/ f \in written[t], copies(current(t, f), r) > 0
  PROVE  s = t /\ e = f
<1>. DEFINE K == Cardinality(IDs) + 1
<1>1. K \in Epochs /\ K \notin IDs /\ K > restoredID /\ e <= K /\ f <= K
  <2>1. restoredID \in IDs \cup {0}
    BY DEF IInv, RunTypes
  <2>. QED
    BY <2>1, Numbers
<1>. HIDE DEF K
<1>2. Open(K)
  BY <1>1 DEF Open
<1>3. AtMostOne(Stored(K, r))
  BY <1>1, <1>2 DEF Whole, Cuts, RunCuts, RunCut, OnePlace
<1>4. <<s, e>> \in Stored(K, r) /\ <<t, f>> \in Stored(K, r)
  BY <1>1 DEF Stored
<1>5. <<s, e>> = <<t, f>>
  BY <1>3, <1>4 DEF AtMostOne
<1>. QED
  BY <1>5

(* Where a run that has reached its end finds a file, it is its own or of  *)
(* the checkpoint it resumed from.                                         *)
LEMMA FinalStaged ==
  ASSUME IInv, NEW level \in [Subtasks -> IDs \cup {0}], Whole(level), ~failed, returned = Subtasks,
         NEW s \in Sinks
  PROVE  /\ \A e \in Epochs : staged(s, e) => e \in written[s]
         /\ \A e \in Epochs : \A r \in Records : copies(committed[s][e], r) > 0 =>
              e <= restoredID \/ e \in written[s] \/ ~Covered(e)
         /\ pc[s] = "returned" /\ ~failed /\ epoch[s] = level[s] + 1 /\ Up[s] \subseteq ended[s]
         /\ \A k \in IDs : k <= level[s] => Covered(k)
<1>2. pc[s] = "returned"
  BY KindsOfSubtasks DEF IInv, WrittenExist
<1>3. epoch[s] = level[s] + 1 /\ Up[s] \subseteq ended[s] /\ \A k \in pending[s] : status[k] = "complete"
  BY <1>2 DEF Whole, Accounts, Returned
<1>4. \A e \in Epochs : staged(s, e) => e \in written[s]
  BY <1>2 DEF Whole, OnDisk, Settled
<1>5. \A e \in Epochs : \A r \in Records : copies(committed[s][e], r) > 0 =>
              e <= restoredID \/ e \in written[s] \/ ~Covered(e)
  BY DEF Whole, OnDisk, OwnFiles
<1>6. ASSUME NEW k \in IDs, k <= level[s] PROVE Covered(k)
  <2>1. /\ restoredID \in IDs \cup {0} /\ restoredID \in Nat /\ k \in Nat /\ k >= 1 /\ level[s] \in Nat
    BY Numbers, KindsOfSubtasks DEF IInv, RunTypes
  <2>2. CASE k <= restoredID
    <3>1. marker[restoredID] /\ restoredID \in IDs
      BY <2>1, <2>2 DEF IInv, RestoredIsMarked
    <3>. QED
      BY <2>1, <2>2, <3>1 DEF Covered
  <2>3. CASE restoredID < k
    <3>1. k \in pending[s] \/ marker[k]
      BY <1>3, <1>6, <2>1, <2>3 DEF Whole, Accounts, Remembered
    <3>2. marker[k]
      BY <1>3, <3>1 DEF IInv, Coordinated, CompleteAreMarked
    <3>. QED
      BY <2>1, <3>2 DEF Covered
  <2>. QED
    BY <2>1, <2>2, <2>3
<1>. QED
  BY <1>2, <1>3, <1>4, <1>5, <1>6

(* commitFinalEpochs renames one file. *)
LEMMA CommitFinalWhole ==
  ASSUME IInv, NEW level \in [Subtasks -> IDs \cup {0}], Whole(level), NEW s \in Sinks, CommitFinal(s)
  PROVE  Whole(level)'
<1>. DEFINE e == CHOOSE x \in leftStaged(s) : \A f \in leftStaged(s) : x <= f
<1>1. /\ mode = "final" /\ leftStaged(s) # {} /\ Rename(s, e)
      /\ UNCHANGED <<status, acked, done, files, marker>>
      /\ UNCHANGED <<position, injected, sinceLast, held, restoredID, chan, ended>>
      /\ UNCHANGED <<returned, mode, failed, succeeded>>
      /\ UNCHANGED <<epoch, firstEpoch, opened, written, pc>> /\ pending' = pending
  BY DEF CommitFinal, CommitFinalEpoch, coordinator, memory, disk, sourceVars, flowVars, sinkVars,
         sinkMemory, runVars
<1>0. ~failed /\ returned = Subtasks
  BY <1>1 DEF Whole, Accounts, Returned
<1>2. firstEpoch[s] \in Nat /\ firstEpoch[s] >= 1 /\ epoch[s] \in Nat /\ epoch[s] <= Cardinality(IDs) + 1
  BY Numbers DEF IInv, SinkTypes
<1>3. e \in leftStaged(s)
  <2>1. leftStaged(s) \subseteq Nat
    BY <1>2 DEF leftStaged
  <2>2. \E x \in leftStaged(s) : \A f \in leftStaged(s) : x <= f
    BY <1>1, <2>1, LeastNat
  <2>. QED
    BY <2>2
<1>. HIDE DEF e
<1>4. e \in Nat /\ e \in Epochs /\ e <= epoch[s] /\ staged(s, e)
  BY <1>2, <1>3, Numbers DEF leftStaged
<1>5. e \in written[s] /\ epoch[s] = level[s] + 1 /\ level[s] \in IDs \cup {0} /\ level[s] \in Nat
      /\ \A k \in IDs : k <= level[s] => Covered(k)
  BY <1>0, <1>4, FinalStaged, KindsOfSubtasks, Numbers
<1>6. Remembered'
  BY <1>1 DEF Whole, Accounts, Remembered
<1>7. Returned(level)'
  BY <1>1 DEF Whole, Accounts, Returned
<1>8. ASSUME ~Covered(e), NEW r \in Records, copies(staging[s][e], r) > 0
      PROVE  /\ e = 1 \/ Covered(e - 1)
             /\ \A t \in Sinks, f \in Epochs : Covered(f) => copies(current(t, f), r) = 0
  <2>1. e = level[s] + 1
    <3>1. e <= level[s] => e \in IDs
      BY <1>4, <1>5, Numbers
    <3>. QED
      BY <1>4, <1>5, <1>8, <3>1
  <2>2. e = 1 \/ Covered(e - 1)
    BY <1>5, <2>1
  <2>3. ASSUME NEW t \in Sinks, NEW f \in Epochs, Covered(f), copies(current(t, f), r) # 0 PROVE FALSE
    <3>1. copies(current(t, f), r) > 0
      <4>1. current(t, f) \in Files
        BY DEF current, IInv, SinkTypes
      <4>. QED
        BY <2>3, <4>1 DEF copies, Files
    <3>2. f <= restoredID \/ f \in written[t]
      BY <1>0, <2>3, <3>1, FinalStaged DEF current
    <3>3. copies(current(s, e), r) > 0
      BY <1>4, <1>8 DEF current
    <3>4. e = f
      BY <1>1, <1>4, <1>5, <3>1, <3>2, <3>3, StoredIsOne
    <3>. QED
      BY <1>8, <2>3, <3>4
  <2>. QED
    BY <2>2, <2>3
<1>. QED
  BY <1>1, <1>4, <1>5, <1>6, <1>7, <1>8, RenameWhole

(* The epoch a sink writes to is covered by no checkpoint. *)
LEMMA OpenIsUncovered ==
  ASSUME IInv, NEW level \in [Subtasks -> IDs \cup {0}], Whole(level), NEW s \in Sinks,
         pc[s] # "returned", NEW e \in Nat, e > level[s]
  PROVE  ~Covered(e)
<1>1. s \notin returned
  BY DEF IInv, WrittenExist
<1>2. level[s] \in Nat
  BY LevelNat, KindsOfSubtasks
<1>3. SUFFICES ASSUME NEW k \in IDs, k >= e, marker[k] PROVE FALSE
  BY DEF Covered
<1>4. level[s] >= k
  BY <1>1, <1>3 DEF Whole, Accounts, MarkedPassed
<1>. QED
  BY <1>2, <1>3, <1>4, Numbers

(* One copy of record q goes into the file of epoch e of sink s, which is  *)
(* the one before the step or starts with the step.                        *)
Writes(s, e, q) ==
  /\ \A x \in Sinks, f \in Epochs : x # s \/ f # e => staging'[x][f] = staging[x][f]
  /\ staging'[s][e] # NoFile
  /\ \A r \in Records : copies(staging'[s][e], r) =
       (IF opened[s] THEN copies(staging[s][e], r) ELSE 0) + (IF r = q THEN 1 ELSE 0)
  /\ opened[s] => staged(s, e)
  /\ opened'[s] /\ \A x \in Sinks : x # s => opened'[x] = opened[x]
  /\ \A x \in Sinks : written'[x] = IF x = s THEN written[x] \cup {e} ELSE written[x]

(* Write does that. *)
LEMMA WriteWrites ==
  ASSUME IInv, NEW s \in Sinks, NEW q \in Records, Write(s, q)
  PROVE  Writes(s, epoch[s], q)
<1>. DEFINE e == epoch[s]
            file == IF opened[s] THEN staging[s][e] ELSE empty
            more == [file EXCEPT ![q] = @ + 1]
<1>1. SinkTypes /\ WrittenExist
  BY DEF IInv
<1>2. staging' = [staging EXCEPT ![s][e] = more] /\ opened' = [opened EXCEPT ![s] = TRUE]
      /\ written' = [written EXCEPT ![s] = @ \cup {e}]
  BY DEF Write
<1>3. opened[s] => staged(s, e)
  BY <1>1 DEF WrittenExist
<1>4. file \in [Records -> Nat]
  <2>1. CASE opened[s]
    BY <1>1, <1>3, <2>1 DEF staged, SinkTypes, Files
  <2>2. CASE ~opened[s]
    BY <2>2 DEF empty
  <2>. QED
    BY <2>1, <2>2
<1>5. \A r \in Records : file[r] = IF opened[s] THEN copies(staging[s][e], r) ELSE 0
  BY <1>3 DEF copies, empty, staged
<1>6. e \in Epochs /\ staging \in [Sinks -> [Epochs -> Files]]
  BY <1>1 DEF SinkTypes
<1>. HIDE DEF file, e
<1>7. more \in [Records -> Nat] /\ more # NoFile /\ \A r \in Records : more[r] = file[r] + (IF r = q THEN 1 ELSE 0)
  <2>1. more \in [Records -> Nat] /\ \A r \in Records : more[r] = file[r] + (IF r = q THEN 1 ELSE 0)
    BY <1>4
  <2>. QED
    BY <2>1, JobAssumption
<1>. HIDE DEF more
<1>8. /\ \A x \in Sinks, f \in Epochs : x # s \/ f # e => staging'[x][f] = staging[x][f]
      /\ staging'[s][e] = more
  BY <1>2, <1>6
<1>9. staging'[s][e] # NoFile /\ \A r \in Records : copies(staging'[s][e], r) = more[r]
  BY <1>7, <1>8 DEF staged, copies, e
<1>10. \A r \in Records : copies(staging'[s][e], r) =
       (IF opened[s] THEN copies(staging[s][e], r) ELSE 0) + (IF r = q THEN 1 ELSE 0)
  BY <1>5, <1>7, <1>9
<1>11. opened'[s] /\ \A x \in Sinks : x # s => opened'[x] = opened[x]
  BY <1>1, <1>2 DEF SinkTypes
<1>12. \A x \in Sinks : written'[x] = IF x = s THEN written[x] \cup {e} ELSE written[x]
  BY <1>1, <1>2 DEF SinkTypes
<1>. QED
  BY <1>3, <1>8, <1>9, <1>10, <1>11, <1>12 DEF Writes, e

(* Copies are counted. *)
LEMMA CopiesNat ==
  ASSUME IInv, NEW s \in Sinks, NEW e \in Epochs, NEW r \in Records
  PROVE  /\ copies(staging[s][e], r) \in Nat /\ copies(committed[s][e], r) \in Nat
         /\ copies(current(s, e), r) \in Nat
<1>1. staging[s][e] \in Files /\ committed[s][e] \in Files
  BY DEF IInv, SinkTypes
<1>2. \A f \in Files : copies(f, r) \in Nat
  BY DEF Files, copies
<1>. QED
  BY <1>1, <1>2 DEF current

(* What the cuts find on disk is that record more. *)
LEMMA WritesStored ==
  ASSUME IInv, NEW level \in [Subtasks -> IDs \cup {0}], Whole(level), NEW s \in Sinks, pc[s] = "run",
         NEW e, e = epoch[s], NEW q \in Records, Writes(s, e, q), committed' = committed, restoredID' = restoredID,
         NEW k \in Epochs, NEW r \in Records
  PROVE  /\ r # q \/ k <= level[s] => Stored(k, r)' = Stored(k, r)
         /\ r = q /\ k > level[s] => Gains(Stored(k, r), Stored(k, r)')
<1>1. /\ e = level[s] + 1 /\ e \in Epochs /\ restoredID \in Nat /\ restoredID <= level[s]
      /\ level[s] \in Nat /\ k \in Nat /\ e \in Nat
  <2>1. e = level[s] + 1 /\ restoredID <= level[s]
    BY KindsOfSubtasks DEF Whole, LeveledBy
  <2>2. e \in Epochs /\ restoredID \in IDs \cup {0}
    BY DEF IInv, SinkTypes, RunTypes
  <2>3. level[s] \in Nat
    BY LevelNat, KindsOfSubtasks
  <2>. QED
    BY <2>1, <2>2, <2>3, EpochNat
<1>2. e \in written[s] => opened[s]
  BY DEF Whole, OnDisk, OwnFiles
<1>3. written'[s] = written[s] \cup {e} /\ \A x \in Sinks : x # s => written'[x] = written[x]
  BY DEF Writes
<1>4. ASSUME NEW x \in Sinks, NEW f \in Epochs, x # s \/ f # e
      PROVE  current(x, f)' = current(x, f) /\ (f \in written'[x] <=> f \in written[x])
  <2>1. staging'[x][f] = staging[x][f]
    BY <1>4 DEF Writes
  <2>. QED
    BY <1>3, <1>4, <2>1 DEF current, staged
<1>5. current(s, e)' = staging'[s][e]
  BY DEF Writes, current, staged
<1>6. opened[s] => current(s, e) = staging[s][e]
  BY DEF Writes, current, staged
<1>7. \A p : p \in Stored(k, r) <=>
        /\ p \in Sinks \X Epochs /\ p[2] <= k /\ (p[2] <= restoredID \/ p[2] \in written[p[1]])
        /\ copies(current(p[1], p[2]), r) > 0
  BY DEF Stored
<1>8. \A p : p \in Stored(k, r)' <=>
        /\ p \in Sinks \X Epochs /\ p[2] <= k /\ (p[2] <= restoredID \/ p[2] \in written'[p[1]])
        /\ copies(current(p[1], p[2])', r) > 0
  BY DEF Stored, copies
<1>9. \A p \in Sinks \X Epochs : p # <<s, e>> => (p \in Stored(k, r)' <=> p \in Stored(k, r))
  <2>1. \A p \in Sinks \X Epochs : p[1] \in Sinks /\ p[2] \in Epochs /\ (p # <<s, e>> => p[1] # s \/ p[2] # e)
    OBVIOUS
  <2>. QED
    BY <1>4, <1>7, <1>8, <2>1
<1>10. e \in written'[s] /\ ~(e <= restoredID)
  BY <1>1, <1>3
<1>11. <<s, e>> \in Stored(k, r)' <=> e <= k /\ copies(staging'[s][e], r) > 0
  BY <1>1, <1>5, <1>8, <1>10
<1>12. <<s, e>> \in Stored(k, r) <=> e <= k /\ opened[s] /\ copies(staging[s][e], r) > 0
  <2>1. CASE opened[s]
    <3>1. e \in written[s]
      BY <2>1 DEF Whole, OnDisk, OwnFiles
    <3>. QED
      BY <1>1, <1>6, <1>7, <2>1, <3>1
  <2>2. CASE ~opened[s]
    BY <1>2, <1>7, <1>10, <2>2
  <2>. QED
    BY <2>1, <2>2
<1>13. copies(staging[s][e], r) \in Nat
  BY <1>1, CopiesNat
<1>14. copies(staging'[s][e], r) =
         (IF opened[s] THEN copies(staging[s][e], r) ELSE 0) + (IF r = q THEN 1 ELSE 0)
  BY DEF Writes
<1>15. r # q \/ k <= level[s] => (<<s, e>> \in Stored(k, r)' <=> <<s, e>> \in Stored(k, r))
  BY <1>1, <1>11, <1>12, <1>13, <1>14
<1>16. r = q /\ k > level[s] => <<s, e>> \in Stored(k, r)'
  BY <1>1, <1>11, <1>13, <1>14
<1>17. r # q \/ k <= level[s] => Stored(k, r)' = Stored(k, r)
  BY <1>7, <1>8, <1>9, <1>15
<1>18. r = q /\ k > level[s] => Gains(Stored(k, r), Stored(k, r)')
  <2>1. r = q /\ k > level[s] => Stored(k, r)' = Stored(k, r) \cup {<<s, e>>}
    BY <1>7, <1>8, <1>9, <1>16
  <2>. QED
    BY <2>1 DEF Gains
<1>. QED
  BY <1>17, <1>18

(* The head of an input that is a record. *)
LEMMA RecordAtHead ==
  ASSUME IInv, NEW level \in [Subtasks -> IDs \cup {0}], Whole(level), NEW s \in Subtasks,
         NEW u \in liveInputs(s), headIs(u, s, "record"), NEW q, q = Head(chan[<<u, s>>]).val
  PROVE  /\ u \in Up[s] /\ chan[<<u, s>>] # << >> /\ Head(chan[<<u, s>>]).kind # "barrier"
         /\ q \in Records /\ Head(chan[<<u, s>>]) = Rec(q) /\ s \in route(q)
<1>1. u \in Up[s] /\ chan[<<u, s>>] # << >> /\ Head(chan[<<u, s>>]).kind = "record" /\ q \in Records
  BY HeadRecord DEF headIs
<1>2. chan \in Channels
  BY RunningFacts
<1>3. <<u, s>> \in Edges /\ chan[<<u, s>>] \in Seq(Messages) /\ <<u, s>>[2] = s
  BY <1>1, <1>2, EdgeIs DEF Channels
<1>4. Head(chan[<<u, s>>]) \in Messages /\ Head(chan[<<u, s>>]) = chan[<<u, s>>][1] /\ 1 \in 1..Len(chan[<<u, s>>])
  BY <1>1, <1>3, TailIs
<1>5. Head(chan[<<u, s>>]) = Rec(q)
  BY <1>1, <1>4, MessageIsOne
<1>6. ChannelContents
  BY DEF Whole, OnDisk
<1>7. s \in route(q)
  BY <1>1, <1>3, <1>4, <1>6 DEF ChannelContents
<1>. QED
  BY <1>1, <1>5, <1>7

(* What a write leaves of the directories. *)
LEMMA WriteDisk ==
  ASSUME IInv, NEW level \in [Subtasks -> IDs \cup {0}], Whole(level), NEW s \in Sinks, pc[s] = "run",
         NEW e \in Epochs, e = epoch[s], e > level[s], e > restoredID,
         NEW q \in Records, Writes(s, e, q), s \in route(q),
         opened[s] => copies(staging[s][e], q) = 0,
         UNCHANGED <<epoch, firstEpoch, committed, pc, restoredID, succeeded, failed, marker>>
  PROVE  Settled(level)' /\ OwnFiles' /\ FinalFiles' /\ FileContents' /\ CoveredKept
<1>0. \A f : Covered(f)' = Covered(f)
  BY DEF Covered
<1>1. ~Covered(e)
  BY EpochNat, OpenIsUncovered
<1>2. written'[s] = written[s] \cup {e} /\ \A x \in Sinks : x # s => written'[x] = written[x]
  BY DEF Writes
<1>3. /\ \A x \in Sinks, f \in Epochs : x # s \/ f # e => staging'[x][f] = staging[x][f]
      /\ opened'[s] /\ \A x \in Sinks : x # s => opened'[x] = opened[x]
      /\ opened[s] => staged(s, e)
  BY DEF Writes
<1>4. \A x \in Sinks, f \in Epochs : x # s \/ f # e =>
        current(x, f)' = current(x, f) /\ (staged(x, f)' <=> staged(x, f))
  BY <1>3 DEF current, staged
<1>5. Settled(level)'
  <2>1. Settled(level)
    BY DEF Whole, OnDisk
  <2>2. \A f \in Epochs : staged(s, f)' => f \in written'[s]
    BY <1>2, <1>4, <2>1 DEF Settled
  <2>3. ASSUME NEW x \in Sinks, x # s
        PROVE  \/ \A f \in Epochs : staged(x, f)' => f \in written'[x]
               \/ level[x] = restoredID' /\ (pc'[x] = "restore" \/ (failed' /\ pc'[x] = "returned"))
    BY <1>2, <1>4, <2>1, <2>3 DEF Settled
  <2>. QED
    BY <2>2, <2>3 DEF Settled
<1>6. OwnFiles'
  <2>1. OwnFiles
    BY DEF Whole, OnDisk
  <2>2. ASSUME NEW x \in Sinks
        PROVE  /\ firstEpoch'[x] <= restoredID' + 1
               /\ opened'[x] => epoch'[x] \in written'[x]
               /\ \A f \in written'[x] : /\ f > restoredID' /\ f <= epoch'[x]
                                         /\ f = epoch'[x] => opened'[x] \/ pc'[x] = "returned"
    <3>1. e <= epoch[s]
      BY EpochNat
    <3>2. CASE x = s
      BY <1>2, <1>3, <2>1, <3>1, <3>2 DEF OwnFiles
    <3>3. CASE x # s
      BY <1>2, <1>3, <2>1, <3>3 DEF OwnFiles
    <3>. QED
      BY <3>2, <3>3
  <2>3. ASSUME NEW x \in Sinks, NEW f \in Epochs, NEW r \in Records, copies(committed'[x][f], r) > 0
        PROVE  /\ f <= restoredID' \/ f \in written'[x] \/ (succeeded' /\ ~Covered(f)')
               /\ staged(x, f)' => succeeded' /\ ~Covered(f)'
    <3>1. /\ f <= restoredID \/ f \in written[x] \/ (succeeded /\ ~Covered(f))
          /\ staged(x, f) => succeeded /\ ~Covered(f)
      BY <2>1, <2>3 DEF OwnFiles
    <3>2. CASE x = s /\ f = e
      <4>1. e \in written[s] => opened[s]
        BY <2>1 DEF OwnFiles
      <4>2. succeeded /\ ~Covered(f)
        BY <1>3, <3>1, <3>2, <4>1, EpochNat DEF IInv, RunTypes
      <4>. QED
        BY <1>0, <4>2
    <3>3. CASE x # s \/ f # e
      BY <1>0, <1>2, <1>4, <3>1, <3>3
    <3>. QED
      BY <3>2, <3>3
  <2>. QED
    BY <2>2, <2>3 DEF OwnFiles, copies
<1>7. CoveredKept
  <2>1. \A x \in Sinks, f \in Epochs : Covered(f) => x # s \/ f # e
    BY <1>1
  <2>. QED
    BY <1>4, <2>1 DEF CoveredKept
<1>8. FinalFiles'
  <2>1. FinalFiles
    BY DEF Whole, OnDisk
  <2>2. SUFFICES ASSUME NEW x \in Sinks, NEW f \in Epochs, NEW r \in Records,
                        copies(committed'[x][f], r) > 0, ~Covered(f)'
        PROVE  /\ f = 1 \/ Covered(f - 1)'
               /\ \A t \in Sinks, g \in Epochs : Covered(g)' => copies(current(t, g)', r) = 0
    BY DEF FinalFiles, copies
  <2>3. /\ f = 1 \/ Covered(f - 1)
        /\ \A t \in Sinks, g \in Epochs : Covered(g) => copies(current(t, g), r) = 0
    BY <1>0, <2>1, <2>2 DEF FinalFiles
  <2>. QED
    BY <1>0, <1>7, <2>3 DEF CoveredKept
<1>9. FileContents'
  <2>1. FileContents
    BY DEF Whole, OnDisk
  <2>2. SUFFICES ASSUME NEW x \in Sinks, NEW f \in Epochs, NEW r \in Records,
                        NEW g \in {staging'[x][f], committed'[x][f]}
        PROVE  copies(g, r) <= 1 /\ (copies(g, r) > 0 => x \in route(r))
    BY DEF FileContents, copies
  <2>3. CASE g \in {staging[x][f], committed[x][f]}
    BY <2>1, <2>3 DEF FileContents
  <2>4. CASE x = s /\ f = e /\ g = staging'[s][e]
    <3>1. copies(g, r) = (IF opened[s] THEN copies(staging[s][e], r) ELSE 0) + (IF r = q THEN 1 ELSE 0)
      BY <2>4 DEF Writes
    <3>2. copies(staging[s][e], r) \in Nat
      BY CopiesNat
    <3>3. copies(staging[s][e], r) <= 1 /\ (copies(staging[s][e], r) > 0 => s \in route(r))
      BY <2>1 DEF FileContents
    <3>. DEFINE n == copies(staging[s][e], r)
                m == copies(g, r)
    <3>4. m = (IF opened[s] THEN n ELSE 0) + (IF r = q THEN 1 ELSE 0) /\ n \in Nat /\ n <= 1
          /\ (r = q /\ opened[s] => n = 0) /\ (n > 0 => s \in route(r))
      BY <3>1, <3>2, <3>3
    <3>. HIDE DEF n, m
    <3>5. m <= 1 /\ (m > 0 => s \in route(r))
      BY <3>4
    <3>. QED
      BY <2>4, <3>5 DEF m
  <2>. QED
    BY <1>3, <2>2, <2>3, <2>4
<1>. QED
  BY <1>5, <1>6, <1>7, <1>8, <1>9

(* A sink takes a record and writes it: from a channel to a file. *)
LEMMA SinkRecordWhole ==
  ASSUME IInv, IInv', NEW level \in [Subtasks -> IDs \cup {0}], Whole(level),
         NEW s \in Sinks, NEW u \in Up[s], SinkRecord(s, u)
  PROVE  Whole(level)'
<1>1. PICK q, e : q = Head(chan[<<u, s>>]).val /\ e = epoch[s]
  OBVIOUS
<1>2. /\ mode = "running" /\ pc[s] = "run" /\ u \in liveInputs(s) /\ headIs(u, s, "record") /\ Write(s, q)
      /\ chan' = taken(s, {u})
      /\ UNCHANGED <<status, acked, done, files, marker>>
      /\ UNCHANGED <<position, injected, sinceLast, held, restoredID, ended>>
      /\ UNCHANGED <<returned, mode, failed, succeeded>>
      /\ UNCHANGED <<epoch, firstEpoch, committed, pc, pending>>
  BY <1>1 DEF SinkRecord, Write, up, coordinator, memory, disk, sourceVars, sinkVars, runVars
<1>3. /\ level \in [Subtasks -> Nat] /\ chan \in Channels /\ Leveled(chan, ended, level)
      /\ restoredID \in Nat /\ s \in Subtasks /\ s \notin Sources /\ s \notin Operators
  BY KindsOfSubtasks, RunningFacts
<1>4. /\ chan[<<u, s>>] # << >> /\ Head(chan[<<u, s>>]).kind # "barrier"
      /\ q \in Records /\ Head(chan[<<u, s>>]) = Rec(q) /\ s \in route(q)
  BY <1>1, <1>2, <1>3, RecordAtHead
<1>5. Writes(s, e, q)
  BY <1>1, <1>2, <1>4, WriteWrites
<1>6. e = level[s] + 1 /\ e \in Epochs /\ e > level[s] /\ e > restoredID /\ level[s] \in Nat
  <2>1. e = level[s] + 1 /\ restoredID <= level[s]
    BY <1>1, <1>2, <1>3 DEF Whole, LeveledBy
  <2>2. e \in Epochs
    BY <1>1 DEF IInv, SinkTypes
  <2>. QED
    BY <1>3, <2>1, <2>2
<1>7. taken(s, {u}) \in Channels /\ Leveled(taken(s, {u}), ended, level) /\ TakesFrom(chan, taken(s, {u}), s, {u})
  BY <1>3, <1>4, TakeKeeps, TakenIs
<1>8. Streams(chan', ended, returned, level) /\ Routed(chan')
  <2>1. Streams(chan, ended, returned, level) /\ Routed(chan)
    BY StreamsAre DEF Whole, Accounts, OnDisk
  <2>2. {u} \in SUBSET Up[s] /\ \A x \in {u} : chan[<<x, s>>] # << >>
    BY <1>4
  <2>. QED
    BY <1>2, <1>3, <1>7, <2>1, <2>2, StreamsTake
<1>9. ASSUME NEW k \in Epochs, Open(k), level[s] < k
      PROVE  /\ RunCut(level, k, q)
             /\ OnTheWay(chan, level, k, q) # {} /\ OnTheWay(chan', level, k, q) = {}
  <2>1. RunCut(level, k, q)
    BY <1>2, <1>4, <1>9 DEF Whole, Cuts, RunCuts
  <2>2. AtMostOne(OnTheWay(chan, level, k, q))
    BY <2>1 DEF RunCut, OnePlace
  <2>3. k \in Nat
    BY EpochNat
  <2>4. OnTheWay(chan, level, k, q) # {} /\ OnTheWay(taken(s, {u}), level, k, q) = {}
    BY <1>3, <1>4, <1>7, <1>9, <2>2, <2>3, TakenHere
  <2>. QED
    BY <1>2, <2>1, <2>4
<1>10. opened[s] => copies(staging[s][e], q) = 0
  <2>1. SUFFICES ASSUME opened[s], copies(staging[s][e], q) # 0 PROVE FALSE
    OBVIOUS
  <2>. DEFINE K == Cardinality(IDs) + 1
  <2>2. K \in Epochs /\ K \notin IDs /\ K > restoredID /\ e <= K /\ K > level[s]
    <3>1. restoredID \in IDs \cup {0}
      BY DEF IInv, RunTypes
    <3>. QED
      BY <1>3, <1>6, <3>1, Numbers
  <2>. HIDE DEF K
  <2>3. Open(K)
    BY <2>2 DEF Open
  <2>4. Stored(K, q) = {}
    BY <1>9, <2>2, <2>3 DEF RunCut, OnePlace
  <2>5. copies(staging[s][e], q) > 0
    BY <1>4, <1>6, <2>1, CopiesNat
  <2>6. current(s, e) = staging[s][e] /\ e \in written[s]
    BY <1>1, <1>5, <2>1 DEF Writes, current, Whole, OnDisk, OwnFiles
  <2>7. <<s, e>> \in Stored(K, q)
    BY <1>6, <2>2, <2>5, <2>6 DEF Stored
  <2>. QED
    BY <2>4, <2>7
<1>11. Settled(level)' /\ OwnFiles' /\ FinalFiles' /\ FileContents' /\ CoveredKept
  BY <1>1, <1>2, <1>4, <1>5, <1>6, <1>10, WriteDisk
<1>12. RunCuts(level)'
  <2>1. SUFFICES ASSUME NEW k \in Epochs, Open(k)', NEW r \in Records PROVE RunCut(level, k, r)'
    BY DEF RunCuts
  <2>2. Open(k) /\ k \in Nat
    BY <1>2, <2>1, EpochNat DEF Open, terminal
  <2>3. RunCut(level, k, r)
    BY <1>2, <2>2 DEF Whole, Cuts, RunCuts
  <2>. DEFINE E == r[2] <= snapshot(level, k, r[1])
              X == {o \in Operators : r \in snapshot(level, k, o)}
              Y == OnTheWay(chan, level, k, r)
              Z == Stored(k, r)
              Y2 == OnTheWay(chan', level, k, r)
              Z2 == Stored(k, r)'
  <2>4. OnePlace(E, X, Y, Z)
    BY <2>3 DEF RunCut
  <2>5. RunCut(level, k, r)' <=> OnePlace(E, X, Y2, Z2)
    BY <1>2 DEF RunCut, snapshot
  <2>6. /\ r # q \/ k <= level[s] => Z2 = Z
        /\ r = q /\ k > level[s] => Gains(Z, Z2)
    BY <1>1, <1>2, <1>4, <1>5, WritesStored
  <2>7. CASE r = q /\ k > level[s]
    <3>1. Y # {} /\ Y2 = {}
      BY <1>6, <1>9, <2>2, <2>7
    <3>. HIDE DEF E, X, Y, Z, Y2, Z2
    <3>2. OnePlace(E, X, {}, Z2)
      BY <2>4, <2>6, <2>7, <3>1, MovesYZ
    <3>. QED
      BY <2>5, <3>1, <3>2
  <2>8. CASE r # q \/ k <= level[s]
    <3>1. \A x \in {u} : chan[<<x, s>>] # << >>
      BY <1>4
    <3>2. level[s] < k => \A x \in {u} : Head(chan[<<x, s>>]) # Rec(r) /\ Head(chan[<<x, s>>]) # Bar(k)
      BY <1>4, <1>6, <2>2, <2>8, MessagesDiffer
    <3>3. {u} \in SUBSET Up[s]
      OBVIOUS
    <3>4. Alike(OnTheWay(chan, level, k, r), OnTheWay(taken(s, {u}), level, k, r))
      BY <1>3, <1>7, <3>1, <3>2, <3>3, TakenAlike
    <3>5. Alike(Y, Y2)
      BY <1>2, <3>4
    <3>6. Z2 = Z
      BY <2>6, <2>8
    <3>. HIDE DEF E, X, Y, Z, Y2, Z2
    <3>. QED
      BY <2>4, <2>5, <3>5, <3>6, AlikeKeeps
  <2>. QED
    BY <1>6, <2>2, <2>7, <2>8
<1>13. MarkedCuts'
  <2>1. \A k \in IDs : marker'[k] /\ ~marker[k] => \A r \in Records : MarkedCut(files[k], k, r)'
    BY <1>2
  <2>2. MarkedCuts /\ Grows
    BY <1>2 DEF Whole, Cuts, Grows
  <2>. QED
    BY <1>11, <2>1, <2>2, MarkedCutsStay
<1>14. /\ Counted(level)' /\ DoneAt' /\ MarkedPassed(level)' /\ Budgeted(level)'
       /\ PacedSources' /\ PacedFiles' /\ Blamed' /\ StateContents'
  BY <1>2, SinkStepKeeps
<1>15. SuccessMarked'
  <2>1. Grows
    BY <1>2 DEF Grows
  <2>. QED
    BY <1>2, <2>1, SuccessMarkedStays DEF Whole, Accounts
<1>16. Ends(level)' /\ ChannelContents'
  BY <1>2, <1>8, StreamsAre
<1>17. LeveledBy(level)'
  BY <1>2, <1>7 DEF Whole, LeveledBy, Leveled
<1>18. Remembered' /\ Returned(level)'
  BY <1>2 DEF Whole, Accounts, Remembered, Returned
<1>. QED
  BY <1>11, <1>12, <1>13, <1>14, <1>15, <1>16, <1>17, <1>18 DEF Whole, Accounts, OnDisk, Cuts

(* Nothing but the mode of the job changes. *)
LEMMA ModeWhole ==
  ASSUME NEW level, Whole(level), mode # "down", UNCHANGED <<status, acked, done, files, marker>>,
         UNCHANGED <<position, injected, sinceLast, held, restoredID, chan, ended>>,
         UNCHANGED <<returned, failed, pc, pending>>,
         UNCHANGED <<epoch, firstEpoch, opened, written, staging, committed>>,
         succeeded => succeeded', SuccessMarked', Returned(level)'
  PROVE  Whole(level)'
<1>1. /\ Counted(level)' /\ DoneAt' /\ MarkedPassed(level)' /\ Budgeted(level)'
      /\ PacedSources' /\ PacedFiles' /\ Blamed' /\ StateContents'
  BY SinkStepKeeps
<1>2. LeveledBy(level)' /\ Ends(level)' /\ ChannelContents' /\ Remembered'
  BY DEF Whole, Accounts, OnDisk, LeveledBy, Ends, ChannelContents, Remembered
<1>3. Settled(level)' /\ FinalFiles' /\ FileContents'
  BY DEF Whole, OnDisk, Settled, FinalFiles, FileContents, Covered, current, staged, copies
<1>4. OwnFiles'
  BY DEF Whole, OnDisk, OwnFiles, Covered, staged, copies
<1>5. RunCuts(level)'
  <2>1. \A k, r : Stored(k, r)' = Stored(k, r)
    BY FilesSame
  <2>. QED
    BY <2>1 DEF Whole, Cuts, RunCuts, RunCut, Open, terminal, snapshot
<1>6. MarkedCuts'
  BY FilesSame DEF Whole, Cuts, MarkedCuts, MarkedCut
<1>. QED
  BY <1>1, <1>2, <1>3, <1>4, <1>5, <1>6 DEF Whole, Accounts, OnDisk, Cuts

(* A failed run is torn down. *)
LEMMA TornDownWhole ==
  ASSUME IInv, NEW level \in [Subtasks -> IDs \cup {0}], Whole(level), TornDown
  PROVE  Whole(level)'
<1>1. /\ mode = "running" /\ failed /\ mode' = "down"
      /\ UNCHANGED <<status, acked, done, files, marker>>
      /\ UNCHANGED <<position, injected, sinceLast, held, restoredID, chan, ended>>
      /\ UNCHANGED <<returned, failed, pc, pending>>
      /\ UNCHANGED <<epoch, firstEpoch, opened, written, staging, committed>> /\ succeeded' = succeeded
  BY DEF TornDown, up, coordinator, memory, disk, sourceVars, flowVars, sinkVars, sink, sinkMemory, sinkDisk
<1>2. SuccessMarked'
  BY <1>1 DEF Whole, Accounts, SuccessMarked, Covered
<1>3. Returned(level)'
  BY <1>1 DEF Whole, Accounts, Returned
<1>. QED
  BY <1>1, <1>2, <1>3, ModeWhole

(* The last file has been committed. *)
LEMMA JobSucceedsWhole ==
  ASSUME IInv, NEW level \in [Subtasks -> IDs \cup {0}], Whole(level), JobSucceeds
  PROVE  Whole(level)'
<1>1. /\ mode = "final" /\ mode' = "done" /\ \A s \in Sinks : leftStaged(s) = {}
      /\ UNCHANGED <<status, acked, done, files, marker>>
      /\ UNCHANGED <<position, injected, sinceLast, held, restoredID, chan, ended>>
      /\ UNCHANGED <<returned, failed, pc, pending>>
      /\ UNCHANGED <<epoch, firstEpoch, opened, written, staging, committed>> /\ succeeded' = succeeded
  BY DEF JobSucceeds, coordinator, memory, disk, sourceVars, flowVars, sinkVars, sink, sinkMemory, sinkDisk
<1>2. SuccessMarked'
  BY <1>1 DEF Whole, Accounts, SuccessMarked, Covered
<1>3. Returned(level)'
  BY <1>1 DEF Whole, Accounts, Returned, leftStaged, staged
<1>. QED
  BY <1>1, <1>2, <1>3, ModeWhole

(* A run that got to its end has passed on every barrier. *)
LEMMA EndedAreCovered ==
  ASSUME IInv, NEW level \in [Subtasks -> IDs \cup {0}], Whole(level), ~failed, returned = Subtasks,
         NEW s \in Sources
  PROVE  maxBarriers(s) = 0 \/ Covered(maxBarriers(s))
<1>. DEFINE b == maxBarriers(s)
<1>1. SUFFICES ASSUME b # 0 PROVE Covered(b)
  OBVIOUS
<1>2. b \in IDs /\ b \in Nat /\ b >= 1
  BY <1>1, JobAssumption, Numbers
<1>3. Count[s] \in Nat /\ Count[s] >= 1
  <2>1. Count[s] \in Nat /\ Interval[s] \in Nat /\ Floor[s] \in {Count[s] - 1, Count[s]}
    BY JobAssumption
  <2>2. Interval[s] > 0 /\ b = Floor[s] \div Interval[s]
    BY <1>1, <2>1 DEF maxBarriers
  <2>3. SUFFICES ASSUME Count[s] = 0 PROVE FALSE
    BY <2>1
  <2>4. Floor[s] = 0 \/ Floor[s] = -1
    BY <2>1, <2>3
  <2>. DEFINE i == Interval[s]
  <2>5. i \in Nat /\ i > 0
    BY <2>1, <2>2
  <2>6. 0 \div i <= 0 /\ (-1) \div i <= 0
    <3>. HIDE DEF i
    <3>. QED
      BY <2>5
  <2>. QED
    BY <1>2, <2>2, <2>4, <2>6
<1>. HIDE DEF b
<1>4. PICK r \in Records : r[1] = s
  <2>1. <<s, 1>> \in Records
    BY <1>3, JobAssumption
  <2>. QED
    BY <2>1
<1>5. injected[s] >= b /\ level[s] >= b
  <2>1. injected[s] >= b
    BY KindsOfSubtasks DEF Whole, Accounts, Returned, b
  <2>. QED
    BY <2>1 DEF Whole, LeveledBy
<1>6. level \in [Subtasks -> Nat]
  BY LevelNat
<1>. DEFINE S == {x \in route(r) : level[x] >= level[s]}
<1>7. S \in SUBSET Subtasks /\ r[1] \in S
  BY <1>4, <1>6, RouteIs, KindsOfSubtasks
<1>8. ASSUME NEW u \in S, u \notin Sinks PROVE Dest(u, r) \subseteq S
  <2>1. PICK d \in Subtasks : d \in route(r) /\ u \in Up[d] /\ Dest(u, r) = {d}
    BY <1>8, RouteIs
  <2>2. u \in ended[d]
    <3>1. CASE d \in Sources
      BY <2>1, <3>1, KindsOfSubtasks
    <3>2. CASE d \in Operators
      BY <2>1, <3>2 DEF Whole, Accounts, Returned
    <3>3. CASE d \in Sinks
      <4>1. pc[d] = "returned"
        BY <3>3 DEF IInv, WrittenExist
      <4>. QED
        BY <2>1, <3>3, <4>1 DEF Whole, Accounts, Returned
    <3>. QED
      BY <3>1, <3>2, <3>3, ShapeAssumption DEF Operators
  <2>3. <<u, d>> \in Edges /\ <<u, d>>[1] = u /\ <<u, d>>[2] = d
    BY <2>1, EdgeIs
  <2>4. level[u] <= level[d]
    BY <2>2, <2>3 DEF Whole, Accounts, Ends
  <2>5. level[u] \in Nat /\ level[d] \in Nat /\ level[s] \in Nat /\ level[u] >= level[s]
    BY <1>6, <1>7, <1>8, KindsOfSubtasks
  <2>. QED
    BY <2>1, <2>4, <2>5
<1>9. route(r) \subseteq S
  <2>. HIDE DEF S
  <2>1. \A u \in S : u \notin Sinks => Dest(u, r) \subseteq S
    BY <1>8
  <2>. QED
    BY <1>7, <2>1, RouteInduction
<1>10. PICK t \in Sinks : t \in route(r)
  BY RouteIs
<1>11. b <= level[t]
  BY <1>2, <1>5, <1>6, <1>9, <1>10, KindsOfSubtasks
<1>. QED
  BY <1>2, <1>11, FinalStaged

(* Every subtask returned nil: what no checkpoint has covered by now,      *)
(* none will.                                                              *)
LEMMA AllReturnedWhole ==
  ASSUME IInv, NEW level \in [Subtasks -> IDs \cup {0}], Whole(level), AllReturned
  PROVE  Whole(level)'
<1>1. /\ mode = "running" /\ mode' = "final" /\ ~failed /\ returned = Subtasks
      /\ UNCHANGED <<status, acked, done, files, marker>>
      /\ UNCHANGED <<position, injected, sinceLast, held, restoredID, chan, ended>>
      /\ UNCHANGED <<returned, failed, pc, pending>>
      /\ UNCHANGED <<epoch, firstEpoch, opened, written, staging, committed>> /\ succeeded'
  BY DEF AllReturned, up, coordinator, memory, disk, sourceVars, flowVars, sinkVars, sink, sinkMemory, sinkDisk
<1>2. SuccessMarked'
  <2>1. \A s \in Sources : maxBarriers(s) = 0 \/ Covered(maxBarriers(s))
    BY <1>1, EndedAreCovered
  <2>. QED
    BY <1>1, <2>1 DEF SuccessMarked, Covered
<1>3. Returned(level)'
  BY <1>1 DEF Whole, Accounts, Returned
<1>. QED
  BY <1>1, <1>2, <1>3, ModeWhole

(* A leftover of an epoch after the checkpoint the run resumed from is     *)
(* removed.                                                                *)
LEMMA RemovedWhole ==
  ASSUME IInv, NEW level \in [Subtasks -> IDs \cup {0}], Whole(level), NEW s \in Sinks, pc[s] = "restore",
         NEW e \in Epochs, e > restoredID, staging' = [staging EXCEPT ![s][e] = NoFile], committed' = committed,
         UNCHANGED <<status, acked, done, files, marker>>,
         UNCHANGED <<position, injected, sinceLast, held, restoredID, chan, ended>>,
         UNCHANGED <<returned, mode, failed, succeeded>>, mode = "running",
         UNCHANGED <<epoch, firstEpoch, opened, written, pc, pending>>
  PROVE  Whole(level)'
<1>0. \A f : Covered(f)' = Covered(f)
  BY DEF Covered
<1>1. /\ \A x \in Sinks, f \in Epochs : x # s \/ f # e => staging'[x][f] = staging[x][f]
      /\ staging'[s][e] = NoFile
  BY DEF IInv, SinkTypes
<1>2. level[s] = restoredID /\ e \in Nat /\ written[s] = {}
  BY EpochNat DEF Whole, LeveledBy, IInv, WrittenExist
<1>3. ~Covered(e)
  BY <1>2, OpenIsUncovered
<1>4. \A x \in Sinks, f \in Epochs : x # s \/ f # e => current(x, f)' = current(x, f)
  BY <1>1 DEF current, staged
<1>5. CoveredKept
  <2>1. \A x \in Sinks, f \in Epochs : Covered(f) => x # s \/ f # e
    BY <1>3
  <2>. QED
    BY <1>4, <2>1 DEF CoveredKept
<1>6. \A x \in Sinks, f \in Epochs : staged(x, f)' => staged(x, f)
  BY <1>1 DEF staged
<1>7. LeveledBy(level)' /\ Remembered' /\ Returned(level)'
  BY DEF Whole, Accounts, LeveledBy, Remembered, Returned
<1>8. Settled(level)'
  BY <1>6 DEF Whole, OnDisk, Settled
<1>9. OwnFiles'
  <2>1. OwnFiles
    BY DEF Whole, OnDisk
  <2>. QED
    BY <1>0, <1>6, <2>1 DEF OwnFiles, copies
<1>10. FinalFiles'
  <2>1. FinalFiles
    BY DEF Whole, OnDisk
  <2>2. SUFFICES ASSUME NEW x \in Sinks, NEW f \in Epochs, NEW r \in Records,
                        copies(committed'[x][f], r) > 0, ~Covered(f)'
        PROVE  /\ f = 1 \/ Covered(f - 1)'
               /\ \A t \in Sinks, g \in Epochs : Covered(g)' => copies(current(t, g)', r) = 0
    BY DEF FinalFiles, copies
  <2>3. /\ f = 1 \/ Covered(f - 1)
        /\ \A t \in Sinks, g \in Epochs : Covered(g) => copies(current(t, g), r) = 0
    BY <1>0, <2>1, <2>2 DEF FinalFiles
  <2>. QED
    BY <1>0, <1>5, <2>3 DEF CoveredKept
<1>11. FileContents'
  <2>1. FileContents
    BY DEF Whole, OnDisk
  <2>2. SUFFICES ASSUME NEW x \in Sinks, NEW f \in Epochs, NEW r \in Records,
                        NEW g \in {staging'[x][f], committed'[x][f]}
        PROVE  copies(g, r) <= 1 /\ (copies(g, r) > 0 => x \in route(r))
    BY DEF FileContents, copies
  <2>3. g \in {staging[x][f], committed[x][f], NoFile}
    BY <1>1
  <2>4. copies(NoFile, r) = 0
    BY DEF copies
  <2>. QED
    BY <2>1, <2>3, <2>4 DEF FileContents
<1>12. \A k \in Epochs, r \in Records : Stored(k, r)' = Stored(k, r)
  <2>1. SUFFICES ASSUME NEW k \in Epochs, NEW r \in Records PROVE Stored(k, r)' = Stored(k, r)
    OBVIOUS
  <2>2. \A p \in Sinks \X Epochs : /\ p[1] \in Sinks /\ p[2] \in Epochs
                                   /\ p[1] = s /\ p[2] = e => ~(p[2] <= restoredID \/ p[2] \in written[p[1]])
    <3>1. restoredID \in Nat
      BY RunningFacts
    <3>. QED
      BY <1>2, <3>1
  <2>3. \A p \in Sinks \X Epochs : p[2] <= restoredID \/ p[2] \in written[p[1]] =>
          current(p[1], p[2])' = current(p[1], p[2])
    BY <1>4, <2>2
  <2>. QED
    BY <2>3 DEF Stored, copies
<1>. QED
  BY <1>5, <1>7, <1>8, <1>9, <1>10, <1>11, <1>12, DiskStepWhole

(* Restore commits what the checkpoint covers and removes the rest, file   *)
(* by file.                                                                *)
LEMMA SinkRestoringWhole ==
  ASSUME IInv, NEW level \in [Subtasks -> IDs \cup {0}], Whole(level), NEW s \in Sinks, SinkRestoring(s)
  PROVE  Whole(level)'
<1>1. /\ mode = "running" /\ pc[s] = "restore"
      /\ UNCHANGED <<status, acked, done, files, marker>>
      /\ UNCHANGED <<position, injected, sinceLast, held, restoredID, chan, ended>>
      /\ UNCHANGED <<returned, mode, failed, succeeded>> /\ pending' = pending
      /\ \/ \E e \in Epochs : SettleStaged(s, e, restoredID) /\ pc' = pc
         \/ Restored(s, restoredID) /\ pc' = [pc EXCEPT ![s] = "run"]
  <2>1. restorePayload(s) = restoredID
    BY PayloadIsRestored
  <2>. QED
    BY <2>1 DEF SinkRestoring, up, coordinator, memory, disk, sourceVars, flowVars, runVars
<1>2. restoredID \in Nat /\ level[s] = restoredID /\ written[s] = {} /\ ~opened[s]
  BY <1>1, RunningFacts DEF Whole, LeveledBy, IInv, WrittenExist
<1>3. CASE \E e \in Epochs : SettleStaged(s, e, restoredID) /\ pc' = pc
  <2>1. PICK e \in Epochs : SettleStaged(s, e, restoredID) /\ pc' = pc
    BY <1>3
  <2>2. UNCHANGED <<epoch, firstEpoch, opened, written>> /\ staged(s, e)
    BY <2>1 DEF SettleStaged, sinkMemory
  <2>3. CASE e > restoredID
    <3>1. staging' = [staging EXCEPT ![s][e] = NoFile] /\ committed' = committed
      BY <2>1, <2>3 DEF SettleStaged
    <3>. QED
      BY <1>1, <2>1, <2>2, <2>3, <3>1, RemovedWhole
  <2>4. CASE ~(e > restoredID)
    <3>1. Rename(s, e)
      BY <2>1, <2>4 DEF SettleStaged
    <3>2. e <= restoredID /\ e \in Nat /\ e >= 1
      BY <1>2, <2>4, EpochNat
    <3>3. Covered(e)
      <4>1. restoredID \in IDs /\ marker[restoredID]
        BY <1>2, <3>2 DEF IInv, RunTypes, RestoredIsMarked
      <4>. QED
        BY <1>2, <3>2, <4>1 DEF Covered
    <3>4. Remembered' /\ Returned(level)'
      BY <1>1, <2>1, <2>2 DEF Whole, Accounts, Remembered, Returned
    <3>. QED
      BY <1>1, <2>1, <2>2, <3>1, <3>2, <3>3, <3>4, RenameWhole
  <2>. QED
    BY <2>3, <2>4
<1>4. CASE Restored(s, restoredID) /\ pc' = [pc EXCEPT ![s] = "run"]
  <2>1. /\ \A e \in Epochs : ~staged(s, e)
        /\ staging' = staging /\ committed' = committed /\ opened' = opened
        /\ \A x \in Sinks : /\ x # s => epoch'[x] = epoch[x] /\ firstEpoch'[x] = firstEpoch[x] /\ pc'[x] = pc[x]
                            /\ x = s => epoch'[x] = restoredID + 1 /\ firstEpoch'[x] = restoredID + 1 /\ pc'[x] = "run"
                            /\ written'[x] = written[x]
    BY <1>2, <1>4 DEF Restored, sinkDisk, IInv, SinkTypes
  <2>2. LeveledBy(level)'
    BY <1>1, <1>2, <2>1 DEF Whole, LeveledBy
  <2>3. Remembered'
    <3>1. \A k \in IDs : ~(restoredID < k /\ k < restoredID + 1)
      BY <1>2, EpochNat
    <3>. QED
      BY <1>1, <2>1, <3>1 DEF Whole, Accounts, Remembered
  <2>4. Returned(level)'
    BY <1>1, <2>1 DEF Whole, Accounts, Returned
  <2>5. Settled(level)'
    BY <1>1, <2>1 DEF Whole, OnDisk, Settled, staged
  <2>6. OwnFiles'
    <3>1. OwnFiles
      BY DEF Whole, OnDisk
    <3>2. ASSUME NEW x \in Sinks
          PROVE  /\ firstEpoch'[x] <= restoredID' + 1
                 /\ opened'[x] => epoch'[x] \in written'[x]
                 /\ \A f \in written'[x] : /\ f > restoredID' /\ f <= epoch'[x]
                                           /\ f = epoch'[x] => opened'[x] \/ pc'[x] = "returned"
      BY <1>1, <1>2, <2>1, <3>1 DEF OwnFiles
    <3>3. ASSUME NEW x \in Sinks, NEW f \in Epochs, NEW r \in Records, copies(committed'[x][f], r) > 0
          PROVE  /\ f <= restoredID' \/ f \in written'[x] \/ (succeeded' /\ ~Covered(f)')
                 /\ staged(x, f)' => succeeded' /\ ~Covered(f)'
      <4>1. Covered(f)' = Covered(f) /\ staged(x, f)' = staged(x, f)
        BY <1>1, <2>1 DEF Covered, staged
      <4>. QED
        BY <1>1, <2>1, <3>1, <3>3, <4>1 DEF OwnFiles
    <3>. QED
      BY <3>2, <3>3 DEF OwnFiles, copies
  <2>7. FinalFiles' /\ FileContents'
    BY <1>1, <2>1 DEF Whole, OnDisk, FinalFiles, FileContents, Covered, current, staged, copies
  <2>8. \A x \in Sinks, e \in Epochs : current(x, e)' = current(x, e)
    BY <2>1 DEF current, staged
  <2>9. CoveredKept
    BY <2>8 DEF CoveredKept
  <2>10. \A k \in Epochs, r \in Records : Stored(k, r)' = Stored(k, r)
    BY <1>1, <2>1, <2>8 DEF Stored, copies
  <2>. QED
    BY <1>1, <2>2, <2>3, <2>4, <2>5, <2>6, <2>7, <2>9, <2>10, DiskStepWhole
<1>. QED
  BY <1>1, <1>3, <1>4

(* The process dies: an open file is torn or whole, in an epoch no         *)
(* checkpoint covers.                                                      *)
LEMMA CrashWhole ==
  ASSUME IInv, NEW level \in [Subtasks -> IDs \cup {0}], Whole(level), Crash
  PROVE  Whole(level)'
<1>1. PICK torn \in SUBSET {s \in Sinks : opened[s]} :
        staging' = [s \in Sinks |-> IF s \in torn THEN [staging[s] EXCEPT ![epoch[s]] = empty]
                                    ELSE staging[s]]
  BY DEF Crash
<1>2. /\ mode' = "down"
      /\ UNCHANGED <<status, acked, done, files, marker>>
      /\ UNCHANGED <<position, injected, sinceLast, held, restoredID, chan, ended>>
      /\ UNCHANGED <<returned, failed, pc, pending, succeeded>>
      /\ UNCHANGED <<epoch, firstEpoch, opened, written, committed>>
  BY DEF Crash, coordinator, memory, disk, sourceVars, flowVars, sinkVars, sinkMemory
<1>0. \A f : Covered(f)' = Covered(f)
  BY <1>2 DEF Covered
<1>3. SinkTypes /\ WrittenExist
  BY DEF IInv
<1>4. empty # NoFile /\ \A r \in Records : copies(empty, r) = 0
  BY JobAssumption DEF empty, copies
<1>5. ASSUME NEW x \in Sinks, NEW f \in Epochs
      PROVE  \/ staging'[x][f] = staging[x][f]
             \/ staging'[x][f] = empty /\ opened[x] /\ f = epoch[x]
  <2>1. CASE x \in torn
    <3>1. staging'[x] = [staging[x] EXCEPT ![epoch[x]] = empty] /\ opened[x]
      BY <1>1, <2>1
    <3>. QED
      BY <1>3, <3>1 DEF SinkTypes
  <2>2. CASE x \notin torn
    BY <1>1, <2>2
  <2>. QED
    BY <2>1, <2>2
<1>6. ASSUME NEW x \in Sinks, opened[x] PROVE staged(x, epoch[x]) /\ ~Covered(epoch[x])
  <2>1. pc[x] \notin {"restore", "returned"} /\ staged(x, epoch[x])
    BY <1>3, <1>6 DEF WrittenExist
  <2>2. epoch[x] = level[x] + 1 /\ level[x] \in Nat
    BY <2>1, LevelNat, KindsOfSubtasks DEF Whole, LeveledBy
  <2>. QED
    BY <2>1, <2>2, OpenIsUncovered
<1>7. \A x \in Sinks, f \in Epochs : staged(x, f)' = staged(x, f)
  BY <1>4, <1>5, <1>6 DEF staged
<1>8. CoveredKept
  BY <1>2, <1>5, <1>6, <1>7 DEF CoveredKept, current
<1>9. /\ Counted(level)' /\ DoneAt' /\ MarkedPassed(level)' /\ Budgeted(level)'
      /\ PacedSources' /\ PacedFiles' /\ Blamed' /\ StateContents'
  BY <1>2, SinkStepKeeps
<1>10. LeveledBy(level)' /\ Ends(level)' /\ ChannelContents' /\ Remembered'
  BY <1>2 DEF Whole, Accounts, OnDisk, LeveledBy, Ends, ChannelContents, Remembered
<1>11. SuccessMarked' /\ Returned(level)'
  BY <1>2 DEF Whole, Accounts, SuccessMarked, Covered, Returned
<1>12. Settled(level)'
  BY <1>2, <1>7 DEF Whole, OnDisk, Settled
<1>13. OwnFiles'
  <2>1. OwnFiles
    BY DEF Whole, OnDisk
  <2>. QED
    BY <1>0, <1>2, <1>7, <2>1 DEF OwnFiles, copies
<1>14. FinalFiles'
  <2>1. FinalFiles
    BY DEF Whole, OnDisk
  <2>2. SUFFICES ASSUME NEW x \in Sinks, NEW f \in Epochs, NEW r \in Records,
                        copies(committed'[x][f], r) > 0, ~Covered(f)'
        PROVE  /\ f = 1 \/ Covered(f - 1)'
               /\ \A t \in Sinks, g \in Epochs : Covered(g)' => copies(current(t, g)', r) = 0
    BY DEF FinalFiles, copies
  <2>3. /\ f = 1 \/ Covered(f - 1)
        /\ \A t \in Sinks, g \in Epochs : Covered(g) => copies(current(t, g), r) = 0
    BY <1>0, <1>2, <2>1, <2>2 DEF FinalFiles
  <2>. QED
    BY <1>0, <1>8, <2>3 DEF CoveredKept
<1>15. FileContents'
  <2>1. FileContents
    BY DEF Whole, OnDisk
  <2>2. SUFFICES ASSUME NEW x \in Sinks, NEW f \in Epochs, NEW r \in Records,
                        NEW g \in {staging'[x][f], committed'[x][f]}
        PROVE  copies(g, r) <= 1 /\ (copies(g, r) > 0 => x \in route(r))
    BY DEF FileContents, copies
  <2>3. g \in {staging[x][f], committed[x][f], empty}
    BY <1>2, <1>5
  <2>. QED
    BY <1>4, <2>1, <2>3 DEF FileContents
<1>16. RunCuts(level)'
  BY <1>2 DEF RunCuts
<1>17. MarkedCuts'
  <2>1. \A k \in IDs : marker'[k] /\ ~marker[k] => \A r \in Records : MarkedCut(files[k], k, r)'
    BY <1>2
  <2>2. MarkedCuts /\ Grows
    BY <1>2 DEF Whole, Cuts, Grows
  <2>. QED
    BY <1>8, <2>1, <2>2, MarkedCutsStay
<1>. QED
  BY <1>9, <1>10, <1>11, <1>12, <1>13, <1>14, <1>15, <1>16, <1>17 DEF Whole, Accounts, OnDisk, Cuts

(* The job starts again: the cut of the checkpoint becomes the state of    *)
(* the run, and every checkpoint to come starts out from it.               *)
LEMMA RestartWhole ==
  ASSUME IInv, IInv', NEW level \in [Subtasks -> IDs \cup {0}], Whole(level), Restart
  PROVE  \E nlv \in [Subtasks -> IDs \cup {0}] : Whole(nlv)'
<1>0. PICK n : n = Latest
  OBVIOUS
<1>1. /\ mode' = "running" /\ failed' = FALSE /\ restoredID' = n
      /\ status' = [k \in IDs |-> "unknown"] /\ acked' = [k \in IDs |-> {}]
      /\ done' = [s \in Subtasks |-> NoFile]
      /\ files' = files /\ marker' = marker
  BY <1>0 DEF Restart, fresh, disk
<1>2. /\ position' = [s \in Sources |-> IF n = 0 THEN 0 ELSE files[n][s]]
      /\ injected' = [s \in Sources |-> n] /\ sinceLast' = [s \in Sources |-> 0]
      /\ chan' = [e \in Edges |-> << >>] /\ ended' = [s \in Subtasks |-> {}] /\ returned' = {}
      /\ held' = [o \in Operators |-> IF n = 0 THEN {} ELSE files[n][o]]
  BY <1>0 DEF Restart
<1>3. /\ pc' = [s \in Sinks |-> "restore"] /\ pending' = [s \in Sinks |-> {}]
      /\ epoch' = [s \in Sinks |-> 1] /\ firstEpoch' = [s \in Sinks |-> 1]
      /\ opened' = [s \in Sinks |-> FALSE] /\ written' = [s \in Sinks |-> {}]
      /\ staging' = staging /\ committed' = committed /\ succeeded' = succeeded
  BY DEF Restart, newSink, sinkDisk
<1>5. n \in IDs \cup {0} /\ n \in Nat /\ (n # 0 => marker[n]) /\ \A k \in IDs : marker[k] => k <= n
  <2>1. /\ Latest \in IDs \cup {0} /\ (Latest # 0 => marker[Latest])
        /\ \A k \in IDs : marker[k] => k <= Latest
    BY LatestIs
  <2>. HIDE DEF Latest
  <2>. QED
    BY <1>0, <2>1, Numbers
<1>6. PICK nlv \in [Subtasks -> IDs \cup {0}] : nlv = [x \in Subtasks |-> n]
  BY <1>5
<1>7. /\ \A x \in Subtasks : nlv[x] = n
      /\ \A k \in IDs : ~terminal(k)' /\ acked'[k] = {} /\ status'[k] = "unknown"
      /\ \A s \in Sinks : pc'[s] = "restore" /\ pending'[s] = {} /\ epoch'[s] = 1 /\ firstEpoch'[s] = 1
                          /\ opened'[s] = FALSE /\ written'[s] = {}
      /\ \A s \in Sources : injected'[s] = n /\ sinceLast'[s] = 0 /\ done'[s] = NoFile
                            /\ position'[s] = IF n = 0 THEN 0 ELSE files[n][s]
      /\ \A o \in Operators : held'[o] = IF n = 0 THEN {} ELSE files[n][o]
      /\ \A e \in Edges : chan'[e] = << >>
      /\ \A s \in Subtasks : ended'[s] = {}
  BY <1>1, <1>2, <1>3, <1>6, ShapeAssumption DEF terminal
<1>8. LeveledBy(nlv)'
  <2>1. Leveled(chan', ended', [s \in Subtasks |-> n])
    BY <1>2, <1>5, StartsLevel
  <2>. QED
    BY <1>1, <1>5, <1>6, <1>7, <2>1, KindsOfSubtasks DEF LeveledBy
<1>9. Counted(nlv)'
  BY <1>1, <1>5, <1>7, EpochNat DEF Counted
<1>10. Ends(nlv)' /\ ChannelContents'
  <2>1. \A e \in Edges : e[1] \in Subtasks /\ e[2] \in Subtasks /\ Len(chan'[e]) = 0
    BY <1>7, EdgeIs
  <2>2. \A e \in Edges : 1..Len(chan'[e]) = {}
    BY <2>1
  <2>. QED
    BY <1>7, <2>1, <2>2 DEF Ends, ChannelContents
<1>11. DoneAt'
  BY <1>7 DEF DoneAt
<1>12. MarkedPassed(nlv)'
  BY <1>1, <1>5, <1>7, KindsOfSubtasks DEF MarkedPassed
<1>13. Budgeted(nlv)'
  BY <1>1, <1>7 DEF Budgeted
<1>14. PacedSources'
  <2>1. PacedFiles
    BY DEF Whole, Accounts
  <2>2. SUFFICES ASSUME NEW s \in Sources, n < maxBarriers(s) PROVE position'[s] = n * Interval[s] + 0
    BY <1>7 DEF PacedSources, maxBarriers
  <2>3. Interval[s] \in Nat /\ maxBarriers(s) \in Nat
    BY JobAssumption, Numbers
  <2>4. CASE n = 0
    BY <1>7, <2>3, <2>4
  <2>5. CASE n # 0
    <3>1. n \in IDs /\ marker[n] /\ n <= maxBarriers(s)
      BY <1>5, <2>2, <2>3, <2>5
    <3>2. files[n][s] = n * Interval[s]
      BY <2>1, <3>1 DEF PacedFiles, Recorded
    <3>3. n * Interval[s] \in Nat
      BY <1>5, <2>3
    <3>. QED
      BY <1>7, <2>5, <3>2, <3>3
  <2>. QED
    BY <2>4, <2>5
<1>15. \A k \in IDs, x \in Subtasks : Recorded(k, x)' => Recorded(k, x)
  BY <1>1, <1>7 DEF Recorded
<1>16. PacedFiles'
  <2>1. PacedFiles
    BY DEF Whole, Accounts
  <2>. QED
    BY <1>1, <1>15, <2>1, KindsOfSubtasks DEF PacedFiles, maxBarriers
<1>17. SuccessMarked'
  <2>1. SuccessMarked
    BY DEF Whole, Accounts
  <2>2. \A e : Covered(e)' = Covered(e)
    BY <1>1 DEF Covered
  <2>3. ASSUME NEW s \in Sources, maxBarriers(s) = 0 \/ Covered(maxBarriers(s)) PROVE maxBarriers(s) <= n
    <3>1. maxBarriers(s) \in Nat
      BY JobAssumption, Numbers
    <3>2. CASE maxBarriers(s) = 0
      BY <1>5, <3>2
    <3>3. CASE Covered(maxBarriers(s))
      <4>1. PICK k \in IDs : k >= maxBarriers(s) /\ marker[k]
        BY <3>3 DEF Covered
      <4>. QED
        BY <1>5, <3>1, <4>1, Numbers
    <3>. QED
      BY <2>3, <3>2, <3>3
  <2>4. \A s \in Sources : maxBarriers(s)' = maxBarriers(s)
    BY DEF maxBarriers
  <2>. QED
    BY <1>1, <1>3, <2>1, <2>2, <2>3, <2>4 DEF SuccessMarked
<1>18. Blamed' /\ Remembered'
  BY <1>1, <1>5, <1>7, EpochNat DEF Blamed, Remembered
<1>19. Returned(nlv)'
  BY <1>1, <1>2, <1>7 DEF Returned
<1>20. Settled(nlv)'
  BY <1>1, <1>7, KindsOfSubtasks DEF Settled
<1>21. OwnFiles'
  <2>1. OwnFiles /\ CommittedIsCovered
    BY DEF Whole, OnDisk, IInv
  <2>2. ASSUME NEW x \in Sinks
        PROVE  /\ firstEpoch'[x] <= restoredID' + 1
               /\ opened'[x] => epoch'[x] \in written'[x]
               /\ \A f \in written'[x] : /\ f > restoredID' /\ f <= epoch'[x]
                                         /\ f = epoch'[x] => opened'[x] \/ pc'[x] = "returned"
    BY <1>1, <1>5, <1>7
  <2>3. ASSUME NEW x \in Sinks, NEW f \in Epochs, NEW r \in Records, copies(committed'[x][f], r) > 0
        PROVE  /\ f <= restoredID' \/ f \in written'[x] \/ (succeeded' /\ ~Covered(f)')
               /\ staged(x, f)' => succeeded' /\ ~Covered(f)'
    <3>1. Covered(f)' = Covered(f) /\ staged(x, f)' = staged(x, f)
      BY <1>1, <1>3 DEF Covered, staged
    <3>2. copies(committed[x][f], r) > 0 /\ committed[x][f] # NoFile
      BY <1>3, <2>3 DEF copies
    <3>3. staged(x, f) => succeeded /\ ~Covered(f)
      BY <2>1, <3>2 DEF OwnFiles
    <3>4. succeeded \/ Covered(f)
      BY <2>1, <3>2 DEF CommittedIsCovered, Covered
    <3>5. Covered(f) => f <= n
      <4>1. SUFFICES ASSUME NEW k \in IDs, k >= f, marker[k] PROVE f <= n
        BY DEF Covered
      <4>. QED
        BY <1>5, <4>1, EpochNat
    <3>. QED
      BY <1>1, <1>3, <3>1, <3>3, <3>4, <3>5
  <2>. QED
    BY <2>2, <2>3 DEF OwnFiles, copies
<1>22. FinalFiles' /\ FileContents'
  BY <1>1, <1>3 DEF Whole, OnDisk, FinalFiles, FileContents, Covered, current, staged, copies
<1>23. StateContents'
  <2>1. StateContents
    BY DEF Whole, OnDisk
  <2>2. \A k \in IDs, o \in Operators : Recorded(k, o)' => \A r \in files'[k][o] : o \in route(r)
    BY <1>1, <1>15, <2>1, KindsOfSubtasks DEF StateContents
  <2>3. \A o \in Operators : \A r \in held'[o] : o \in route(r)
    <3>1. CASE n = 0
      BY <1>7, <3>1
    <3>2. CASE n # 0
      <4>1. n \in IDs /\ marker[n]
        BY <1>5, <3>2
      <4>. QED
        BY <1>7, <2>1, <3>2, <4>1 DEF StateContents, Recorded
    <3>. QED
      BY <3>1, <3>2
  <2>. QED
    BY <2>2, <2>3 DEF StateContents
<1>24. MarkedCuts'
  BY <1>1, <1>3, FilesSame DEF Whole, Cuts, MarkedCuts, MarkedCut
<1>25. RunCuts(nlv)'
  <2>1. SUFFICES ASSUME NEW k \in Epochs, Open(k)', NEW r \in Records PROVE RunCut(nlv, k, r)'
    BY DEF RunCuts
  <2>2. k > n /\ k \in Nat
    BY <1>1, <2>1, EpochNat DEF Open
  <2>3. \A x \in Subtasks : /\ x \in Sources => snapshot(nlv, k, x)' = IF n = 0 THEN 0 ELSE files[n][x]
                            /\ x \in Operators => snapshot(nlv, k, x)' = IF n = 0 THEN {} ELSE files[n][x]
    BY <1>5, <1>7, <2>2, KindsOfSubtasks DEF snapshot
  <2>4. r[1] \in Sources /\ r[1] \in Subtasks /\ r[2] \in Nat /\ r[2] >= 1
    BY RecordIs
  <2>5. OnTheWay(chan', nlv, k, r) = {}
    <3>1. \A e \in Edges : ahead(chan'[e], k, r) = {}
      BY <1>7 DEF ahead
    <3>. QED
      BY <3>1 DEF OnTheWay
  <2>. DEFINE E == r[2] <= (IF n = 0 THEN 0 ELSE files[n][r[1]])
              X == {o \in Operators : r \in (IF n = 0 THEN {} ELSE files[n][o])}
              Z == Kept(n, r)
  <2>6. {o \in Operators : r \in snapshot(nlv, k, o)'} = X
    BY <2>3, KindsOfSubtasks
  <2>7. (r[2] <= snapshot(nlv, k, r[1])') = E
    BY <2>3, <2>4
  <2>8. Stored(k, r)' = Z
    <3>1. \A p \in Sinks \X Epochs : /\ p[1] \in Sinks /\ p[2] \in Epochs /\ p[2] \in Nat
                                     /\ current(p[1], p[2])' = current(p[1], p[2]) /\ written'[p[1]] = {}
      BY <1>3, <1>7, EpochNat DEF current, staged
    <3>2. Stored(k, r)' = {p \in Sinks \X Epochs : /\ p[2] <= k /\ (p[2] <= n \/ p[2] \in written'[p[1]])
                                                   /\ copies(current(p[1], p[2])', r) > 0}
      BY <1>1 DEF Stored, copies
    <3>. QED
      BY <1>5, <2>2, <3>1, <3>2 DEF Kept
  <2>9. OnePlace(E, X, {}, Z)
    <3>1. CASE n = 0
      <4>1. E = FALSE /\ X = {}
        BY <2>4, <3>1
      <4>2. Z = {}
        <5>1. \A p \in Sinks \X Epochs : p[2] \in Epochs
          OBVIOUS
        <5>2. \A p \in Sinks \X Epochs : ~(p[2] <= n)
          BY <3>1, <5>1, EpochNat
        <5>. QED
          BY <5>2 DEF Kept
      <4>. QED
        BY <4>1, <4>2 DEF OnePlace, AtMostOne
    <3>2. CASE n # 0
      <4>1. n \in IDs /\ marker[n]
        BY <1>5, <3>2
      <4>2. MarkedCut(files[n], n, r)
        BY <4>1 DEF Whole, Cuts, MarkedCuts
      <4>. QED
        BY <3>2, <4>2 DEF MarkedCut
    <3>. QED
      BY <3>1, <3>2
  <2>. HIDE DEF E, X, Z
  <2>10. RunCut(nlv, k, r)' = OnePlace(r[2] <= snapshot(nlv, k, r[1])', {o \in Operators : r \in snapshot(nlv, k, o)'},
                                       OnTheWay(chan', nlv, k, r), Stored(k, r)')
    BY DEF RunCut
  <2>. QED
    BY <2>5, <2>6, <2>7, <2>8, <2>9, <2>10
<1>26. Accounts(nlv)'
  BY <1>9, <1>10, <1>11, <1>12, <1>13, <1>14, <1>16, <1>17, <1>18, <1>19 DEF Accounts
<1>27. OnDisk(nlv)'
  BY <1>10, <1>20, <1>21, <1>22, <1>23 DEF OnDisk
<1>. QED
  BY <1>8, <1>24, <1>25, <1>26, <1>27 DEF Whole, Cuts

-----------------------------------------------------------------------------
(* The invariant, and what follows from it. *)

(* At first every record is ahead of its source. *)
LEMMA InitWhole == Init => JInv
<1>. SUFFICES ASSUME Init PROVE JInv
  OBVIOUS
<1>1. /\ mode = "running" /\ failed = FALSE /\ restoredID = 0 /\ succeeded = FALSE
      /\ status = [k \in IDs |-> "unknown"] /\ acked = [k \in IDs |-> {}]
      /\ done = [s \in Subtasks |-> NoFile] /\ marker = [k \in IDs |-> FALSE]
  BY DEF Init, CoordinatorInit, fresh
<1>2. /\ position = [s \in Sources |-> 0]
      /\ injected = [s \in Sources |-> 0] /\ sinceLast = [s \in Sources |-> 0]
      /\ chan = [e \in Edges |-> << >>] /\ ended = [s \in Subtasks |-> {}] /\ returned = {}
      /\ held = [o \in Operators |-> {}]
  BY DEF Init
<1>3. /\ pc = [s \in Sinks |-> "restore"] /\ pending = [s \in Sinks |-> {}]
      /\ epoch = [s \in Sinks |-> 1] /\ firstEpoch = [s \in Sinks |-> 1]
      /\ opened = [s \in Sinks |-> FALSE] /\ written = [s \in Sinks |-> {}]
      /\ staging = [s \in Sinks |-> [e \in Epochs |-> NoFile]]
      /\ committed = [s \in Sinks |-> [e \in Epochs |-> NoFile]]
  BY DEF Init, SinkInit, newSink, noFiles
<1>4. PICK level \in [Subtasks -> IDs \cup {0}] : level = [x \in Subtasks |-> 0]
  OBVIOUS
<1>5. /\ \A x \in Subtasks : level[x] = 0
      /\ \A k \in IDs : ~terminal(k) /\ acked[k] = {} /\ status[k] = "unknown" /\ marker[k] = FALSE
      /\ \A s \in Sinks : pc[s] = "restore" /\ pending[s] = {} /\ epoch[s] = 1 /\ firstEpoch[s] = 1
                          /\ opened[s] = FALSE /\ written[s] = {}
      /\ \A s \in Sinks, e \in Epochs : ~staged(s, e) /\ staging[s][e] = NoFile /\ committed[s][e] = NoFile
      /\ \A s \in Sources : injected[s] = 0 /\ sinceLast[s] = 0 /\ done[s] = NoFile /\ position[s] = 0
      /\ \A o \in Operators : held[o] = {}
      /\ \A e \in Edges : chan[e] = << >>
      /\ \A s \in Subtasks : ended[s] = {}
  BY <1>1, <1>2, <1>3, <1>4, ShapeAssumption DEF terminal, staged
<1>6. \A r : copies(NoFile, r) = 0
  BY DEF copies
<1>7. LeveledBy(level)
  <2>1. Leveled(chan, ended, [s \in Subtasks |-> 0])
    BY <1>2, StartsLevel
  <2>. QED
    BY <1>1, <1>4, <1>5, <2>1, KindsOfSubtasks DEF LeveledBy
<1>8. Counted(level) /\ DoneAt /\ MarkedPassed(level) /\ Budgeted(level) /\ PacedFiles /\ SuccessMarked /\ Blamed
  <2>1. Counted(level)
    BY <1>1, <1>5, EpochNat DEF Counted
  <2>2. DoneAt /\ MarkedPassed(level) /\ Budgeted(level)
    BY <1>1, <1>5 DEF DoneAt, MarkedPassed, Budgeted
  <2>3. PacedFiles /\ SuccessMarked /\ Blamed
    BY <1>1, <1>5, KindsOfSubtasks DEF PacedFiles, Recorded, SuccessMarked, Blamed
  <2>. QED
    BY <2>1, <2>2, <2>3
<1>9. PacedSources
  <2>1. \A s \in Sources : Interval[s] \in Nat
    BY JobAssumption
  <2>. QED
    BY <1>5, <2>1 DEF PacedSources
<1>10. Ends(level) /\ ChannelContents
  <2>1. \A e \in Edges : e[1] \in Subtasks /\ e[2] \in Subtasks /\ Len(chan[e]) = 0
    BY <1>5, EdgeIs
  <2>2. \A e \in Edges : 1..Len(chan[e]) = {}
    BY <2>1
  <2>. QED
    BY <1>5, <2>1, <2>2 DEF Ends, ChannelContents
<1>11. Remembered /\ Returned(level)
  <2>1. Remembered
    BY <1>1, <1>5, EpochNat DEF Remembered
  <2>. QED
    BY <1>1, <1>2, <1>5, <2>1 DEF Returned
<1>12. Settled(level) /\ OwnFiles /\ FinalFiles /\ FileContents
  <2>1. Settled(level)
    BY <1>5 DEF Settled
  <2>2. OwnFiles
    BY <1>1, <1>5, <1>6 DEF OwnFiles
  <2>3. FinalFiles
    BY <1>5, <1>6 DEF FinalFiles
  <2>4. FileContents
    BY <1>5, <1>6 DEF FileContents
  <2>. QED
    BY <2>1, <2>2, <2>3, <2>4
<1>13. StateContents
  BY <1>5, KindsOfSubtasks DEF StateContents, Recorded
<1>14. MarkedCuts
  BY <1>5 DEF MarkedCuts
<1>15. RunCuts(level)
  <2>1. SUFFICES ASSUME NEW k \in Epochs, NEW r \in Records PROVE RunCut(level, k, r)
    BY DEF RunCuts
  <2>2. k > 0 /\ k \in Nat
    BY EpochNat
  <2>3. r[1] \in Sources /\ r[1] \in Subtasks /\ r[2] \in Nat /\ r[2] >= 1
    BY RecordIs
  <2>4. snapshot(level, k, r[1]) = 0 /\ \A o \in Operators : snapshot(level, k, o) = {}
    BY <1>5, <2>2, <2>3, KindsOfSubtasks DEF snapshot
  <2>5. OnTheWay(chan, level, k, r) = {}
    <3>1. \A e \in Edges : ahead(chan[e], k, r) = {}
      BY <1>5 DEF ahead
    <3>. QED
      BY <3>1 DEF OnTheWay
  <2>6. Stored(k, r) = {}
    <3>1. \A p \in Sinks \X Epochs : copies(current(p[1], p[2]), r) = 0
      BY <1>5, <1>6 DEF current
    <3>. QED
      BY <3>1 DEF Stored
  <2>. DEFINE E == r[2] <= snapshot(level, k, r[1])
              X == {o \in Operators : r \in snapshot(level, k, o)}
  <2>7. ~E /\ X = {}
    BY <2>3, <2>4
  <2>. HIDE DEF E, X
  <2>8. OnePlace(E, X, {}, {})
    BY <2>7 DEF OnePlace, AtMostOne
  <2>. QED
    BY <2>5, <2>6, <2>8 DEF RunCut, E, X
<1>. QED
  BY <1>7, <1>8, <1>9, <1>10, <1>11, <1>12, <1>13, <1>14, <1>15 DEF JInv, Whole, Accounts, OnDisk, Cuts

(* Nothing changes. *)
LEMMA StutterWhole ==
  ASSUME NEW level, Whole(level), UNCHANGED vars
  PROVE  Whole(level)'
<1>1. /\ UNCHANGED <<status, acked, done, files, marker>>
      /\ UNCHANGED <<position, injected, sinceLast, held, restoredID, chan, ended>>
      /\ UNCHANGED <<returned, failed, pc, pending, mode, succeeded>>
      /\ UNCHANGED <<epoch, firstEpoch, opened, written, staging, committed>>
  BY DEF vars, coordinator, memory, disk, sourceVars, flowVars, sinkVars, sink, sinkMemory, sinkDisk, runVars
<1>2. CASE mode # "down"
  <2>1. SuccessMarked' /\ Returned(level)'
    BY <1>1 DEF Whole, Accounts, SuccessMarked, Returned, Covered, leftStaged, staged
  <2>. QED
    BY <1>1, <1>2, <2>1, ModeWhole
<1>3. CASE mode = "down"
  <2>1. SuccessMarked' /\ Returned(level)' /\ Remembered' /\ LeveledBy(level)' /\ Ends(level)' /\ ChannelContents'
    BY <1>1, <1>3 DEF Whole, Accounts, OnDisk, SuccessMarked, Returned, Covered, Remembered, LeveledBy, Ends,
       ChannelContents
  <2>2. Settled(level)' /\ FinalFiles' /\ FileContents'
    BY <1>1 DEF Whole, OnDisk, Settled, FinalFiles, FileContents, Covered, current, staged, copies
  <2>3. OwnFiles'
    BY <1>1 DEF Whole, OnDisk, OwnFiles, Covered, staged, copies
  <2>4. CoveredKept
    BY <1>1 DEF CoveredKept, current, staged
  <2>5. \A k \in Epochs, r \in Records : Stored(k, r)' = Stored(k, r)
    BY <1>1, FilesSame
  <2>. QED
    BY <1>1, <2>1, <2>2, <2>3, <2>4, <2>5, DiskStepWhole
<1>. QED
  BY <1>2, <1>3

(* One case for each action. *)
LEMMA StepWhole ==
  ASSUME IInv, IInv', JInv, [Next]_vars
  PROVE  JInv'
<1>0. PICK level \in [Subtasks -> IDs \cup {0}] : Whole(level)
  BY DEF JInv
<1>. DEFINE P == \E nlv \in [Subtasks -> IDs \cup {0}] : Whole(nlv)'
<1>8. Whole(level)' => P
  OBVIOUS
<1>9. P => JInv'
  BY DEF JInv
<1>. HIDE DEF P
<1>1. ASSUME NEW s \in Sources, SourceStep(s) PROVE P
  <2>1. ASSUME SourceBarrier(s) PROVE P
    BY <1>0, <1>1, <2>1, SourceBarrierWhole DEF P
  <2>2. ASSUME SourceRecord(s) PROVE P
    BY <1>0, <1>1, <1>8, <2>2, SourceRecordWhole
  <2>3. ASSUME SourceEnd(s) PROVE P
    BY <1>0, <1>1, <1>8, <2>3, SourceEndWhole
  <2>. QED
    BY <1>1, <2>1, <2>2, <2>3 DEF SourceStep
<1>2. ASSUME NEW o \in Operators, OperatorStep(o) PROVE P
  <2>1. o \in Subtasks /\ o \notin Sinks
    BY KindsOfSubtasks
  <2>2. ASSUME NEW u \in Up[o], OperatorRecord(o, u) PROVE P
    BY <1>0, <1>8, <2>2, OperatorRecordWhole
  <2>3. ASSUME NEW u \in Up[o], InputEnds(o, u) PROVE P
    BY <1>0, <1>8, <2>1, <2>3, InputEndsWhole
  <2>4. ASSUME NEW k \in IDs, OperatorBarrier(o, k) PROVE P
    BY <1>0, <2>4, OperatorBarrierWhole DEF P
  <2>5. ASSUME OperatorFires(o) PROVE P
    BY <1>0, <1>8, <2>5, OperatorFiresWhole
  <2>6. ASSUME OperatorEnd(o) PROVE P
    BY <1>0, <1>8, <2>6, OperatorEndWhole
  <2>. QED
    BY <1>2, <2>2, <2>3, <2>4, <2>5, <2>6 DEF OperatorStep
<1>3. ASSUME NEW s \in Sinks, SinkStep(s) PROVE P
  <2>1. s \in Subtasks
    BY KindsOfSubtasks
  <2>2. ASSUME NEW u \in Up[s], SinkRecord(s, u) PROVE P
    BY <1>0, <1>8, <2>2, SinkRecordWhole
  <2>3. ASSUME NEW u \in Up[s], pc[s] = "run", InputEnds(s, u) PROVE P
    BY <1>0, <1>8, <2>1, <2>3, InputEndsWhole
  <2>4. ASSUME NEW k \in IDs, SinkBarrier(s, k) PROVE P
    BY <1>0, <2>4, SinkBarrierWhole DEF P
  <2>5. ASSUME SinkRestoring(s) \/ SinkAsks(s) \/ SinkNotify(s) PROVE P
    BY <1>0, <1>8, <2>5, SinkRestoringWhole, SinkAsksWhole, SinkNotifyWhole
  <2>6. ASSUME SinkNotified(s) \/ SinkEnd(s) PROVE P
    BY <1>0, <1>8, <2>6, SinkNotifiedWhole, SinkEndWhole
  <2>. QED
    BY <1>3, <2>2, <2>3, <2>4, <2>5, <2>6 DEF SinkStep
<1>4. ASSUME ExecutorStep PROVE P
  <2>1. ASSUME TornDown \/ AllReturned \/ JobSucceeds PROVE P
    BY <1>0, <1>8, <2>1, TornDownWhole, AllReturnedWhole, JobSucceedsWhole
  <2>2. ASSUME Restart PROVE P
    BY <1>0, <2>2, RestartWhole DEF P
  <2>3. ASSUME NEW s \in Sinks, CommitFinal(s) PROVE P
    BY <1>0, <1>8, <2>3, CommitFinalWhole
  <2>. QED
    BY <1>4, <2>1, <2>2, <2>3 DEF ExecutorStep
<1>5. ASSUME NEW s \in Subtasks, SubtaskFails(s) PROVE P
  BY <1>0, <1>5, <1>8, SubtaskFailsWhole
<1>6. ASSUME Crash PROVE P
  BY <1>0, <1>6, <1>8, CrashWhole
<1>7. ASSUME Succeeded \/ UNCHANGED vars PROVE P
  BY <1>0, <1>7, <1>8, StutterWhole DEF Succeeded
<1>. QED
  BY <1>1, <1>2, <1>3, <1>4, <1>5, <1>6, <1>7, <1>9 DEF Next

(* Both invariants hold throughout. *)
LEMMA JInvAlways == Spec => [](IInv /\ JInv)
<1>1. Init => JInv
  BY InitWhole
<1>2. IInv /\ IInv' /\ JInv /\ [Next]_vars => JInv'
  BY StepWhole
<1>3. Spec => []IInv
  BY IInvAlways
<1>. QED
  BY <1>1, <1>2, <1>3, PTL DEF Spec

(* A record of a covered file is under one of its two names only. *)
LEMMA CoveredIsCurrent ==
  ASSUME IInv, JInv, NEW s \in Sinks, NEW e \in Epochs, Covered(e), NEW r \in Records,
         copies(committed[s][e], r) > 0
  PROVE  ~staged(s, e) /\ current(s, e) = committed[s][e]
<1>1. OwnFiles
  BY DEF JInv, Whole, OnDisk
<1>2. ~staged(s, e)
  BY <1>1 DEF OwnFiles
<1>. QED
  BY <1>2 DEF current

(* A record is in one committed file. *)
LEMMA CommittedOnce ==
  ASSUME IInv, JInv, NEW r \in Records, NEW s \in Sinks, NEW e \in Epochs, copies(committed[s][e], r) > 0,
         NEW t \in Sinks, NEW f \in Epochs, copies(committed[t][f], r) > 0
  PROVE  s = t /\ e = f
<1>1. FileContents /\ FinalFiles /\ MarkedCuts
  BY DEF JInv, Whole, OnDisk, Cuts
<1>2. s = t
  <2>1. s \in route(r) /\ t \in route(r)
    BY <1>1 DEF FileContents
  <2>. QED
    BY <2>1, RouteIs
<1>3. e \in Nat /\ f \in Nat /\ \A k \in IDs : k \in Nat
  BY EpochNat
<1>4. CASE Covered(e) /\ Covered(f)
  <2>1. PICK j \in IDs : j >= e /\ marker[j]
    BY <1>4 DEF Covered
  <2>2. PICK k \in IDs : k >= f /\ marker[k]
    BY <1>4 DEF Covered
  <2>3. PICK m \in IDs : m >= e /\ m >= f /\ marker[m]
    <3>1. CASE j >= k
      <4>1. j >= f
        BY <1>3, <2>1, <2>2, <3>1
      <4>. QED
        BY <2>1, <4>1
    <3>2. CASE ~(j >= k)
      <4>1. k >= e
        BY <1>3, <2>1, <2>2, <3>2
      <4>. QED
        BY <2>2, <4>1
    <3>. QED
      BY <3>1, <3>2
  <2>4. copies(current(s, e), r) > 0 /\ copies(current(t, f), r) > 0
    BY <1>4, CoveredIsCurrent
  <2>5. <<s, e>> \in Kept(m, r) /\ <<t, f>> \in Kept(m, r)
    BY <1>3, <2>3, <2>4 DEF Kept
  <2>6. AtMostOne(Kept(m, r))
    BY <1>1, <2>3 DEF MarkedCuts, MarkedCut, OnePlace
  <2>7. <<s, e>> = <<t, f>>
    BY <2>5, <2>6 DEF AtMostOne
  <2>. QED
    BY <2>7
<1>5. CASE ~Covered(e) /\ Covered(f)
  <2>1. copies(current(t, f), r) = 0
    BY <1>1, <1>5 DEF FinalFiles
  <2>2. current(t, f) = committed[t][f]
    BY <1>5, CoveredIsCurrent
  <2>. QED
    BY <2>1, <2>2
<1>6. CASE Covered(e) /\ ~Covered(f)
  <2>1. copies(current(s, e), r) = 0
    BY <1>1, <1>6 DEF FinalFiles
  <2>2. current(s, e) = committed[s][e]
    BY <1>6, CoveredIsCurrent
  <2>. QED
    BY <2>1, <2>2
<1>7. CASE ~Covered(e) /\ ~Covered(f)
  <2>1. (e = 1 \/ Covered(e - 1)) /\ (f = 1 \/ Covered(f - 1))
    BY <1>1, <1>7 DEF FinalFiles
  <2>2. ~(e < f)
    <3>1. SUFFICES ASSUME e < f PROVE FALSE
      OBVIOUS
    <3>2. PICK k \in IDs : k >= f - 1 /\ marker[k]
      BY <1>3, <2>1, <3>1, EpochNat DEF Covered
    <3>. QED
      BY <1>3, <1>7, <3>1, <3>2 DEF Covered
  <2>3. ~(f < e)
    <3>1. SUFFICES ASSUME f < e PROVE FALSE
      OBVIOUS
    <3>2. PICK k \in IDs : k >= e - 1 /\ marker[k]
      BY <1>3, <2>1, <3>1, EpochNat DEF Covered
    <3>. QED
      BY <1>3, <1>7, <3>1, <3>2 DEF Covered
  <2>. QED
    BY <1>2, <1>3, <2>2, <2>3
<1>. QED
  BY <1>4, <1>5, <1>6, <1>7

(* The size of a set that has at most one element. *)
LEMMA AtMostOneCounts ==
  ASSUME NEW S, AtMostOne(S)
  PROVE  Cardinality(S) = IF S = {} THEN 0 ELSE 1
<1>1. CASE S = {}
  BY <1>1, FS_EmptySet
<1>2. CASE S # {}
  <2>1. PICK x : S = {x}
    BY <1>2 DEF AtMostOne
  <2>2. Cardinality({x}) = 1
    BY FS_Singleton
  <2>. QED
    BY <1>2, <2>1, <2>2
<1>. QED
  BY <1>1, <1>2

(* What a reader finds, from the cuts and from what success leaves. *)
LEMMA NoDuplicatesHolds ==
  ASSUME IInv, JInv
  PROVE  NoDuplicates
<1>1. ASSUME NEW r \in Records PROVE Cardinality(committedIn(r)) <= 1
  <2>1. \A p \in committedIn(r) : /\ p = <<p[1], p[2]>> /\ p[1] \in Sinks /\ p[2] \in Epochs
                                  /\ copies(committed[p[1]][p[2]], r) > 0
    BY DEF committedIn
  <2>2. AtMostOne(committedIn(r))
    <3>1. SUFFICES ASSUME NEW p \in committedIn(r), NEW q \in committedIn(r) PROVE p = q
      BY DEF AtMostOne
    <3>2. p[1] = q[1] /\ p[2] = q[2]
      BY <2>1, CommittedOnce
    <3>. QED
      BY <2>1, <3>2
  <2>. QED
    BY <2>2, AtMostOneCounts
<1>2. \A s \in Sinks, e \in Epochs : \A r \in Records : copies(committed[s][e], r) <= 1
  BY DEF JInv, Whole, OnDisk, FileContents
<1>. QED
  BY <1>1, <1>2 DEF NoDuplicates

(* A run that got to its end has every record on disk. *)
LEMMA EndCut ==
  ASSUME IInv, NEW level \in [Subtasks -> IDs \cup {0}], Whole(level), mode # "down",
         ~failed, returned = Subtasks, NEW r \in Records
  PROVE  \E s \in Sinks, e \in Epochs : /\ e <= restoredID \/ e \in written[s]
                                        /\ copies(current(s, e), r) > 0
<1>. DEFINE K == Cardinality(IDs) + 1
<1>1. K \in Epochs /\ K \notin IDs /\ K > restoredID /\ \A x \in Subtasks : level[x] < K
  <2>1. restoredID \in IDs \cup {0}
    BY DEF IInv, RunTypes
  <2>. QED
    BY <2>1, Numbers
<1>. HIDE DEF K
<1>2. Open(K)
  BY <1>1 DEF Open
<1>3. RunCut(level, K, r)
  BY <1>1, <1>2 DEF Whole, Cuts, RunCuts
<1>4. level \in [Subtasks -> Nat] /\ K \in Nat
  BY <1>1, LevelNat, EpochNat
<1>5. r[2] <= snapshot(level, K, r[1])
  <2>1. r[1] \in Sources /\ r[1] \in Subtasks /\ r[2] \in 1..Count[r[1]]
    BY RecordIs
  <2>2. position[r[1]] = Count[r[1]]
    BY <2>1 DEF Whole, Accounts, Returned
  <2>3. snapshot(level, K, r[1]) = position[r[1]]
    BY <1>1, <1>4, <2>1 DEF snapshot
  <2>4. Count[r[1]] \in Nat
    BY <2>1, JobAssumption
  <2>. QED
    BY <2>1, <2>2, <2>3, <2>4
<1>6. {o \in Operators : r \in snapshot(level, K, o)} = {}
  <2>1. \A o \in Operators : snapshot(level, K, o) = held[o]
    BY <1>1, <1>4, KindsOfSubtasks DEF snapshot
  <2>2. \A o \in Operators : held[o] = {}
    BY KindsOfSubtasks DEF Whole, Accounts, Returned
  <2>. QED
    BY <2>1, <2>2
<1>7. OnTheWay(chan, level, K, r) = {}
  <2>1. ASSUME NEW e \in Edges PROVE chan[e] = << >>
    <3>1. e[1] \in Subtasks /\ e[2] \in Subtasks /\ e[1] \in Up[e[2]]
      BY EdgeIs
    <3>2. e[1] \in ended[e[2]]
      <4>1. CASE e[2] \in Sources
        BY <3>1, <4>1, KindsOfSubtasks
      <4>2. CASE e[2] \in Operators
        BY <3>1, <4>2 DEF Whole, Accounts, Returned
      <4>3. CASE e[2] \in Sinks
        BY <3>1, <4>3, FinalStaged
      <4>. QED
        BY <3>1, <4>1, <4>2, <4>3 DEF Operators
    <3>. QED
      BY <3>2 DEF Whole, Accounts, Ends
  <2>2. \A e \in Edges : ahead(chan[e], K, r) = {}
    BY <2>1 DEF ahead
  <2>. QED
    BY <2>2 DEF OnTheWay
<1>8. Stored(K, r) # {}
  <2>. DEFINE E == r[2] <= snapshot(level, K, r[1])
              X == {o \in Operators : r \in snapshot(level, K, o)}
              Y == OnTheWay(chan, level, K, r)
              Z == Stored(K, r)
  <2>1. OnePlace(E, X, Y, Z) /\ E /\ X = {} /\ Y = {}
    BY <1>3, <1>5, <1>6, <1>7 DEF RunCut
  <2>. HIDE DEF E, X, Y, Z
  <2>2. Z # {}
    BY <2>1 DEF OnePlace
  <2>. QED
    BY <2>2 DEF Z
<1>9. PICK p \in Stored(K, r) : TRUE
  BY <1>8
<1>10. /\ p[1] \in Sinks /\ p[2] \in Epochs /\ (p[2] <= restoredID \/ p[2] \in written[p[1]])
       /\ copies(current(p[1], p[2]), r) > 0
  BY <1>9 DEF Stored
<1>. QED
  BY <1>10

(* Once nothing is left staged, it is in the committed directory. *)
LEMMA EndCommitted ==
  ASSUME IInv, NEW level \in [Subtasks -> IDs \cup {0}], Whole(level), mode # "down",
         ~failed, returned = Subtasks, \A s \in Sinks : leftStaged(s) = {}, NEW r \in Records
  PROVE  \E s \in Sinks, e \in Epochs : copies(committed[s][e], r) > 0
<1>1. PICK s \in Sinks, e \in Epochs : copies(current(s, e), r) > 0
  BY EndCut
<1>2. ~staged(s, e)
  <2>1. SUFFICES ASSUME staged(s, e) PROVE FALSE
    OBVIOUS
  <2>2. e \in written[s]
    BY <2>1, FinalStaged
  <2>3. firstEpoch[s] <= restoredID + 1 /\ e > restoredID /\ e <= epoch[s]
    BY <2>2 DEF Whole, OnDisk, OwnFiles
  <2>4. firstEpoch[s] \in Nat /\ epoch[s] \in Nat /\ e \in Nat /\ restoredID \in Nat
    BY EpochNat, RunningFacts DEF IInv, SinkTypes
  <2>5. e \in leftStaged(s)
    BY <2>1, <2>3, <2>4 DEF leftStaged
  <2>. QED
    BY <2>5
<1>. QED
  BY <1>1, <1>2 DEF current

(* A job that is done has left nothing staged. *)
LEMMA NothingMissingHolds ==
  ASSUME IInv, JInv
  PROVE  NothingMissing
<1>1. SUFFICES ASSUME mode = "done", NEW r \in Records PROVE committedIn(r) # {}
  BY DEF NothingMissing
<1>2. PICK level \in [Subtasks -> IDs \cup {0}] : Whole(level)
  BY DEF JInv
<1>3. ~failed /\ returned = Subtasks /\ \A s \in Sinks : leftStaged(s) = {}
  BY <1>1, <1>2 DEF Whole, Accounts, Returned
<1>4. PICK s \in Sinks, e \in Epochs : copies(committed[s][e], r) > 0
  <2>1. mode # "down"
    BY <1>1
  <2>. QED
    BY <1>2, <1>3, <2>1, EndCommitted
<1>5. <<s, e>> \in committedIn(r)
  BY <1>4 DEF committedIn
<1>. QED
  BY <1>5

(* The places a resumed job looks, each written down with its kind. *)
Places(A, B, C) == [state : A] \cup [staging : B] \cup [committed : C]

(* Places, unfolded. *)
LEMMA PlacesAre ==
  ASSUME NEW A, NEW B, NEW C, NEW S, S = Places(A, B, C)
  PROVE  /\ \A y \in S : \/ \E a \in A : y = [state |-> a]
                         \/ \E p \in B : y = [staging |-> p]
                         \/ \E p \in C : y = [committed |-> p]
         /\ \A a \in A : [state |-> a] \in S
         /\ \A p \in B : [staging |-> p] \in S
         /\ \A p \in C : [committed |-> p] \in S
<1>1. \A y \in [state : A] : \E a \in A : y = [state |-> a]
  <2>. TAKE y \in [state : A]
  <2>1. y = [state |-> y.state] /\ y.state \in A
    OBVIOUS
  <2>. QED
    BY <2>1
<1>2. \A y \in [staging : B] : \E a \in B : y = [staging |-> a]
  <2>. TAKE y \in [staging : B]
  <2>1. y = [staging |-> y.staging] /\ y.staging \in B
    OBVIOUS
  <2>. QED
    BY <2>1
<1>3. \A y \in [committed : C] : \E a \in C : y = [committed |-> a]
  <2>. TAKE y \in [committed : C]
  <2>1. y = [committed |-> y.committed] /\ y.committed \in C
    OBVIOUS
  <2>. QED
    BY <2>1
<1>4. \A a \in A : [state |-> a] \in [state : A]
  OBVIOUS
<1>5. \A a \in B : [staging |-> a] \in [staging : B]
  OBVIOUS
<1>6. \A a \in C : [committed |-> a] \in [committed : C]
  OBVIOUS
<1>. QED
  BY <1>1, <1>2, <1>3, <1>4, <1>5, <1>6 DEF Places

(* Every place is told apart by its kind, so one place is one entry. *)
LEMMA PlacesCount ==
  ASSUME NEW E \in BOOLEAN, NEW A, NEW B, NEW C, NEW S,
         S = Places(A, B, C),
         OnePlace(E, A, {}, B \cup C), B \cap C = {}
  PROVE  Cardinality(S) = IF E THEN 1 ELSE 0
<1>1. /\ \A y \in S : \/ \E a \in A : y = [state |-> a]
                      \/ \E p \in B : y = [staging |-> p]
                      \/ \E p \in C : y = [committed |-> p]
      /\ \A a \in A : [state |-> a] \in S
      /\ \A p \in B : [staging |-> p] \in S
      /\ \A p \in C : [committed |-> p] \in S
  BY PlacesAre
<1>2. /\ E <=> (A # {} \/ B # {} \/ C # {}) 
      /\ \A a, b \in A : a = b
      /\ \A a, b \in B \cup C : a = b
      /\ A = {} \/ (B = {} /\ C = {})
  BY DEF OnePlace, AtMostOne
<1>3. B = {} \/ C = {}
  BY <1>2
<1>4. AtMostOne(S)
  <2>1. CASE A # {}
    BY <1>1, <1>2, <2>1 DEF AtMostOne
  <2>2. CASE A = {} /\ B # {}
    BY <1>1, <1>2, <1>3, <2>2 DEF AtMostOne
  <2>3. CASE A = {} /\ B = {}
    BY <1>1, <1>2, <2>3 DEF AtMostOne
  <2>. QED
    BY <2>1, <2>2, <2>3
<1>5. S = {} <=> ~E
  BY <1>1, <1>2
<1>6. Cardinality(S) = IF S = {} THEN 0 ELSE 1
  BY <1>4, AtMostOneCounts
<1>. QED
  BY <1>5, <1>6

(* The cut a marker stands for is what a resumed job finds. *)
LEMMA CheckpointsAreCutsHolds ==
  ASSUME IInv, JInv
  PROVE  CheckpointsAreCuts
<1>1. SUFFICES ASSUME NEW k \in IDs, marker[k], NEW r \in Records
      PROVE  Cardinality(recoverable(k, r)) = IF r \in below(k) THEN 1 ELSE 0
  BY DEF CheckpointsAreCuts
<1>. DEFINE upTo == Sinks \X (1..k)
            A == {o \in Operators : r \in files[k][o]}
            B == {p \in upTo : copies(staging[p[1]][p[2]], r) > 0}
            C == {p \in upTo : copies(committed[p[1]][p[2]], r) > 0}
            E == r[2] <= files[k][r[1]]
<1>2. recoverable(k, r) = Places(A, B, C)
  BY DEF recoverable, Places
<1>3. E <=> r \in below(k)
  BY DEF below
<1>4. OnePlace(E, A, {}, Kept(k, r))
  BY <1>1 DEF JInv, Whole, Cuts, MarkedCuts, MarkedCut
<1>5. k \in Nat /\ \A e : e \in 1..k <=> e \in Epochs /\ e <= k
  BY Numbers, EpochNat
<1>6. \A e \in 1..k : e \in Epochs /\ Covered(e)
  BY <1>1, <1>5, EpochNat DEF Covered
<1>7. \A p \in upTo : p[1] \in Sinks /\ p[2] \in 1..k /\ p[2] \in Epochs /\ Covered(p[2])
  BY <1>6
<1>8. \A p \in upTo : p \in Kept(k, r) <=> copies(current(p[1], p[2]), r) > 0
  BY <1>5, <1>7 DEF Kept
<1>9. \A p \in Kept(k, r) : p \in upTo
  BY <1>5 DEF Kept
<1>10. \A p \in upTo : p \in C => ~staged(p[1], p[2]) /\ current(p[1], p[2]) = committed[p[1]][p[2]]
  BY <1>7, CoveredIsCurrent
<1>11. \A p \in upTo : p \in B => staged(p[1], p[2]) /\ current(p[1], p[2]) = staging[p[1]][p[2]]
  BY DEF staged, copies, current
<1>12. B \cap C = {}
  BY <1>10, <1>11
<1>13. \A p \in upTo : p \in Kept(k, r) <=> p \in B \/ p \in C
  BY <1>8, <1>10, <1>11 DEF current
<1>14. Kept(k, r) = B \cup C
  BY <1>9, <1>13
<1>15. E \in BOOLEAN
  OBVIOUS
<1>. HIDE DEF A, B, C, E
<1>16. OnePlace(E, A, {}, B \cup C)
  BY <1>4, <1>14
<1>17. PICK S : S = recoverable(k, r)
  OBVIOUS
<1>18. Cardinality(S) = IF E THEN 1 ELSE 0
  BY <1>2, <1>12, <1>15, <1>16, <1>17, PlacesCount
<1>. QED
  BY <1>3, <1>17, <1>18

(* Every complete checkpoint is a consistent cut of the job, at any        *)
(* later moment and whatever has failed since: a record its sources were   *)
(* past is in one operator state or one file up to it, and only once; a    *)
(* record they will emit again (sourceResume.apply) is in none. It is      *)
(* what the _COMPLETE marker vouches for once the coordinator has          *)
(* everybody's acknowledgement.                                            *)
THEOREM JobCheckpointsAreCuts == Spec => []CheckpointsAreCuts
<1>1. IInv /\ JInv => CheckpointsAreCuts
  BY CheckpointsAreCutsHolds
<1>. QED
  BY <1>1, JInvAlways, PTL

(* No record is in two files of the committed directory, or twice in       *)
(* one: neither a replay from the last checkpoint, nor a rename repeated   *)
(* by Restore, nor a crash in the middle of commitFinalEpochs doubles      *)
(* anything.                                                               *)
THEOREM JobNoDuplicates == Spec => []NoDuplicates
<1>1. IInv /\ JInv => NoDuplicates
  BY NoDuplicatesHolds
<1>. QED
  BY <1>1, JInvAlways, PTL

(* When RunWithOptions returns nil every record is in the committed        *)
(* directory: nothing was dropped in a channel, in the state of an         *)
(* operator or in a staging file that Restore (settleStaged) took for a    *)
(* leftover.                                                               *)
THEOREM JobNothingMissing == Spec => []NothingMissing
<1>1. IInv /\ JInv => NothingMissing
  BY NothingMissingHolds
<1>. QED
  BY <1>1, JInvAlways, PTL

(* The records that a reader of the committed directory finds. *)
readable == {r \in Records : \E s \in Sinks, e \in Epochs : copies(committed[s][e], r) > 0}

(* At the end of a run the file that takes the place of one of an earlier  *)
(* run has every record that one had.                                      *)
LEMMA FinalReplaces ==
  ASSUME IInv, NEW level \in [Subtasks -> IDs \cup {0}], Whole(level), mode = "final",
         NEW s \in Sinks, NEW e \in Epochs, staged(s, e), ~Covered(e),
         NEW r \in Records, copies(committed[s][e], r) > 0
  PROVE  copies(staging[s][e], r) > 0
<1>1. ~failed /\ returned = Subtasks /\ mode # "down"
  BY DEF Whole, Accounts, Returned
<1>2. PICK t \in Sinks, f \in Epochs : (f <= restoredID \/ f \in written[t]) /\ copies(current(t, f), r) > 0
  BY <1>1, EndCut
<1>3. ~Covered(f) /\ (e = 1 \/ Covered(e - 1))
  BY <1>2 DEF Whole, OnDisk, FinalFiles
<1>4. t = s
  <2>1. s \in route(r) /\ t \in route(r)
    BY <1>2 DEF Whole, OnDisk, FileContents, current
  <2>. QED
    BY <2>1, RouteIs
<1>5. /\ e \in Nat /\ f \in Nat /\ f >= 1 /\ restoredID \in Nat /\ restoredID \in IDs \cup {0}
      /\ level[s] \in Nat /\ level[s] \in IDs \cup {0} /\ epoch[s] = level[s] + 1
      /\ \A k \in IDs : k <= level[s] => Covered(k)
  BY <1>1, EpochNat, RunningFacts, KindsOfSubtasks, FinalStaged DEF IInv, RunTypes
<1>6. ~(f <= restoredID)
  <2>1. SUFFICES ASSUME f <= restoredID PROVE FALSE
    OBVIOUS
  <2>2. restoredID \in IDs /\ marker[restoredID]
    BY <1>5, <2>1 DEF IInv, RestoredIsMarked
  <2>. QED
    BY <1>3, <1>5, <2>1, <2>2 DEF Covered
<1>7. f <= level[s] + 1
  BY <1>2, <1>4, <1>5, <1>6 DEF Whole, OnDisk, OwnFiles
<1>8. \A g \in Epochs : ~Covered(g) => ~(g <= level[s])
  <2>1. \A g \in Epochs : g <= level[s] => g \in IDs
    BY <1>5, EpochNat
  <2>. QED
    BY <1>5, <2>1
<1>9. f = level[s] + 1 /\ ~(e <= level[s])
  BY <1>3, <1>5, <1>7, <1>8
<1>10. ~(e > f)
  <2>1. SUFFICES ASSUME e > f PROVE FALSE
    OBVIOUS
  <2>2. PICK k \in IDs : k >= e - 1 /\ marker[k]
    BY <1>3, <1>5, <2>1 DEF Covered
  <2>. QED
    BY <1>3, <1>5, <2>1, <2>2, Numbers DEF Covered
<1>11. e = f
  BY <1>5, <1>9, <1>10
<1>. QED
  BY <1>2, <1>4, <1>11 DEF current

(* A rename takes no record away from a reader. *)
LEMMA RenameGrows ==
  ASSUME IInv, NEW level \in [Subtasks -> IDs \cup {0}], Whole(level),
         NEW s \in Sinks, NEW e \in Epochs, Rename(s, e), Covered(e) \/ mode = "final"
  PROVE  readable \subseteq readable'
<1>1. SUFFICES ASSUME NEW r \in Records, NEW x \in Sinks, NEW f \in Epochs, copies(committed[x][f], r) > 0
      PROVE  copies(committed'[x][f], r) > 0
  BY DEF readable, copies
<1>2. \/ committed'[x][f] = committed[x][f]
      \/ x = s /\ f = e /\ committed'[x][f] = staging[x][f] /\ staged(x, f)
  <2>1. SinkTypes
    BY DEF IInv
  <2>. QED
    BY <2>1, RenameCurrent
<1>3. CASE committed'[x][f] = committed[x][f]
  BY <1>1, <1>3
<1>4. CASE x = s /\ f = e /\ committed'[x][f] = staging[x][f] /\ staged(x, f)
  <2>1. ~Covered(e)
    BY <1>1, <1>4 DEF Whole, OnDisk, OwnFiles
  <2>. QED
    BY <1>1, <1>4, <2>1, FinalReplaces
<1>. QED
  BY <1>2, <1>3, <1>4

(* A step of the job, as a reader of its output sees it. *)
Shows ==
  \/ committed' = committed /\ (mode' = "done" <=> mode = "done")
  \/ mode # "done" /\ mode' # "done" /\ readable \subseteq readable'
  \/ readable = Records /\ mode' = "done" /\ committed' = committed

(* Every action, as the reader sees it. *)
LEMMA StepShows ==
  ASSUME IInv, JInv, [Next]_vars
  PROVE  Shows
<1>0. PICK level \in [Subtasks -> IDs \cup {0}] : Whole(level)
  BY DEF JInv
<1>1. ASSUME NEW s \in Sources, SourceStep(s) PROVE Shows
  BY <1>1 DEF SourceStep, SourceRecord, SourceBarrier, SourceEnd, sink, sinkDisk, runVars, Shows
<1>2. ASSUME NEW o \in Operators, OperatorStep(o) PROVE Shows
  BY <1>2 DEF OperatorStep, OperatorRecord, InputEnds, OperatorBarrier, OperatorFires, OperatorEnd,
     sink, sinkDisk, runVars, Shows
<1>3. ASSUME NEW s \in Sinks, SinkStep(s) PROVE Shows
  <2>1. ASSUME SinkRestoring(s) PROVE Shows
    <3>1. mode' = mode /\ mode = "running"
      BY <2>1 DEF SinkRestoring, runVars, up
    <3>2. ASSUME NEW e \in Epochs, SettleStaged(s, e, restoredID), ~(e > restoredID) PROVE Shows
      <4>1. Rename(s, e)
        BY <3>2 DEF SettleStaged
      <4>2. restoredID \in Nat /\ e \in Nat /\ e >= 1 /\ e <= restoredID /\ restoredID \in IDs \cup {0}
        BY <1>0, <3>2, EpochNat, RunningFacts DEF IInv, RunTypes
      <4>3. Covered(e)
        BY <4>2 DEF Covered, IInv, RestoredIsMarked
      <4>. QED
        BY <1>0, <3>1, <4>1, <4>3, RenameGrows DEF Shows
    <3>3. ASSUME NEW e \in Epochs, SettleStaged(s, e, restoredID), e > restoredID PROVE Shows
      BY <3>1, <3>3 DEF SettleStaged, Shows
    <3>4. ASSUME Restored(s, restoredID) PROVE Shows
      BY <3>1, <3>4 DEF Restored, sinkDisk, Shows
    <3>5. (\E e \in Epochs : SettleStaged(s, e, restoredID)) \/ Restored(s, restoredID)
      BY <2>1, PayloadIsRestored DEF SinkRestoring
    <3>. QED
      BY <3>2, <3>3, <3>4, <3>5
  <2>2. ASSUME NEW u \in Up[s], SinkRecord(s, u) \/ InputEnds(s, u) PROVE Shows
    BY <2>2 DEF SinkRecord, InputEnds, Write, sink, sinkDisk, runVars, Shows
  <2>3. ASSUME NEW k \in IDs, SinkBarrier(s, k) PROVE Shows
    BY <2>3 DEF SinkBarrier, Snapshot, sinkDisk, runVars, Shows
  <2>4. ASSUME SinkAsks(s) \/ SinkNotified(s) \/ SinkEnd(s) PROVE Shows
    BY <2>4 DEF SinkAsks, SinkNotified, SinkEnd, Close, sink, sinkDisk, runVars, Shows
  <2>5. ASSUME SinkNotify(s) PROVE Shows
    <3>. DEFINE k == CHOOSE j \in todo[s] : \A i \in todo[s] : j <= i
    <3>1. mode' = mode /\ mode = "running" /\ todo[s] # {} /\ (Rename(s, k) \/ committed' = committed)
      BY <2>5 DEF SinkNotify, NotifyCheckpointComplete, up, sink, sinkDisk
    <3>2. k \in todo[s]
      <4>1. todo[s] \subseteq Nat
        BY Numbers DEF IInv, SinkTypes
      <4>. QED
        BY <3>1, <4>1, LeastNat
    <3>. HIDE DEF k
    <3>3. k \in Epochs /\ Covered(k)
      <4>1. k \in IDs /\ marker[k]
        BY <3>2 DEF IInv, SinkTypes, TodoAreMarked
      <4>. QED
        BY <4>1, Numbers DEF Covered
    <3>4. CASE Rename(s, k)
      BY <1>0, <3>1, <3>3, <3>4, RenameGrows DEF Shows
    <3>5. CASE committed' = committed
      BY <3>1, <3>5 DEF Shows
    <3>. QED
      BY <3>1, <3>4, <3>5
  <2>. QED
    BY <1>3, <2>1, <2>2, <2>3, <2>4, <2>5 DEF SinkStep
<1>4. ASSUME ExecutorStep PROVE Shows
  <2>1. ASSUME TornDown \/ AllReturned \/ Restart PROVE Shows
    BY <2>1 DEF TornDown, AllReturned, Restart, up, sink, sinkDisk, Shows
  <2>2. ASSUME JobSucceeds PROVE Shows
    <3>1. mode = "final" /\ mode' = "done" /\ committed' = committed /\ \A s \in Sinks : leftStaged(s) = {}
      BY <2>2 DEF JobSucceeds, sink, sinkDisk
    <3>2. ~failed /\ returned = Subtasks /\ mode # "down"
      BY <1>0, <3>1 DEF Whole, Accounts, Returned
    <3>3. readable = Records
      BY <1>0, <3>1, <3>2, EndCommitted DEF readable
    <3>. QED
      BY <3>1, <3>3 DEF Shows
  <2>3. ASSUME NEW s \in Sinks, CommitFinal(s) PROVE Shows
    <3>. DEFINE e == CHOOSE x \in leftStaged(s) : \A f \in leftStaged(s) : x <= f
    <3>1. mode = "final" /\ mode' = mode /\ leftStaged(s) # {} /\ Rename(s, e)
      BY <2>3 DEF CommitFinal, CommitFinalEpoch, runVars
    <3>2. firstEpoch[s] \in Nat /\ firstEpoch[s] >= 1 /\ epoch[s] \in Nat /\ epoch[s] <= Cardinality(IDs) + 1
      BY Numbers DEF IInv, SinkTypes
    <3>3. e \in leftStaged(s)
      <4>1. leftStaged(s) \subseteq Nat
        BY <3>2 DEF leftStaged
      <4>. QED
        BY <3>1, <4>1, LeastNat
    <3>. HIDE DEF e
    <3>4. e \in Epochs
      BY <3>2, <3>3, Numbers DEF leftStaged
    <3>. QED
      BY <1>0, <3>1, <3>4, RenameGrows DEF Shows
  <2>. QED
    BY <1>4, <2>1, <2>2, <2>3 DEF ExecutorStep
<1>5. ASSUME NEW s \in Subtasks, SubtaskFails(s) PROVE Shows
  BY <1>5 DEF SubtaskFails, Close, sink, sinkDisk, Shows
<1>6. ASSUME Crash PROVE Shows
  BY <1>6 DEF Crash, Shows
<1>7. ASSUME Succeeded \/ UNCHANGED vars PROVE Shows
  BY <1>7 DEF Succeeded, vars, sink, sinkDisk, runVars, Shows
<1>. QED
  BY <1>1, <1>2, <1>3, <1>4, <1>5, <1>6, <1>7 DEF Next

(* The job implements Output: records appear in the committed directory    *)
(* and are never withdrawn, not even where commitFinalEpochs renames a     *)
(* file over the one a run that succeeded and then crashed had left; and   *)
(* the job ends only when all of them are there.                           *)
THEOREM JobImplementsOutput == Spec => ImplementsOutput
<1>1. Init => Published!Init
  <2>. SUFFICES ASSUME Init PROVE readable = {} /\ mode # "done"
    BY DEF Published!Init, readable
  <2>2. committed = [s \in Sinks |-> [e \in Epochs |-> NoFile]] /\ mode = "running"
    BY DEF Init, SinkInit, noFiles
  <2>. QED
    BY <2>2 DEF readable, copies
<1>2. IInv /\ JInv /\ [Next]_vars => [Published!Publish \/ Published!End]_(Published!vars)
  <2>. SUFFICES ASSUME IInv, JInv, [Next]_vars
        PROVE  [Published!Publish \/ Published!End]_(Published!vars)
    OBVIOUS
  <2>2. Shows
    BY StepShows
  <2>3. readable' \in SUBSET Records
    BY DEF readable
  <2>4. committed' = committed => readable' = readable
    BY DEF readable, copies
  <2>. QED
    BY <2>2, <2>3, <2>4 DEF Shows, Published!Publish, Published!End, Published!vars, readable
<1>. QED
  BY <1>1, <1>2, JInvAlways, PTL DEF Spec, ImplementsOutput, Published!Spec

=============================================================================
