------------------------- MODULE CheckpointRunProofs -------------------------
(***************************************************************************)
(* Proofs about CheckpointRun, for any number of subtasks and checkpoints. *)
(***************************************************************************)
EXTENDS CheckpointRun, TLAPS

(* Who is counted for a checkpoint has written its file for it. *)
AckedHaveFiles ==
  \A k \in IDs, s \in Subtasks : s \in acked[k] => files[k][s] = k /\ k < next[s]

(* Who is past the barrier of a checkpoint that is still going is counted. *)
PassedAreAcked ==
  \A k \in IDs, s \in Subtasks : k < next[s] /\ ~terminal(k) => s \in acked[k]

(* Finished is the last thing a source says. *)
DoneHaveStopped == \A s \in Subtasks : done[s] # NoFile => stopped[s] # "no"

(* A marker is written by the step that decides its checkpoint. *)
MarkedAreTerminal == \A k \in IDs : marker[k] => terminal(k)

(* Nobody who is still going to reach a complete checkpoint was forgotten. *)
CompleteCountsAll ==
  \A k \in IDs : status[k] = "complete" =>
    \A s \in Subtasks : k < next[s] \/ done[s] # NoFile

(* The inductive invariant behind MarkerVouches and NeverRefused. *)
IInv ==
  /\ TypeOK
  /\ AckedHaveFiles
  /\ PassedAreAcked
  /\ DoneHaveStopped
  /\ MarkedAreTerminal
  /\ CompleteCountsAll
  /\ MarkerVouches

-----------------------------------------------------------------------------
(* filled gives every subtask a file, or NoFile if it has none to give. *)
LEMMA FilledType ==
  ASSUME NEW row \in [Subtasks -> Payloads \cup {NoFile}],
         NEW over \in [Subtasks -> Payloads \cup {NoFile}],
         NEW who
  PROVE  filled(row, who, over) \in [Subtasks -> Payloads \cup {NoFile}]
BY DEF filled

(* So does what a failed completion leaves of it. *)
LEMMA PartlyFilledType ==
  ASSUME NEW row \in [Subtasks -> Payloads \cup {NoFile}],
         NEW over \in [Subtasks -> Payloads \cup {NoFile}],
         NEW who,
         NEW partial \in partlyFilled(row, who, over)
  PROVE  partial \in [Subtasks -> Payloads \cup {NoFile}]
BY FilledType DEF partlyFilled

(* An announcement leaves every sink in some place of its wait. *)
LEMMA AnnouncedType ==
  ASSUME TypeOK
  PROVE  announced \in [Sinks -> {"no", "checking", "asleep", "woken", "returned"}]
BY DEF TypeOK, announced

(* The initial state satisfies the invariant. *)
LEMMA InitIInv == Init => IInv
<1> SUFFICES ASSUME Init PROVE IInv
  OBVIOUS
<1> USE ShapeAssumption, IDsAssumption, PayloadsAssumption
<1>1. /\ status = [k \in IDs |-> "unknown"]
      /\ acked = [k \in IDs |-> {}]
      /\ done = [s \in Subtasks |-> NoFile]
      /\ waiter = [s \in Sinks |-> "no"]
      /\ files = [k \in IDs |-> [s \in Subtasks |-> NoFile]]
      /\ marker = [k \in IDs |-> FALSE]
      /\ next = [s \in Subtasks |-> 1]
      /\ stopped = [s \in Subtasks |-> "no"]
      /\ cancelled = FALSE
  BY DEF Init, CoordinatorInit, fresh
<1>2. TypeOK
  BY <1>1 DEF TypeOK
<1>3. AckedHaveFiles /\ PassedAreAcked
  BY <1>1 DEF AckedHaveFiles, PassedAreAcked, terminal
<1>4. DoneHaveStopped /\ MarkedAreTerminal /\ CompleteCountsAll /\ MarkerVouches
  BY <1>1 DEF DoneHaveStopped, MarkedAreTerminal, CompleteCountsAll, MarkerVouches
<1> QED BY <1>2, <1>3, <1>4 DEF IInv

(* Every variable keeps its type: THEOREM TypeCorrect rests on this step. *)
LEMMA TypeStep == TypeOK /\ [Next]_vars => TypeOK'
<1> SUFFICES ASSUME TypeOK, [Next]_vars PROVE TypeOK'
  OBVIOUS
<1> USE ShapeAssumption, IDsAssumption, PayloadsAssumption DEF TypeOK
<1> DEFINE Rows == [Subtasks -> Payloads \cup {NoFile}]
<1>1. ASSUME NEW s \in Subtasks, SubtaskAcknowledges(s) PROVE TypeOK'
  <2>1. CASE AckIgnored(next[s], s)
    BY <1>1, <2>1 DEF SubtaskAcknowledges, AckIgnored, coordinator, memory, disk
  <2>2. CASE AckRecorded(next[s], s, next[s])
    BY <1>1, <2>2 DEF SubtaskAcknowledges, AckRecorded
  <2>3. CASE AckCompletes(next[s], s, next[s])
    <3>1. next[s] \in IDs /\ next[s] \in Payloads
      BY <1>1 DEF SubtaskAcknowledges
    <3>2. [files[next[s]] EXCEPT ![s] = next[s]] \in Rows
      BY <3>1
    <3>3. files' \in [IDs -> Rows]
      BY <2>3, <3>1, <3>2, FilledType DEF AckCompletes
    <3>4. /\ status' \in [IDs -> {"unknown", "open", "complete", "abandoned"}]
          /\ acked' \in [IDs -> SUBSET Subtasks]
          /\ marker' \in [IDs -> BOOLEAN]
      BY <2>3, <3>1 DEF AckCompletes
    <3>5. done' = done /\ waiter' = announced
      BY <2>3 DEF AckCompletes
    <3>6. next' \in [Subtasks -> Nat] /\ UNCHANGED <<stopped, cancelled>>
      BY <1>1 DEF SubtaskAcknowledges
    <3>7. \A k \in IDs : acked'[k] # {} => status'[k] = "open"
      BY <2>3, <3>1 DEF AckCompletes
    <3> QED BY <3>3, <3>4, <3>5, <3>6, <3>7, AnnouncedType
  <2> QED BY <1>1, <2>1, <2>2, <2>3 DEF SubtaskAcknowledges, Acknowledged
<1>2. ASSUME NEW s \in Subtasks, SubtaskAcknowledgeFails(s) PROVE TypeOK'
  <2>1. CASE AckWriteFails(next[s], s)
    BY <1>2, <2>1 DEF SubtaskAcknowledgeFails, AckWriteFails, announced
  <2>2. CASE AckCompleteFails(next[s], s, next[s])
    <3>1. next[s] \in IDs /\ next[s] \in Payloads
      BY <1>2 DEF SubtaskAcknowledgeFails
    <3>2. [files[next[s]] EXCEPT ![s] = next[s]] \in Rows
      BY <3>1
    <3> DEFINE k == next[s]
               row == [files[k] EXCEPT ![s] = k]
               who == acked[k] \cup {s}
    <3>3. PICK left \in Rows : files' = [files EXCEPT ![k] = left]
      <4>1. \A partial \in partlyFilled(row, who, done) : partial \in Rows
        BY <3>2, PartlyFilledType
      <4>2. filled(row, who, done) \in Rows
        BY <3>2, FilledType
      <4> HIDE DEF Rows
      <4> QED BY <2>2, <4>1, <4>2 DEF AckCompleteFails
    <3>4. marker' \in [IDs -> BOOLEAN]
      BY <2>2, <3>1 DEF AckCompleteFails
    <3>5. files' \in [IDs -> Rows]
      BY <3>1, <3>3
    <3> QED BY <1>2, <2>2, <3>4, <3>5, AnnouncedType
            DEF SubtaskAcknowledgeFails, AckCompleteFails
  <2> QED BY <1>2, <2>1, <2>2 DEF SubtaskAcknowledgeFails, AcknowledgeFails
<1>3. ASSUME NEW s \in Subtasks, SubtaskSnapshotFails(s) PROVE TypeOK'
  BY <1>3 DEF SubtaskSnapshotFails, Fail, announced, disk
<1>4. ASSUME NEW s \in Sources, SourceFinishes(s) PROVE TypeOK'
  <2>1. CASE FinishedOK(s, 0)
    BY <1>4, <2>1, FilledType DEF SourceFinishes, FinishedOK, announced
  <2>2. CASE FinishedFails(s, 0)
    <3> DEFINE over == [done EXCEPT ![s] = 0]
    <3>1. over \in Rows
      OBVIOUS
    <3> HIDE DEF over
    <3>2. \A k \in IDs : /\ filled(files[k], acked[k], over) \in Rows
                         /\ \A partial \in partlyFilled(files[k], acked[k], over) : partial \in Rows
      BY <3>1, FilledType, PartlyFilledType
    <3>3. PICK bad \in ready(over) :
          \E before \in SUBSET (ready(over) \ {bad}), marked \in SUBSET {bad} :
          \E left \in partlyFilled(files[bad], acked[bad], over) :
            StopsAt(bad, before, left, marked, over)
      BY <2>2 DEF FinishedFails, over
    <3>4. PICK before \in SUBSET (ready(over) \ {bad}), marked \in SUBSET {bad} :
          \E left \in partlyFilled(files[bad], acked[bad], over) :
            StopsAt(bad, before, left, marked, over)
      BY <3>3
    <3>5. PICK left \in Rows : StopsAt(bad, before, left, marked, over)
      BY <3>2, <3>4 DEF ready
    <3>6. files' \in [IDs -> Rows] /\ marker' \in [IDs -> BOOLEAN]
      BY <3>2, <3>5 DEF StopsAt
    <3>7. status' \in [IDs -> {"unknown", "open", "complete", "abandoned"}]
      BY <3>5 DEF StopsAt
    <3>8. acked' \in [IDs -> SUBSET Subtasks]
      BY <3>5 DEF StopsAt
    <3>9. done' \in Rows /\ waiter' = announced
      BY <2>2, <3>1, <3>5 DEF FinishedFails, StopsAt, over
    <3>10. \A k \in IDs : acked'[k] # {} => status'[k] = "open"
      BY <3>5 DEF StopsAt
    <3> QED BY <1>4, <3>6, <3>7, <3>8, <3>9, <3>10, AnnouncedType DEF SourceFinishes
  <2> QED BY <1>4, <2>1, <2>2 DEF SourceFinishes
<1>5. ASSUME NEW s \in Operators, OperatorReturns(s) PROVE TypeOK'
  BY <1>5 DEF OperatorReturns, coordinator, memory, disk, Operators
<1>6. ASSUME NEW s \in Sinks, SinkEnds(s) PROVE TypeOK'
  BY <1>6 DEF SinkEnds, AwaitBegins, AwaitChecks, AwaitCancelled, coordinator, memory, disk
<1>7. CASE Cancel
  BY <1>7 DEF Cancel, coordinator, memory, disk
<1>8. CASE UNCHANGED vars
  BY <1>8 DEF vars, coordinator, memory, disk
<1> QED BY <1>1, <1>2, <1>3, <1>4, <1>5, <1>6, <1>7, <1>8 DEF Next

-----------------------------------------------------------------------------
(* When nobody is outstanding, whoever is not counted is done. *)
LEMMA OutstandingNone ==
  ASSUME NEW who, NEW over, outstanding(who, over) = {},
         NEW s \in Subtasks, s \notin who
  PROVE  over[s] # NoFile
BY DEF outstanding

(* Who is done and not counted stopped before it reached the barrier. *)
LEMMA NotCounted ==
  ASSUME IInv, NEW k \in IDs, ~terminal(k),
         NEW t \in Subtasks, t \notin acked[k], done[t] # NoFile
  PROVE  stopped[t] # "no" /\ next[t] <= k
BY ShapeAssumption DEF IInv, TypeOK, PassedAreAcked, DoneHaveStopped

(* The rest of the invariant. *)
Rest ==
  /\ AckedHaveFiles
  /\ PassedAreAcked
  /\ DoneHaveStopped
  /\ MarkedAreTerminal
  /\ CompleteCountsAll
  /\ MarkerVouches

(* A source finishes: some of the checkpoints that were waiting only for it *)
(* are decided, and those whose marker is written have all their files.    *)
LEMMA FinishedKeeps ==
  ASSUME IInv, NEW s \in Subtasks, NEW over, NEW how \in {"ok", "failed"},
         stopped[s] = "no",
         over = [done EXCEPT ![s] = 0], done' = over,
         stopped' = [stopped EXCEPT ![s] = how], next' = next,
         \A j \in IDs :
           \/ /\ status'[j] = status[j] /\ acked'[j] = acked[j]
              /\ files'[j] = files[j] /\ marker'[j] = marker[j]
           \/ /\ j \in ready(over) /\ acked'[j] = {}
              /\ status'[j] \in {"complete", "abandoned"}
              /\ status'[j] = "complete" => marker'[j]
              /\ marker'[j] => files'[j] = filled(files[j], acked[j], over)
  PROVE  Rest'
<1> USE ShapeAssumption, IDsAssumption, PayloadsAssumption
<1>i. TypeOK /\ Rest
  BY DEF IInv, Rest
<1>1. \A t \in Subtasks : /\ over[t] = IF t = s THEN 0 ELSE done[t]
                          /\ stopped'[t] = IF t = s THEN how ELSE stopped[t]
                          /\ next[t] \in Nat
  BY <1>i DEF TypeOK
<1>2. 0 # NoFile /\ done[s] = NoFile
  BY <1>i DEF Rest, DoneHaveStopped
<1>3. DoneHaveStopped'
  BY <1>i, <1>1 DEF Rest, DoneHaveStopped
<1>4. ASSUME NEW j \in IDs
      PROVE  /\ \A t \in Subtasks : t \in acked'[j] => files'[j][t] = j /\ j < next'[t]
             /\ \A t \in Subtasks : j < next'[t] /\ ~terminal(j)' => t \in acked'[j]
             /\ marker'[j] => terminal(j)'
  BY <1>i DEF Rest, AckedHaveFiles, PassedAreAcked, MarkedAreTerminal, terminal, ready
<1>5. ASSUME NEW j \in ready(over), NEW t \in Subtasks, t \notin acked[j]
      PROVE  over[t] # NoFile /\ stopped'[t] # "no" /\ next[t] <= j
  <2>0. j \in IDs /\ status[j] = "open" /\ outstanding(acked[j], over) = {}
    BY <1>5 DEF ready
  <2>1. j \in IDs /\ ~terminal(j) /\ over[t] # NoFile
    <3>1. over[t] # NoFile
      BY <1>5, <2>0 DEF outstanding
    <3> QED BY <2>0, <3>1 DEF terminal
  <2>2. CASE t = s
    BY <1>i, <1>1, <1>5, <2>1, <2>2 DEF Rest, PassedAreAcked
  <2>3. CASE t # s
    BY <1>1, <1>5, <2>1, <2>3, NotCounted
  <2> QED BY <2>2, <2>3
<1>6. CompleteCountsAll'
  <2> SUFFICES ASSUME NEW j \in IDs, status'[j] = "complete", NEW t \in Subtasks
               PROVE  j < next'[t] \/ done'[t] # NoFile
    BY DEF CompleteCountsAll
  <2>1. CASE status'[j] = status[j]
    BY <1>i, <1>1, <1>2, <2>1 DEF Rest, CompleteCountsAll
  <2>2. CASE j \in ready(over) /\ t \notin acked[j]
    BY <1>5, <2>2
  <2>3. CASE t \in acked[j]
    BY <1>i, <2>3 DEF Rest, AckedHaveFiles
  <2> QED BY <2>1, <2>2, <2>3
<1>7. ASSUME NEW j \in IDs PROVE MarkerVouches!(j)'
  <2>1. CASE /\ status'[j] = status[j] /\ files'[j] = files[j] /\ marker'[j] = marker[j]
    BY <1>i, <1>1, <2>1 DEF Rest, MarkerVouches
  <2>2. CASE /\ j \in ready(over)
             /\ status'[j] = "complete" => marker'[j]
             /\ marker'[j] => files'[j] = filled(files[j], acked[j], over)
    <3> SUFFICES ASSUME marker'[j], NEW t \in Subtasks
                 PROVE  \/ files'[j][t] = j /\ next'[t] >= j
                        \/ /\ files'[j][t] = done'[t] /\ done'[t] # NoFile
                           /\ stopped'[t] # "no" /\ next'[t] <= j
      BY <2>2
    <3>1. files'[j][t] = IF t \in acked[j] THEN files[j][t] ELSE over[t]
      BY <2>2 DEF filled
    <3>2. CASE t \in acked[j]
      BY <1>i, <1>1, <3>1, <3>2 DEF Rest, AckedHaveFiles
    <3>3. CASE t \notin acked[j]
      BY <1>5, <2>2, <3>1, <3>3
    <3> QED BY <3>2, <3>3
  <2> QED BY <2>1, <2>2
<1> QED
  BY <1>3, <1>4, <1>6, <1>7
     DEF Rest, AckedHaveFiles, PassedAreAcked, MarkedAreTerminal, MarkerVouches

(* The invariant is kept by every step. *)
LEMMA IInvStep == IInv /\ [Next]_vars => IInv'
<1> SUFFICES ASSUME IInv, [Next]_vars PROVE IInv'
  OBVIOUS
<1>t. TypeOK'
  BY TypeStep DEF IInv
<1>i. TypeOK /\ AckedHaveFiles /\ PassedAreAcked /\ DoneHaveStopped /\ MarkedAreTerminal
        /\ CompleteCountsAll /\ MarkerVouches
  BY DEF IInv
<1> USE ShapeAssumption, IDsAssumption, PayloadsAssumption DEF Rest
<1>1. ASSUME NEW s \in Subtasks, SubtaskAcknowledges(s) PROVE Rest'
  <2> PICK k \in IDs : k = next[s]
    BY <1>1 DEF SubtaskAcknowledges
  <2>0. /\ k = next[s] /\ stopped[s] = "no"
        /\ next' = [next EXCEPT ![s] = k + 1] /\ stopped' = stopped
        /\ \A j \in IDs : j \in Nat
    BY <1>1 DEF SubtaskAcknowledges, running
  <2>1. CASE AckIgnored(k, s)
    <3>1. UNCHANGED <<status, acked, done, files, marker>> /\ status[k] = "abandoned"
      BY <2>1 DEF AckIgnored, coordinator, memory, disk
    <3> QED BY <1>i, <2>0, <3>1
            DEF TypeOK, AckedHaveFiles, PassedAreAcked, DoneHaveStopped, MarkedAreTerminal,
                CompleteCountsAll, MarkerVouches, terminal
  <2>2. CASE AckRecorded(k, s, k)
    BY <1>i, <2>0, <2>2
       DEF AckRecorded, mayAcknowledge, TypeOK, AckedHaveFiles, PassedAreAcked, DoneHaveStopped,
           MarkedAreTerminal, CompleteCountsAll, MarkerVouches, terminal
  <2>3. CASE AckCompletes(k, s, k)
    <3>1. ~terminal(k) /\ outstanding(acked[k] \cup {s}, done) = {} /\ done' = done
      BY <2>3 DEF AckCompletes, mayAcknowledge
    <3>2. \A j \in IDs :
            /\ status'[j] = IF j = k THEN "complete" ELSE status[j]
            /\ acked'[j] = IF j = k THEN {} ELSE acked[j]
            /\ j # k => files'[j] = files[j] /\ marker'[j] = marker[j]
      BY <1>i, <2>0, <2>3 DEF AckCompletes, TypeOK
    <3>3. \A t \in Subtasks :
            files'[k][t] = IF t = s THEN k ELSE IF t \in acked[k] THEN files[k][t] ELSE done[t]
      BY <1>i, <2>0, <2>3 DEF AckCompletes, TypeOK, filled
    <3>4. \A t \in Subtasks : t # s /\ t \notin acked[k] =>
            done[t] # NoFile /\ stopped[t] # "no" /\ next[t] <= k
      BY <2>0, <3>1, OutstandingNone, NotCounted
    <3>5. \A t \in Subtasks : t \in acked[k] => files[k][t] = k /\ k < next[t]
      BY <1>i, <2>0 DEF AckedHaveFiles
    <3>6. \A t \in Subtasks : /\ next'[t] = IF t = s THEN k + 1 ELSE next[t]
                              /\ next[t] \in Nat
      BY <1>i, <2>0 DEF TypeOK
    <3>7. AckedHaveFiles' /\ DoneHaveStopped' /\ MarkedAreTerminal'
      BY <1>i, <2>0, <3>1, <3>2, <3>6
         DEF AckedHaveFiles, DoneHaveStopped, MarkedAreTerminal, terminal
    <3>8. PassedAreAcked'
      BY <1>i, <2>0, <3>2, <3>6 DEF PassedAreAcked, terminal
    <3>9. CompleteCountsAll'
      BY <1>i, <2>0, <3>1, <3>2, <3>4, <3>5, <3>6 DEF CompleteCountsAll
    <3>10. MarkerVouches'
      <4>1. ASSUME NEW j \in IDs, j # k PROVE MarkerVouches!(j)'
        BY <1>i, <2>0, <3>1, <3>2, <3>6, <4>1 DEF MarkerVouches
      <4>3. marker'[k]
        BY <1>i, <2>3 DEF AckCompletes, TypeOK
      <4>2. MarkerVouches!(k)'
        BY <2>0, <3>1, <3>3, <3>4, <3>5, <3>6, <4>3
      <4> QED BY <4>1, <4>2 DEF MarkerVouches
    <3> QED BY <3>7, <3>8, <3>9, <3>10
  <2> QED BY <1>1, <2>1, <2>2, <2>3 DEF SubtaskAcknowledges, Acknowledged
<1>2. ASSUME NEW s \in Subtasks, SubtaskAcknowledgeFails(s) PROVE Rest'
  <2> PICK k \in IDs : k = next[s]
    BY <1>2 DEF SubtaskAcknowledgeFails
  <2>0. /\ k = next[s] /\ stopped[s] = "no"
        /\ stopped' = [stopped EXCEPT ![s] = "failed"] /\ next' = next
        /\ \A j \in IDs : j \in Nat
    BY <1>2 DEF SubtaskAcknowledgeFails, running
  <2>1. CASE AckWriteFails(k, s)
    BY <1>i, <2>0, <2>1
       DEF AckWriteFails, mayAcknowledge, TypeOK, AckedHaveFiles, PassedAreAcked, DoneHaveStopped,
           MarkedAreTerminal, CompleteCountsAll, MarkerVouches, terminal
  <2>2. CASE AckCompleteFails(k, s, k)
    <3> DEFINE row == [files[k] EXCEPT ![s] = k]
               who == acked[k] \cup {s}
    <3>1. ~terminal(k) /\ outstanding(who, done) = {} /\ done' = done
      BY <2>2 DEF AckCompleteFails, mayAcknowledge
    <3>2. PICK left \in partlyFilled(row, who, done), marked \in SUBSET {k} :
            /\ k \in marked => left = filled(row, who, done)
            /\ files' = [files EXCEPT ![k] = left]
            /\ marker' = [marker EXCEPT ![k] = @ \/ k \in marked]
      BY <2>2 DEF AckCompleteFails
    <3>3. \A j \in IDs :
            /\ status'[j] = IF j = k THEN "abandoned" ELSE status[j]
            /\ acked'[j] = IF j = k THEN {} ELSE acked[j]
            /\ j # k => files'[j] = files[j] /\ marker'[j] = marker[j]
      BY <1>i, <2>0, <2>2, <3>2 DEF AckCompleteFails, TypeOK
    <3>4. marker'[k] =>
            \A t \in Subtasks :
              files'[k][t] = IF t = s THEN k ELSE IF t \in acked[k] THEN files[k][t] ELSE done[t]
      <4>1. ~marker[k]
        BY <1>i, <2>0, <3>1 DEF MarkedAreTerminal
      <4> QED BY <1>i, <2>0, <3>2, <4>1 DEF TypeOK, filled
    <3>5. \A t \in Subtasks : t # s /\ t \notin acked[k] =>
            done[t] # NoFile /\ stopped[t] # "no" /\ next[t] <= k
      BY <2>0, <3>1, OutstandingNone, NotCounted
    <3>6. \A t \in Subtasks : t \in acked[k] => files[k][t] = k /\ k < next[t]
      BY <1>i, <2>0 DEF AckedHaveFiles
    <3>7. \A t \in Subtasks : /\ stopped'[t] = IF t = s THEN "failed" ELSE stopped[t]
                              /\ next[t] \in Nat
      BY <1>i, <2>0 DEF TypeOK
    <3>8. AckedHaveFiles' /\ PassedAreAcked' /\ DoneHaveStopped'
      BY <1>i, <2>0, <3>1, <3>3, <3>7
         DEF AckedHaveFiles, PassedAreAcked, DoneHaveStopped, terminal
    <3>9. MarkedAreTerminal' /\ CompleteCountsAll'
      BY <1>i, <2>0, <3>1, <3>3, <3>7 DEF MarkedAreTerminal, CompleteCountsAll, terminal
    <3>10. MarkerVouches'
      <4>1. ASSUME NEW j \in IDs, j # k PROVE MarkerVouches!(j)'
        BY <1>i, <2>0, <3>1, <3>3, <3>7, <4>1 DEF MarkerVouches
      <4>2. MarkerVouches!(k)'
        BY <2>0, <3>1, <3>3, <3>4, <3>5, <3>6, <3>7
      <4> QED BY <4>1, <4>2 DEF MarkerVouches
    <3> QED BY <3>8, <3>9, <3>10
  <2> QED BY <1>2, <2>1, <2>2 DEF SubtaskAcknowledgeFails, AcknowledgeFails
<1>3. ASSUME NEW s \in Subtasks, SubtaskSnapshotFails(s) PROVE Rest'
  BY <1>i, <1>3
     DEF SubtaskSnapshotFails, Fail, running, disk, TypeOK, AckedHaveFiles, PassedAreAcked,
         DoneHaveStopped, MarkedAreTerminal, CompleteCountsAll, MarkerVouches, terminal
<1>4. ASSUME NEW s \in Sources, SourceFinishes(s) PROVE Rest'
  <2> PICK over : over = [done EXCEPT ![s] = 0]
    OBVIOUS
  <2>0. s \in Subtasks /\ stopped[s] = "no" /\ next' = next
    BY <1>4 DEF SourceFinishes, running
  <2>1. CASE FinishedOK(s, 0) /\ stopped' = [stopped EXCEPT ![s] = "ok"]
    <3>1. \A j \in IDs :
            \/ /\ status'[j] = status[j] /\ acked'[j] = acked[j]
               /\ files'[j] = files[j] /\ marker'[j] = marker[j]
            \/ /\ j \in ready(over) /\ acked'[j] = {}
               /\ status'[j] = "complete" /\ marker'[j]
               /\ files'[j] = filled(files[j], acked[j], over)
      BY <1>i, <2>1 DEF FinishedOK, TypeOK
    <3>2. done' = over
      BY <2>1 DEF FinishedOK
    <3> QED BY <2>0, <2>1, <3>1, <3>2, FinishedKeeps
  <2>2. CASE FinishedFails(s, 0) /\ stopped' = [stopped EXCEPT ![s] = "failed"]
    <3>1. PICK bad \in ready(over) :
          \E before \in SUBSET (ready(over) \ {bad}), marked \in SUBSET {bad} :
          \E left \in partlyFilled(files[bad], acked[bad], over) :
            /\ bad \in marked => left = filled(files[bad], acked[bad], over)
            /\ StopsAt(bad, before, left, marked, over)
      BY <2>2 DEF FinishedFails
    <3>2. PICK before \in SUBSET (ready(over) \ {bad}), marked \in SUBSET {bad} :
          \E left \in partlyFilled(files[bad], acked[bad], over) :
            /\ bad \in marked => left = filled(files[bad], acked[bad], over)
            /\ StopsAt(bad, before, left, marked, over)
      BY <3>1
    <3>3. PICK left \in partlyFilled(files[bad], acked[bad], over) :
            /\ bad \in marked => left = filled(files[bad], acked[bad], over)
            /\ StopsAt(bad, before, left, marked, over)
      BY <3>2
    <3>4. bad \in IDs /\ status[bad] = "open" /\ ~marker[bad]
      BY <1>i DEF ready, MarkedAreTerminal, terminal
    <3>5. \A j \in IDs :
            \/ /\ status'[j] = status[j] /\ acked'[j] = acked[j]
               /\ files'[j] = files[j] /\ marker'[j] = marker[j]
            \/ /\ j \in ready(over) /\ acked'[j] = {}
               /\ status'[j] \in {"complete", "abandoned"}
               /\ status'[j] = "complete" => marker'[j]
               /\ marker'[j] => files'[j] = filled(files[j], acked[j], over)
      BY <1>i, <3>3, <3>4 DEF StopsAt, TypeOK
    <3>6. done' = over
      BY <2>2 DEF FinishedFails
    <3> QED BY <2>0, <2>2, <3>5, <3>6, FinishedKeeps
  <2> QED BY <1>4, <2>1, <2>2 DEF SourceFinishes
<1>5. ASSUME NEW s \in Operators, OperatorReturns(s) PROVE Rest'
  BY <1>i, <1>5
     DEF OperatorReturns, Operators, coordinator, memory, disk, TypeOK, AckedHaveFiles,
         PassedAreAcked, DoneHaveStopped, MarkedAreTerminal, CompleteCountsAll, MarkerVouches,
         terminal
<1>6. ASSUME NEW s \in Sinks, SinkEnds(s) PROVE Rest'
  BY <1>i, <1>6
     DEF SinkEnds, AwaitBegins, AwaitChecks, AwaitCancelled, coordinator, memory, disk, TypeOK,
         AckedHaveFiles, PassedAreAcked, DoneHaveStopped, MarkedAreTerminal, CompleteCountsAll,
         MarkerVouches, terminal
<1>7. ASSUME Cancel \/ UNCHANGED vars PROVE Rest'
  <2>1. UNCHANGED <<status, acked, done, files, marker, next, stopped>>
    BY <1>7 DEF Cancel, vars, coordinator, memory, disk
  <2> QED BY <1>i, <2>1 DEF AckedHaveFiles, PassedAreAcked, DoneHaveStopped, MarkedAreTerminal,
                            CompleteCountsAll, MarkerVouches, terminal
<1> QED BY <1>t, <1>1, <1>2, <1>3, <1>4, <1>5, <1>6, <1>7 DEF Next, IInv

-----------------------------------------------------------------------------
(* Every variable has its type, for any shape of job. *)
THEOREM TypeCorrect == Spec => []TypeOK
<1>1. Init => TypeOK
  BY InitIInv DEF IInv
<1> QED BY <1>1, TypeStep, PTL DEF Spec

(* IInv is an invariant. *)
THEOREM Inductive == Spec => []IInv
BY InitIInv, IInvStep, PTL DEF Spec

(* A _COMPLETE marker vouches for every file of its checkpoint. *)
THEOREM MarkersVouch == Spec => []MarkerVouches
<1>1. IInv => MarkerVouches
  BY DEF IInv
<1> QED BY <1>1, Inductive, PTL

(* Acknowledge never meets errDuplicateAck. *)
THEOREM NothingRefused == Spec => []NeverRefused
<1>1. IInv => NeverRefused
  <2> SUFFICES ASSUME IInv, NEW s \in Subtasks, running(s), next[s] \in IDs
               PROVE  ~refused(next[s], s)
    BY DEF NeverRefused
  <2>0. next[s] \in Nat /\ ~(next[s] < next[s]) /\ done[s] = NoFile
    BY DEF IInv, TypeOK, DoneHaveStopped, running
  <2>1. s \notin acked[next[s]]
    BY <2>0 DEF IInv, AckedHaveFiles
  <2>2. status[next[s]] # "complete"
    BY <2>0 DEF IInv, CompleteCountsAll
  <2> QED BY <2>1, <2>2 DEF refused
<1> QED BY <1>1, Inductive, PTL

(* A sleeping sink has something to wait for, after every step. *)
LEMMA WakeupStep == TypeOK /\ NoLostWakeup /\ [Next]_vars => NoLostWakeup'
<1> SUFFICES ASSUME TypeOK, NoLostWakeup, [Next]_vars,
                    NEW t \in Sinks, waiter'[t] = "asleep"
             PROVE  ~settled(acknowledgedBy(t))'
  BY DEF NoLostWakeup
<1> USE ShapeAssumption, IDsAssumption
<1>a. announced[t] # "asleep"
  BY DEF announced
<1>b. ASSUME waiter' = waiter, next'[t] = next[t],
             \A j \in IDs : terminal(j)' => terminal(j)
      PROVE  ~settled(acknowledgedBy(t))'
  BY <1>b DEF NoLostWakeup, settled, acknowledgedBy
<1>1. ASSUME NEW s \in Subtasks, SubtaskAcknowledges(s) PROVE ~settled(acknowledgedBy(t))'
  <2>1. waiter' # announced
    BY <1>a
  <2>2. waiter' = waiter /\ \A j \in IDs : terminal(j)' => terminal(j)
    BY <1>1, <2>1
       DEF SubtaskAcknowledges, Acknowledged, AckIgnored, AckRecorded, AckCompletes,
           coordinator, memory, disk, terminal, TypeOK
  <2>3. t # s
    BY <1>1, <2>2 DEF SubtaskAcknowledges, running
  <2>4. next'[t] = next[t]
    BY <1>1, <2>3 DEF SubtaskAcknowledges, TypeOK
  <2> QED BY <1>b, <2>2, <2>4
<1>2. ASSUME NEW s \in Subtasks, SubtaskAcknowledgeFails(s) PROVE FALSE
  BY <1>2, <1>a DEF SubtaskAcknowledgeFails, AcknowledgeFails, AckWriteFails, AckCompleteFails
<1>3. ASSUME NEW s \in Subtasks, SubtaskSnapshotFails(s) PROVE ~settled(acknowledgedBy(t))'
  <2>1. status' = status /\ waiter' = waiter /\ next' = next
    BY <1>3, <1>a DEF SubtaskSnapshotFails, Fail, TypeOK
  <2> QED BY <1>b, <2>1 DEF terminal
<1>4. ASSUME NEW s \in Sources, SourceFinishes(s) PROVE ~settled(acknowledgedBy(t))'
  <2>1. CASE FinishedOK(s, 0)
    <3>1. waiter' = waiter /\ \A j \in IDs : status'[j] = status[j]
      BY <1>a, <2>1 DEF FinishedOK
    <3> QED BY <1>4, <1>b, <3>1 DEF SourceFinishes, terminal
  <2>2. CASE FinishedFails(s, 0)
    BY <1>a, <2>2 DEF FinishedFails, StopsAt
  <2> QED BY <1>4, <2>1, <2>2 DEF SourceFinishes
<1>5. ASSUME NEW s \in Operators, OperatorReturns(s) PROVE ~settled(acknowledgedBy(t))'
  BY <1>5, <1>b DEF OperatorReturns, coordinator, memory, disk, terminal
<1>6. ASSUME NEW s \in Sinks, SinkEnds(s) PROVE ~settled(acknowledgedBy(t))'
  <2>1. status' = status /\ next' = next
    BY <1>6 DEF SinkEnds, AwaitBegins, AwaitChecks, AwaitCancelled, coordinator, memory, disk
  <2>2. settled(acknowledgedBy(t))' <=> settled(acknowledgedBy(t))
    BY <2>1 DEF settled, acknowledgedBy, terminal
  <2>3. CASE waiter[t] = "asleep"
    BY <2>2, <2>3 DEF NoLostWakeup
  <2>4. CASE waiter[t] # "asleep"
    <3>1. t = s /\ AwaitChecks(s, acknowledgedBy(s))
      BY <1>6, <2>4
         DEF SinkEnds, AwaitBegins, AwaitChecks, AwaitCancelled, coordinator, memory, disk, TypeOK
    <3> QED BY <2>2, <3>1 DEF AwaitChecks, TypeOK
  <2> QED BY <2>3, <2>4
<1>7. ASSUME Cancel \/ UNCHANGED vars PROVE ~settled(acknowledgedBy(t))'
  <2>1. status' = status /\ waiter' = waiter /\ next' = next
    BY <1>7 DEF Cancel, vars, coordinator, memory, disk
  <2> QED BY <1>b, <2>1 DEF terminal
<1> QED BY <1>1, <1>2, <1>3, <1>4, <1>5, <1>6, <1>7 DEF Next

(* No sink sleeps through the end of the last checkpoint it waits for. *)
THEOREM NoWakeupLost == Spec => []NoLostWakeup
<1>1. Init => NoLostWakeup
  BY DEF Init, CoordinatorInit, fresh, NoLostWakeup
<1> QED BY <1>1, WakeupStep, TypeCorrect, PTL DEF Spec

-----------------------------------------------------------------------------
(* Nobody has failed. *)
Unfailed == \A s \in Subtasks : stopped[s] # "failed"

(* No step leaves a checkpoint open that nobody is outstanding for. *)
LEMMA ReadyStep == TypeOK /\ NoneLeftReady /\ [Next]_vars => NoneLeftReady'
<1> SUFFICES ASSUME TypeOK, NoneLeftReady, [Next]_vars, Unfailed'
             PROVE  ready(done)' = {}
  BY DEF NoneLeftReady, Unfailed
<1> USE ShapeAssumption, IDsAssumption, PayloadsAssumption
<1>0. ASSUME Unfailed PROVE ready(done) = {}
  BY <1>0 DEF NoneLeftReady, Unfailed
<1>a. ASSUME stopped' = stopped PROVE ready(done) = {}
  BY <1>0, <1>a DEF Unfailed
<1>1. ASSUME NEW s \in Subtasks, SubtaskAcknowledges(s) PROVE ready(done)' = {}
  <2> PICK k \in IDs : k = next[s]
    BY <1>1 DEF SubtaskAcknowledges
  <2>0. ready(done) = {}
    BY <1>1, <1>a DEF SubtaskAcknowledges
  <2>1. CASE AckIgnored(k, s)
    BY <2>0, <2>1 DEF AckIgnored, coordinator, memory, disk, ready, outstanding
  <2>2. CASE AckRecorded(k, s, k)
    BY <2>0, <2>2 DEF AckRecorded, TypeOK, ready, outstanding
  <2>3. CASE AckCompletes(k, s, k)
    BY <2>0, <2>3 DEF AckCompletes, TypeOK, ready, outstanding
  <2> QED BY <1>1, <2>1, <2>2, <2>3 DEF SubtaskAcknowledges, Acknowledged
<1>2. ASSUME NEW s \in Subtasks, stopped' = [stopped EXCEPT ![s] = "failed"] PROVE FALSE
  BY <1>2 DEF Unfailed, TypeOK
<1>3. ASSUME NEW s \in Sources, SourceFinishes(s) PROVE ready(done)' = {}
  <2>1. FinishedOK(s, 0)
    BY <1>2, <1>3 DEF SourceFinishes
  <2> PICK over : over = [done EXCEPT ![s] = 0]
    OBVIOUS
  <2>2. done' = over /\ \A j \in IDs :
          /\ status'[j] = IF j \in ready(over) THEN "complete" ELSE status[j]
          /\ acked'[j] = IF j \in ready(over) THEN {} ELSE acked[j]
    BY <2>1 DEF FinishedOK
  <2> SUFFICES ASSUME NEW j \in IDs, status'[j] = "open", outstanding(acked'[j], over) = {}
               PROVE  FALSE
    BY <2>2 DEF ready, outstanding
  <2>3. j \notin ready(over) /\ status[j] = "open" /\ acked'[j] = acked[j]
    BY <2>2
  <2> QED BY <2>3 DEF ready
<1>4. ASSUME NEW s \in Operators, OperatorReturns(s) PROVE ready(done)' = {}
  <2>1. Unfailed
    BY <1>4 DEF OperatorReturns, running, Unfailed, TypeOK, Operators
  <2> QED BY <1>4, <1>0, <2>1
          DEF OperatorReturns, coordinator, memory, disk, ready, outstanding
<1>5. ASSUME NEW s \in Sinks, SinkEnds(s) PROVE ready(done)' = {}
  <2>1. UNCHANGED <<status, acked, done>>
    BY <1>5 DEF SinkEnds, AwaitBegins, AwaitChecks, AwaitCancelled, coordinator, memory, disk
  <2>2. Unfailed
    BY <1>5 DEF SinkEnds, Unfailed, TypeOK
  <2> QED BY <1>0, <2>1, <2>2 DEF ready, outstanding
<1>6. ASSUME Cancel \/ UNCHANGED vars PROVE ready(done)' = {}
  <2>1. UNCHANGED <<status, acked, done, stopped>>
    BY <1>6 DEF Cancel, vars, coordinator, memory, disk
  <2> QED BY <1>a, <2>1 DEF ready, outstanding
<1> QED BY <1>1, <1>2, <1>3, <1>4, <1>5, <1>6
        DEF Next, SubtaskAcknowledgeFails, SubtaskSnapshotFails

(* A checkpoint that can be completed has been, in a run without failures. *)
THEOREM NothingLeftReady == Spec => []NoneLeftReady
<1>1. Init => NoneLeftReady
  BY DEF Init, CoordinatorInit, fresh, NoneLeftReady, ready
<1> QED BY <1>1, ReadyStep, TypeCorrect, PTL DEF Spec

-----------------------------------------------------------------------------
(* What TerminalIsFinal says of checkpoint k in one step. *)
Final(k) ==
  /\ terminal(k) => status'[k] = status[k]
  /\ status[k] = "complete" => files'[k] = files[k] /\ marker'[k]

(* A decided checkpoint is left alone by every step. *)
LEMMA FinalStep == IInv /\ [Next]_vars => \A k \in IDs : Final(k)
<1> SUFFICES ASSUME IInv, [Next]_vars, NEW j \in IDs, terminal(j)
             PROVE  Final(j)
  BY DEF Final, terminal
<1> USE ShapeAssumption, IDsAssumption, PayloadsAssumption
<1>i. TypeOK /\ (status[j] = "complete" => marker[j])
  BY DEF IInv, MarkerVouches
<1>u. ASSUME status'[j] = status[j], files'[j] = files[j], marker'[j] = marker[j]
      PROVE  Final(j)
  BY <1>i, <1>u DEF Final
<1>1. ASSUME NEW s \in Subtasks, SubtaskAcknowledges(s) PROVE Final(j)
  BY <1>i, <1>u, <1>1
     DEF SubtaskAcknowledges, Acknowledged, AckIgnored, AckRecorded, AckCompletes,
         mayAcknowledge, coordinator, memory, disk, TypeOK
<1>2. ASSUME NEW s \in Subtasks, SubtaskAcknowledgeFails(s) PROVE Final(j)
  BY <1>i, <1>u, <1>2
     DEF SubtaskAcknowledgeFails, AcknowledgeFails, AckWriteFails, AckCompleteFails,
         mayAcknowledge, TypeOK
<1>3. ASSUME NEW s \in Subtasks, SubtaskSnapshotFails(s) PROVE Final(j)
  BY <1>i, <1>u, <1>3 DEF SubtaskSnapshotFails, Fail, disk, terminal, TypeOK
<1>4. ASSUME NEW s \in Sources, SourceFinishes(s) PROVE Final(j)
  <2> PICK over : over = [done EXCEPT ![s] = 0]
    OBVIOUS
  <2>0. j \notin ready(over)
    BY DEF ready, terminal
  <2>1. CASE FinishedOK(s, 0)
    BY <1>i, <1>u, <2>0, <2>1 DEF FinishedOK, TypeOK
  <2>2. CASE FinishedFails(s, 0)
    <3>1. PICK bad \in ready(over) :
          \E before \in SUBSET (ready(over) \ {bad}), marked \in SUBSET {bad} :
          \E left \in partlyFilled(files[bad], acked[bad], over) :
            StopsAt(bad, before, left, marked, over)
      BY <2>2 DEF FinishedFails
    <3>2. PICK before \in SUBSET (ready(over) \ {bad}), marked \in SUBSET {bad} :
          \E left \in partlyFilled(files[bad], acked[bad], over) :
            StopsAt(bad, before, left, marked, over)
      BY <3>1
    <3>3. status'[j] = status[j] /\ files'[j] = files[j] /\ (marker[j] => marker'[j])
      BY <2>0, <3>2 DEF StopsAt
    <3> QED BY <1>i, <3>3 DEF Final
  <2> QED BY <1>4, <2>1, <2>2 DEF SourceFinishes
<1>5. ASSUME NEW s \in Operators, OperatorReturns(s) PROVE Final(j)
  BY <1>u, <1>5 DEF OperatorReturns, coordinator, memory, disk
<1>6. ASSUME NEW s \in Sinks, SinkEnds(s) PROVE Final(j)
  BY <1>u, <1>6
     DEF SinkEnds, AwaitBegins, AwaitChecks, AwaitCancelled, coordinator, memory, disk
<1>7. ASSUME Cancel \/ UNCHANGED vars PROVE Final(j)
  BY <1>u, <1>7 DEF Cancel, vars, coordinator, memory, disk
<1> QED BY <1>1, <1>2, <1>3, <1>4, <1>5, <1>6, <1>7 DEF Next

(* Complete and abandoned are final; a complete checkpoint keeps its files. *)
THEOREM DecisionsAreFinal == Spec => TerminalIsFinal
<1>1. IInv /\ [Next]_vars => [\A k \in IDs : Final(k)]_vars
  BY FinalStep
<1> QED BY <1>1, Inductive, PTL DEF Spec, TerminalIsFinal, Final
=============================================================================
