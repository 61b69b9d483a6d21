---------------------------- MODULE SourceVertex ----------------------------
(***************************************************************************)
(* The subtasks of one source vertex reading side by side, crashing and    *)
(* resuming (sourceLoop and seekToRange in pkg/runtime/source_task.go,     *)
(* runSourceSubtask in subtask.go).  A checkpoint can be resumed from once *)
(* every subtask has injected its barrier.                                 *)
(***************************************************************************)
EXTENDS SourceTask, FiniteSets

CONSTANTS MaxCount, MaxParallelism, MaxInterval,  \* bounds: the vertices tried
          MaxCrashes                              \* bound: crashes of a run

ASSUME VertexAssumption ==
  MaxCount \in Nat /\ MaxParallelism \in Nat /\ MaxInterval \in Nat /\ MaxCrashes \in Nat

VARIABLES
  vertex,    \* [count, parallelism, interval]
  position,  \* position[i]: Position() of subtask i
  gen,       \* gen[i]: its barrier generator
  cuts,      \* disk: cuts[i], the positions recorded for checkpoints, by ID
  read,      \* history: read[i], the offsets subtask i has emitted
  readAt,    \* history: readAt[i], what read[i] was at each barrier
  moved,     \* history: some checkpoint was recorded at two positions
  crashes

vars == <<vertex, position, gen, cuts, read, readAt, moved, crashes>>

Subtasks == 0 .. vertex.parallelism - 1

range(i) == sourceRange(vertex.count, vertex.parallelism, i)

budget == maxBarriers(vertex.count, vertex.parallelism, vertex.interval)

Init ==
  /\ vertex \in [count : 0..MaxCount, parallelism : 1..MaxParallelism, interval : 0..MaxInterval]
  /\ position = [i \in Subtasks |-> range(i).start]
  /\ gen = [i \in Subtasks |-> newBarrierGenerator]
  /\ cuts = [i \in Subtasks |-> << >>]
  /\ read = [i \in Subtasks |-> {}]
  /\ readAt = [i \in Subtasks |-> << >>]
  /\ moved = FALSE /\ crashes = 0

with(f, k, v) == [x \in DOMAIN f \cup {k} |-> IF x = k THEN v ELSE f[x]]

(* A record goes out, then the barrier that is due after it, whose         *)
(* snapshot is the position.                                               *)
Emit(i) ==
  LET id == barrierAfter(gen[i], vertex.interval, budget)
      seen == read[i] \cup {position[i]}
  IN /\ position[i] < range(i).end
     /\ position' = [position EXCEPT ![i] = @ + 1]
     /\ gen' = [gen EXCEPT ![i] = barrierOnRecord(@, vertex.interval, budget)]
     /\ read' = [read EXCEPT ![i] = seen]
     /\ \/ id = 0 /\ UNCHANGED <<cuts, readAt, moved>>
        \/ /\ id > 0
           /\ cuts' = [cuts EXCEPT ![i] = with(@, id, position'[i])]
           /\ readAt' = [readAt EXCEPT ![i] = with(@, id, seen)]
           /\ moved' = (moved \/ (id \in DOMAIN cuts[i] /\ cuts[i][id] # position'[i]))
     /\ UNCHANGED <<vertex, crashes>>

complete(k) == \A i \in Subtasks : k \in DOMAIN cuts[i]

(* The job is run again from checkpoint k, or from the start of the ranges. *)
Resume(k) ==
  /\ crashes < MaxCrashes
  /\ k = 0 \/ complete(k)
  /\ position' = [i \in Subtasks |-> IF k = 0 THEN range(i).start ELSE cuts[i][k]]
  /\ gen' = [i \in Subtasks |-> resumed(k)]
  /\ read' = [i \in Subtasks |-> IF k = 0 THEN {} ELSE readAt[i][k]]
  /\ crashes' = crashes + 1
  /\ UNCHANGED <<vertex, cuts, readAt, moved>>

Next ==
  \/ \E i \in Subtasks : Emit(i)
  \/ \E k \in 0..MaxCount : Resume(k)

Spec == Init /\ [][Next]_vars

-----------------------------------------------------------------------------
finished == \A i \in Subtasks : position[i] = range(i).end

(* What counts as emitted is what the position says: each subtask's own    *)
(* offsets up to there and nothing else, so that at the end every offset   *)
(* has been read by one subtask and only by one.                           *)
EachRecordOnce ==
  /\ \A i \in Subtasks : Cardinality(read[i]) = position[i] - range(i).start
  /\ \A h, i \in Subtasks : h # i => read[h] \cap read[i] = {}
  /\ finished => UNION {read[i] : i \in Subtasks} = 0 .. vertex.count - 1

(* Every subtask that comes to the end of its range has injected the same  *)
(* barriers, so nobody downstream aligns on one that never arrives.        *)
SameBarriers ==
  \A i \in Subtasks :
    position[i] = range(i).end => gen[i].injected = budget /\ DOMAIN cuts[i] = 1..budget

(* A checkpoint ID names one position of each subtask in every run: a      *)
(* resumed run puts its barriers where the first one did or would have.    *)
OneCutPerID == ~moved

(* A subtask never leaves its range or its budget, resumed or not. *)
TypeOK ==
  \A i \in Subtasks :
    /\ position[i] \in range(i).start .. range(i).end
    /\ gen[i].injected \in 0..budget /\ gen[i].sinceLast >= 0
=============================================================================
