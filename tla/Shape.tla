-------------------------------- MODULE Shape --------------------------------
(***************************************************************************)
(* The shape of a job as its checkpoints record it (checkpoint.Metadata,   *)
(* buildMetadata): the subtasks, those of source and of sink vertices, and *)
(* the checkpoint IDs its barriers can carry.                              *)
(***************************************************************************)
EXTENDS Integers, FiniteSets

CONSTANTS Subtasks,    \* Metadata.Subtasks(): every subtask of the job
          Sources,     \* subtasks of source vertices
          Sinks,       \* subtasks of sink vertices
          IDs,         \* the checkpoint IDs, 1 to the longest source's budget
          NoFile       \* no file of that name in a directory

ASSUME ShapeAssumption ==
  /\ Sources \subseteq Subtasks
  /\ Sinks \subseteq Subtasks
  /\ Sources \cap Sinks = {}
  /\ IDs \subseteq Nat

Operators == Subtasks \ (Sources \cup Sinks)
=============================================================================
