------------------------------- MODULE Output -------------------------------
(***************************************************************************)
(* What the reader of a job's output is promised, whatever the job goes    *)
(* through: out is the set of records that can be read, it only grows, and *)
(* the job is over only once it holds every record.                        *)
(***************************************************************************)
CONSTANT Records

VARIABLES out, over

vars == <<out, over>>

Init == out = {} /\ over = FALSE

Publish ==
  /\ ~over
  /\ out' \in SUBSET Records
  /\ out \subseteq out'
  /\ UNCHANGED over

End ==
  /\ out = Records
  /\ over' = TRUE
  /\ UNCHANGED out

Spec == Init /\ [][Publish \/ End]_vars
=============================================================================
