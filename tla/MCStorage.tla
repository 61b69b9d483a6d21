------------------------------ MODULE MCStorage ------------------------------
(* A root shared by a job of two subtasks and its variant with one of them. *)
EXTENDS Storage
CONSTANTS p, q
OneOrBoth == {{p}, {p, q}}
=============================================================================
