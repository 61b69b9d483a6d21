--------------------------- MODULE MCSourceVertex ---------------------------
(***************************************************************************)
(* Source vertices of every small count, parallelism and interval.         *)
(***************************************************************************)
EXTENDS SourceVertex

FourBitMin == -8
=============================================================================
