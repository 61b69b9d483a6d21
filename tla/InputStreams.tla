---------------------------- MODULE InputStreams ----------------------------
(***************************************************************************)
(* The inputs of one gate and what their producers may send.               *)
(***************************************************************************)
EXTENDS Elements

CONSTANTS NumInputs,     \* len(inputs)
          RestoredID,    \* checkpoint the job resumed from, 0 for a fresh run
          Streams        \* what a producer may send: well-formed sequences

Inputs == 1..NumInputs

(***************************************************************************)
(* What a producer sends on one channel: watermarks never decrease,        *)
(* barriers are numbered contiguously from the restored checkpoint, and    *)
(* nothing but a repeated end-of-stream follows an end-of-stream.          *)
(***************************************************************************)
WellFormed(s) ==
  \A n \in 1..Len(s) :
    /\ s[n].kind = "watermark" =>
         /\ s[n].val \in Times
         /\ \A m \in 1..n-1 : s[m].kind = "watermark" => s[m].val <= s[n].val
    /\ s[n].kind = "barrier" =>
         /\ s[n].val > RestoredID
         /\ \A m \in 1..n-1 : s[m].kind = "barrier" => s[m].val < s[n].val
         /\ \A k \in RestoredID+1..s[n].val-1 :
              \E m \in 1..n-1 : s[m].kind = "barrier" /\ s[m].val = k
    /\ \A m \in 1..n-1 : s[m].kind = "eos" => s[n].kind = "eos"

ASSUME InputsAssumption == NumInputs \in Nat \ {0} /\ RestoredID \in Nat

ASSUME StreamsAssumption ==
  Streams \subseteq Seq(Element) /\ \A s \in Streams : WellFormed(s)
=============================================================================
