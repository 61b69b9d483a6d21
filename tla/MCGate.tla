------------------------------- MODULE MCGate -------------------------------
(***************************************************************************)
(* Small instances of Gate.  The streams are all the well-formed ones of   *)
(* bounded length over the element kinds a run asks for, cut off anywhere  *)
(* (a producer that failed) unless the run keeps only complete ones.       *)
(***************************************************************************)
EXTENDS Gate

CONSTANTS MaxLen,       \* longest stream
          Watermarks,   \* the watermark values a producer may send
          MaxBarriers,  \* barriers on one input
          MaxRecords,   \* records on one input
          MaxEOS        \* 2 lets a producer repeat its end-of-stream

MCElements ==
  {[kind |-> "record", val |-> 0], [kind |-> "eos", val |-> 0]}
    \cup {[kind |-> "watermark", val |-> w] : w \in Watermarks}
    \cup {[kind |-> "barrier", val |-> RestoredID + k] : k \in 1..MaxBarriers}

count(s, kind) == Cardinality({n \in 1..Len(s) : s[n].kind = kind})

MCStreams ==
  {s \in UNION {[1..n -> MCElements] : n \in 0..MaxLen} :
     /\ WellFormed(s)
     /\ count(s, "record") <= MaxRecords
     /\ count(s, "eos") <= MaxEOS}

(* Without the failed producers. *)
MCCompleteStreams ==
  {s \in MCStreams : \E n \in 1..Len(s) : s[n].kind = "eos"}

(* Of these, the ones with watermarks carry one record as well, a barrier *)
(* or another watermark, and end once; and a producer that failed at once. *)
MCMixedStreams ==
  {s \in MCCompleteStreams :
     count(s, "watermark") > 0
       => /\ Len(s) = MaxLen /\ count(s, "eos") = 1
          /\ count(s, "record") = 1 /\ count(s, "barrier") <= 1}
  \cup {<< >>}
=============================================================================
