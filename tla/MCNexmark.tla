----------------------------- MODULE MCNexmark -----------------------------
(***************************************************************************)
(* Small seeds for NexmarkRun, on four-bit times.                          *)
(***************************************************************************)
EXTENDS NexmarkRun, NexmarkSource

CONSTANTS First, Count,   \* the offsets the source subtask reads
          Lags            \* how late the last bid may be

FourBitMin == -8
Base == -3

(* Two auctions; at the first one two prices, and two bidders at the lower. *)
Draws == {[auction |-> 1, person |-> 1, price |-> 1],
          [auction |-> 1, person |-> 2, price |-> 1],
          [auction |-> 1, person |-> 2, price |-> 2],
          [auction |-> 2, person |-> 1, price |-> 1]}

(* An offset that is no bid only moves the time on.  The last one is a bid *)
(* that is late, for windows that the first bids have or have not fallen   *)
(* into and that have fired.                                               *)
Offsets == First .. First + Count - 1
Dealt(i) == IF TypeAt(i) # "bid" THEN {CHOOSE d \in Draws : TRUE} \X {0}
            ELSE Draws \X IF i < First + Count - 1 THEN {0} ELSE Lags
Seeds ==
  {[i \in Offsets |-> [auction |-> p[i][1].auction, person |-> p[i][1].person,
                       price |-> p[i][1].price, lag |-> p[i][2]]] :
     p \in {f \in [Offsets -> Draws \X ({0} \cup Lags)] : \A i \in Offsets : f[i] \in Dealt(i)}}

NexmarkInputs == {[n \in 1..Count |-> At(seed, First + n - 1)] : seed \in Seeds}

NexmarkRecords == UNION {{At(seed, i) : i \in Offsets} : seed \in Seeds}
=============================================================================
