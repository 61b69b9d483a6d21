--------------------------- MODULE NexmarkSource ---------------------------
(***************************************************************************)
(* The Nexmark event source: pkg/sources/nexmark.go.  Element n is a       *)
(* function of the seed and of n alone, so the source keeps its position   *)
(* and nothing else.  A seed is what the hash makes of it: the draws of    *)
(* every offset.  An element keeps the fields some query reads.            *)
(***************************************************************************)
EXTENDS SaturatedTime

CONSTANTS PersonsPerCycle, AuctionsPerCycle, BidsPerCycle,   \* the event mix
          BaseEventTime, EventTimeStep, MaxLag               \* of NexmarkConfig

ASSUME NexmarkAssumption ==
  /\ PersonsPerCycle \in Nat /\ AuctionsPerCycle \in Nat /\ BidsPerCycle \in Nat \ {0}
  /\ BaseEventTime \in Times /\ EventTimeStep \in Int /\ MaxLag \in Nat

(* Every cycle begins with its persons, then has its auctions. *)
TypeAt(i) ==
  LET phase == i % (PersonsPerCycle + AuctionsPerCycle + BidsPerCycle)
  IN CASE phase < PersonsPerCycle -> "person"
       [] phase \in PersonsPerCycle .. PersonsPerCycle + AuctionsPerCycle - 1 -> "auction"
       [] OTHER -> "bid"

(* The in-order time of the offset, pulled back by its lag in 0..MaxLag. *)
timeOf(seed, i) == wrap((BaseEventTime + i * EventTimeStep) - (seed[i].lag % (MaxLag + 1)))

(* A bid is keyed on its auction, a person and an auction on themselves. *)
At(seed, i) ==
  [key    |-> IF TypeAt(i) = "person" THEN seed[i].person ELSE seed[i].auction,
   time   |-> timeOf(seed, i),
   type   |-> TypeAt(i),
   bidder |-> seed[i].person,
   price  |-> seed[i].price]
=============================================================================
