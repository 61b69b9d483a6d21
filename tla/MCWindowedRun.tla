--------------------------- MODULE MCWindowedRun ---------------------------
(***************************************************************************)
(* Small inputs for WindowedRun, on four-bit times.                        *)
(***************************************************************************)
EXTENDS WindowedRun

CONSTANTS MaxLen,       \* longest input
          EventTimes    \* the event times that occur

FourBitMin == -8

KeyAndTime == [key : Keys, time : EventTimes]

AnyInput == UNION {[1..n -> KeyAndTime] : n \in 0..MaxLen}

(* Around zero, where the remainder of a negative time matters. *)
AroundZero == -3..2

(* Up to both ends of the range. *)
AtTheEnds == {-8, -7, -6, 0, 5, 6, 7}
=============================================================================
