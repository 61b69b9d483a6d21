--------------------------- MODULE SaturatedTime ---------------------------
(***************************************************************************)
(* Event time: int64 milliseconds, and the arithmetic that must not wrap.  *)
(* pkg/runtime/source_task.go and pkg/operators/window.go each have their  *)
(* own subFloor; addCeil and floorMod are in window.go.  MinTime..MaxTime  *)
(* stands for the int64 range, and + and - are Go's: they wrap around.     *)
(* Below them, how a time is written into a key (pkg/state/encoding.go).   *)
(***************************************************************************)
EXTENDS Integers

CONSTANTS MinTime,   \* math.MinInt64
          MaxTime    \* math.MaxInt64

ASSUME TimeAssumption ==
  /\ MinTime \in Int /\ MaxTime \in Int
  /\ MinTime < 0 /\ MaxTime = -(MinTime + 1)

Times == MinTime..MaxTime

(* Two's complement: the sum or difference of two times wraps once at most. *)
wrap(x) == CASE x > MaxTime -> x - (MaxTime - MinTime + 1)
             [] x < MinTime -> x + (MaxTime - MinTime + 1)
             [] OTHER -> x

subFloor(a, b) ==
  LET d == wrap(a - b)
  IN CASE b < 0 /\ d < a -> MaxTime
       [] b > 0 /\ d > a -> MinTime
       [] OTHER -> d

addCeil(a, b) ==
  LET s == wrap(a + b)
  IN IF b > 0 /\ s < a THEN MaxTime ELSE s

(* Go's %, which truncates. *)
remainder(a, b) == IF a >= 0 THEN a % b ELSE -((-a) % b)

floorMod(a, b) ==
  LET m == remainder(a, b) IN IF m < 0 THEN m + b ELSE m

-----------------------------------------------------------------------------
(* The eight bytes of a key as the unsigned number they sort by. *)
bigEndian(v) == IF v < 0 THEN v + (MaxTime - MinTime + 1) ELSE v

(* Mutant: a time is written as it is. *)
BadEncodeOrderedPlain(v) == bigEndian(v)

(* The sign bit is flipped. *)
EncodeOrderedInt64(v) ==
  IF bigEndian(v) > MaxTime THEN bigEndian(v) - (MaxTime + 1) ELSE bigEndian(v) + (MaxTime + 1)
=============================================================================
