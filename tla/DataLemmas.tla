----------------------------- MODULE DataLemmas -----------------------------
(***************************************************************************)
(* Facts about numbers, sets of numbers and sequences that the proofs of   *)
(* several modules rest on.                                                *)
(***************************************************************************)
EXTENDS Integers, Sequences, FiniteSets, SequencesExt, WellFoundedInduction, TLAPS

-----------------------------------------------------------------------------
(* Induction, as a statement about a set of numbers.                       *)

Below == {p \in Nat \X Nat : p[1] < p[2]}

(* A set of natural numbers that is not empty has a least element. *)
LEMMA LeastNat ==
  ASSUME NEW T, T \subseteq Nat, T # {}
  PROVE  \E x \in T : \A y \in T : x <= y
<1>1. Below = OpToRel(<, Nat)
  BY DEF Below, OpToRel
<1>2. IsWellFoundedOn(Below, Nat)
  BY <1>1, NatLessThanWellFounded, Zenon
<1>3. PICK x \in T : \A y \in T : ~ (<<y, x>> \in Below)
  BY <1>2, WFMin
<1>4. ASSUME NEW y \in T PROVE x <= y
  <2>1. <<y, x>> \in Nat \X Nat /\ <<y, x>>[1] = y /\ <<y, x>>[2] = x
    OBVIOUS
  <2>2. ~ (y < x)
    BY <1>3, <2>1 DEF Below
  <2>. QED
    BY <2>2
<1>. QED
  BY <1>4

(* What holds of 0, and of n + 1 when of n, holds of every number. *)
LEMMA NatSetInduction ==
  ASSUME NEW T, 0 \in T, \A n \in Nat : n \in T => n + 1 \in T
  PROVE  Nat \subseteq T
<1>. SUFFICES ASSUME Nat \ T # {} PROVE FALSE
  OBVIOUS
<1>1. PICK n \in Nat \ T : \A y \in Nat \ T : n <= y
  BY LeastNat
<1>2. n # 0 /\ n - 1 \in Nat
  OBVIOUS
<1>3. n - 1 \in T
  BY <1>1, <1>2
<1>. QED
  BY <1>2, <1>3

-----------------------------------------------------------------------------
(* Division of natural numbers.                                            *)

(* The quotient is the number of times p fits into a. *)
LEMMA DivFits ==
  ASSUME NEW a \in Nat, NEW p \in Nat \ {0}
  PROVE  /\ a \div p \in Nat
         /\ (a \div p) * p <= a
         /\ a < (a \div p) * p + p
OBVIOUS

(* No larger number fits. *)
LEMMA DivGreatest ==
  ASSUME NEW a \in Nat, NEW p \in Nat \ {0}, NEW q \in Nat, q * p <= a
  PROVE  q <= a \div p
<1>. DEFINE d == a \div p
<1>1. d \in Nat /\ a < d * p + p
  BY DivFits
<1>. HIDE DEF d
<1>. SUFFICES ASSUME q > d PROVE FALSE
  BY <1>1 DEF d
<1>2. PICK e \in Nat : q = d + 1 + e
  <2>1. q - d - 1 \in Nat
    BY <1>1
  <2>. QED
    BY <1>1, <2>1
<1>3. q * p = d * p + p + e * p /\ e * p \in Nat /\ d * p \in Nat
  BY <1>1, <1>2
<1>. QED
  BY <1>1, <1>3

(* Division keeps the order. *)
LEMMA DivMonotonic ==
  ASSUME NEW a \in Nat, NEW b \in Nat, a <= b, NEW p \in Nat \ {0}
  PROVE  a \div p <= b \div p
<1>1. a \div p \in Nat /\ (a \div p) * p <= b /\ (a \div p) * p \in Nat
  BY DivFits
<1>. QED
  BY <1>1, DivGreatest

(* Rounding down two parts loses at least what rounding down the sum does. *)
LEMMA DivSum ==
  ASSUME NEW a \in Nat, NEW b \in Nat, NEW p \in Nat \ {0}
  PROVE  a \div p + b \div p <= (a + b) \div p
<1>. DEFINE x == a \div p
            y == b \div p
<1>1. x \in Nat /\ y \in Nat /\ x * p <= a /\ y * p <= b
  BY DivFits
<1>2. x * p \in Nat /\ y * p \in Nat /\ (x + y) * p = x * p + y * p
  BY <1>1
<1>3. (x + y) * p <= a + b /\ a + b \in Nat /\ x + y \in Nat
  BY <1>1, <1>2
<1>. QED
  BY <1>3, DivGreatest

-----------------------------------------------------------------------------
(* Least and greatest elements.                                            *)

(* Min is the least element of a set that is bounded below. *)
LEMMA MinIsLeast ==
  ASSUME NEW S \in SUBSET Int, S # {}, NEW lo \in Int, \A x \in S : lo <= x
  PROVE  Min(S) \in S /\ \A y \in S : Min(S) <= y
<1>. DEFINE T == {x - lo : x \in S}
<1>1. T \subseteq Nat /\ T # {}
  <2>1. \A x \in S : x - lo \in Nat
    OBVIOUS
  <2>. QED
    BY <2>1
<1>2. PICK t \in T : \A u \in T : t <= u
  BY <1>1, LeastNat
<1>3. PICK x \in S : t = x - lo
  BY <1>2
<1>4. \A y \in S : x <= y
  <2>. SUFFICES ASSUME NEW y \in S PROVE x <= y
    OBVIOUS
  <2>1. t <= y - lo
    BY <1>2
  <2>. QED
    BY <1>3, <2>1
<1>. QED
  BY <1>4, Zenon DEF Min

(* Max is the greatest element of a set that is bounded above. *)
LEMMA MaxIsGreatest ==
  ASSUME NEW S \in SUBSET Int, S # {}, NEW hi \in Int, \A x \in S : x <= hi
  PROVE  Max(S) \in S /\ \A y \in S : y <= Max(S)
<1>. DEFINE T == {hi - x : x \in S}
<1>1. T \subseteq Nat /\ T # {}
  <2>1. \A x \in S : hi - x \in Nat
    OBVIOUS
  <2>. QED
    BY <2>1
<1>2. PICK t \in T : \A u \in T : t <= u
  BY <1>1, LeastNat
<1>3. PICK x \in S : t = hi - x
  BY <1>2
<1>4. \A y \in S : x >= y
  <2>. SUFFICES ASSUME NEW y \in S PROVE x >= y
    OBVIOUS
  <2>1. t <= hi - y
    BY <1>2
  <2>. QED
    BY <1>3, <2>1
<1>5. Max(S) \in S /\ \A y \in S : Max(S) >= y
  BY <1>4, Zenon DEF Max
<1>. QED
  BY <1>5

-----------------------------------------------------------------------------
(* FlattenSeq: a sequence f is the parts of s one after the other when its *)
(* elements can be told where they come from, part[a] and place[a], in     *)
(* that order and without leaving anything out.                            *)
Flattens(f, s, n, part, place) ==
  /\ part \in [1..Len(f) -> 1..n] /\ place \in [1..Len(f) -> Nat]
  /\ \A a \in 1..Len(f) : place[a] \in 1..Len(s[part[a]]) /\ f[a] = s[part[a]][place[a]]
  /\ \A a, b \in 1..Len(f) :
       a < b => part[a] < part[b] \/ (part[a] = part[b] /\ place[a] < place[b])
  /\ \A j \in 1..n : \A k \in 1..Len(s[j]) :
       \E a \in 1..Len(f) : part[a] = j /\ place[a] = k

(* One more part behind. *)
LEMMA FlattensOneMore ==
  ASSUME NEW T, NEW n \in Nat, NEW s, s[n+1] \in Seq(T), NEW f \in Seq(T),
         NEW part, NEW place, Flattens(f, s, n, part, place)
  PROVE  \E part2, place2 : Flattens(f \o s[n+1], s, n + 1, part2, place2)
<1>. DEFINE m == Len(f)
            t == s[n+1]
            h == f \o t
            part2 == [a \in 1..Len(h) |-> IF a <= m THEN part[a] ELSE n + 1]
            place2 == [a \in 1..Len(h) |-> IF a <= m THEN place[a] ELSE a - m]
<1>1. m \in Nat /\ t \in Seq(T) /\ Len(t) \in Nat /\ Len(h) = m + Len(t)
  OBVIOUS
<1>2. \A a \in 1..Len(h) : h[a] = IF a <= m THEN f[a] ELSE t[a - m]
  OBVIOUS
<1>3. part \in [1..m -> 1..n] /\ place \in [1..m -> Nat]
  BY DEF Flattens
<1>4. /\ \A a \in 1..m : place[a] \in 1..Len(s[part[a]]) /\ f[a] = s[part[a]][place[a]]
      /\ \A a, b \in 1..m :
           a < b => part[a] < part[b] \/ (part[a] = part[b] /\ place[a] < place[b])
      /\ \A j \in 1..n : \A k \in 1..Len(s[j]) :
           \E a \in 1..m : part[a] = j /\ place[a] = k
  BY DEF Flattens
<1>. HIDE DEF m, h, t
<1>5. part2 \in [1..Len(h) -> 1..n+1] /\ place2 \in [1..Len(h) -> Nat]
  BY <1>1, <1>3
<1>6. ASSUME NEW a \in 1..Len(h)
      PROVE  place2[a] \in 1..Len(s[part2[a]]) /\ h[a] = s[part2[a]][place2[a]]
  <2>1. CASE a <= m
    <3>1. a \in 1..m /\ h[a] = f[a] /\ part2[a] = part[a] /\ place2[a] = place[a]
      BY <1>1, <1>2, <2>1
    <3>. QED
      BY <1>4, <3>1
  <2>2. CASE ~(a <= m)
    <3>1. a - m \in 1..Len(t) /\ h[a] = t[a - m] /\ part2[a] = n + 1 /\ place2[a] = a - m
      BY <1>1, <1>2, <2>2
    <3>. QED
      BY <3>1 DEF t
  <2>. QED
    BY <2>1, <2>2
<1>7. ASSUME NEW a \in 1..Len(h), NEW b \in 1..Len(h), a < b
      PROVE  part2[a] < part2[b] \/ (part2[a] = part2[b] /\ place2[a] < place2[b])
  <2>1. CASE b <= m
    <3>1. a \in 1..m /\ b \in 1..m
      BY <1>1, <1>7, <2>1
    <3>. QED
      BY <1>4, <1>7, <3>1
  <2>2. CASE a <= m /\ ~(b <= m)
    <3>1. part[a] \in 1..n /\ part2[a] = part[a] /\ part2[b] = n + 1
      BY <1>1, <1>3, <2>2
    <3>. QED
      BY <3>1
  <2>3. CASE ~(a <= m) /\ ~(b <= m)
    BY <1>1, <1>7, <2>3
  <2>. QED
    BY <1>1, <1>7, <2>1, <2>2, <2>3
<1>8. ASSUME NEW j \in 1..n+1, NEW k \in 1..Len(s[j])
      PROVE  \E a \in 1..Len(h) : part2[a] = j /\ place2[a] = k
  <2>1. CASE j = n + 1
    <3>1. /\ m + k \in 1..Len(h) /\ ~(m + k <= m) /\ (m + k) - m = k
      BY <1>1, <2>1 DEF t
    <3>2. part2[m + k] = n + 1 /\ place2[m + k] = k
      BY <3>1
    <3>. QED
      BY <2>1, <3>1, <3>2
  <2>2. CASE j \in 1..n
    <3>1. PICK a \in 1..m : part[a] = j /\ place[a] = k
      BY <1>4, <2>2
    <3>2. a \in 1..Len(h) /\ a <= m
      BY <1>1
    <3>. QED
      BY <3>1, <3>2
  <2>. QED
    BY <2>1, <2>2
<1>9. Flattens(h, s, n + 1, part2, place2)
  BY <1>5, <1>6, <1>7, <1>8 DEF Flattens
<1>. QED
  BY <1>9 DEF h, t

(* A function that says of every number what it says of the one before has *)
(* a value wherever its definition is asked for one.                       *)
LEMMA FlattenDefined ==
  ASSUME NEW n \in Nat, NEW s
  PROVE  \E f : f = [i \in 1..n |-> IF i = 1 THEN s[i] ELSE f[i-1] \o s[i]]
<1>. DEFINE P == {m \in Nat : \E f : f = [i \in 1..m |-> IF i = 1 THEN s[i] ELSE f[i-1] \o s[i]]}
<1>1. 0 \in P
  <2>. DEFINE f == [i \in 1..0 |-> IF i = 1 THEN s[i] ELSE << >>]
  <2>1. f = [i \in 1..0 |-> IF i = 1 THEN s[i] ELSE f[i-1] \o s[i]]
    OBVIOUS
  <2>. QED
    BY <2>1
<1>2. ASSUME NEW m \in Nat, m \in P PROVE m + 1 \in P
  <2>1. PICK f : f = [i \in 1..m |-> IF i = 1 THEN s[i] ELSE f[i-1] \o s[i]]
    BY <1>2
  <2>. DEFINE g == [i \in 1..m+1 |-> IF i <= m THEN f[i]
                                    ELSE IF i = 1 THEN s[i] ELSE f[i-1] \o s[i]]
  <2>2. ASSUME NEW i \in 1..m+1
        PROVE  g[i] = IF i = 1 THEN s[i] ELSE g[i-1] \o s[i]
    <3>1. CASE i = 1
      BY <2>1, <3>1
    <3>2. CASE i # 1
      <4>1. i - 1 \in 1..m /\ i - 1 <= m
        BY <3>2
      <4>2. g[i-1] = f[i-1]
        BY <4>1
      <4>3. CASE i <= m
        <5>1. i \in 1..m
          BY <4>3
        <5>2. f[i] = f[i-1] \o s[i]
          BY <2>1, <3>2, <5>1
        <5>. QED
          BY <3>2, <4>2, <4>3, <5>2
      <4>4. CASE ~(i <= m)
        BY <3>2, <4>2, <4>4
      <4>. QED
        BY <4>3, <4>4
    <3>. QED
      BY <3>1, <3>2
  <2>. HIDE DEF g
  <2>3. DOMAIN g = 1..m+1 /\ g = [i \in 1..m+1 |-> g[i]]
    BY DEF g
  <2>4. g = [i \in 1..m+1 |-> IF i = 1 THEN s[i] ELSE g[i-1] \o s[i]]
    BY <2>2, <2>3
  <2>5. \E q : q = [i \in 1..m+1 |-> IF i = 1 THEN s[i] ELSE q[i-1] \o s[i]]
    BY <2>4, Zenon
  <2>6. m + 1 \in Nat
    OBVIOUS
  <2>. QED
    BY <2>5, <2>6, Zenon
<1>. HIDE DEF P
<1>3. n \in P
  BY <1>1, <1>2, NatSetInduction
<1>. QED
  BY <1>3 DEF P

(* FlattenSeq puts the parts one after the other. *)
LEMMA FlattenSeqFlattens ==
  ASSUME NEW T, NEW n \in Nat \ {0}, NEW s \in [1..n -> Seq(T)]
  PROVE  /\ FlattenSeq(s) \in Seq(T)
         /\ \E part, place : Flattens(FlattenSeq(s), s, n, part, place)
<1>. DEFINE flatten == CHOOSE f : f = [i \in 1..n |-> IF i = 1 THEN s[i] ELSE f[i-1] \o s[i]]
            Right(m) == /\ flatten[m] \in Seq(T)
                        /\ \E part, place : Flattens(flatten[m], s, m, part, place)
            P == {m \in Nat : m + 1 <= n => Right(m + 1)}
<1>1. Len(s) = n /\ n # 0
  OBVIOUS
<1>2. FlattenSeq(s) = flatten[n]
  BY <1>1 DEF FlattenSeq
<1>3. flatten = [i \in 1..n |-> IF i = 1 THEN s[i] ELSE flatten[i-1] \o s[i]]
  BY FlattenDefined, Zenon
<1>. HIDE DEF flatten
<1>4. flatten[1] = s[1] /\ \A i \in 2..n : flatten[i] = flatten[i-1] \o s[i]
  <2>1. 1 \in 1..n /\ \A i \in 2..n : i \in 1..n /\ i # 1
    OBVIOUS
  <2>. QED
    BY <1>3, <2>1
<1>5. 0 \in P
  <2>. DEFINE e == << >>
  <2>1. /\ e \in Seq(T) /\ Len(e) = 0 /\ e \o s[1] = s[1]
        /\ 0 \in Nat /\ 0 + 1 = 1 /\ s[0+1] \in Seq(T)
    OBVIOUS
  <2>2. e \in [1..0 -> 1..0] /\ e \in [1..0 -> Nat]
    OBVIOUS
  <2>3. Flattens(e, s, 0, e, e)
    BY <2>1, <2>2 DEF Flattens
  <2>. HIDE DEF e
  <2>4. \E part, place : Flattens(e \o s[0+1], s, 0 + 1, part, place)
    BY <2>1, <2>3, FlattensOneMore
  <2>. QED
    BY <1>4, <2>1, <2>4
<1>6. ASSUME NEW m \in Nat, m \in P PROVE m + 1 \in P
  <2>. SUFFICES ASSUME m + 2 <= n PROVE Right(m + 2)
    OBVIOUS
  <2>1. m + 1 \in Nat /\ m + 2 \in 2..n /\ (m + 2) - 1 = m + 1 /\ (m + 1) + 1 = m + 2
    OBVIOUS
  <2>2. flatten[m+1] \in Seq(T) /\ \E part, place : Flattens(flatten[m+1], s, m + 1, part, place)
    BY <1>6, <2>1
  <2>3. s[m+2] \in Seq(T) /\ flatten[m+2] = flatten[m+1] \o s[m+2]
    <3>1. flatten[m+2] = flatten[(m+2)-1] \o s[m+2]
      BY <1>4, <2>1
    <3>. QED
      BY <2>1, <3>1
  <2>4. \E part, place : Flattens(flatten[m+1] \o s[(m+1)+1], s, (m + 1) + 1, part, place)
    BY <2>1, <2>2, <2>3, FlattensOneMore
  <2>. QED
    BY <2>1, <2>2, <2>3, <2>4
<1>7. n - 1 \in P /\ (n - 1) + 1 = n
  <2>. HIDE DEF P
  <2>1. Nat \subseteq P
    BY <1>5, <1>6, NatSetInduction
  <2>. QED
    BY <2>1
<1>. QED
  BY <1>2, <1>7
=============================================================================
