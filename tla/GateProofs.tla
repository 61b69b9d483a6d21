----------------------------- MODULE GateProofs -----------------------------
(***************************************************************************)
(* Proofs about Gate: with any number of inputs and any well-formed        *)
(* streams, the gate's buffers, replay and bounded channel implement the   *)
(* merge of AlignedMerge, and with it everything that AlignedMergeProofs   *)
(* proves of what a merge sends downstream.                                *)
(***************************************************************************)
EXTENDS Gate, DataLemmas, FiniteSetTheorems

(* An input that is held back stands before its barrier. *)
Stand == [i \in Inputs |-> IF g.alignedFor[i] THEN passed[i] - 1 ELSE passed[i]]

MP == INSTANCE AlignedMergeProofs WITH at <- Stand, log <- emitted

(* What Recv is still to take, in the order in which it will. *)
Queue == g.replay \o merged

(* How far every input has come, the elements that are held back included. *)
Handled == [i \in Inputs |-> passed[i] + Len(g.buffered[i])]

Counts ==
  \A i \in Inputs : Handled[i] <= taken[i] /\ taken[i] <= Len(stream[i])

(* Q holds every element between the counts H and T, those of one input in *)
(* the order in which it sent them, and nothing else.                      *)
QueuedBy(Q, H, T) ==
  /\ \A n \in 1..Len(Q) :
       /\ Q[n].input \in Inputs
       /\ Q[n].pos \in H[Q[n].input]+1..T[Q[n].input]
       /\ Q[n] = tagged(Q[n].input, Q[n].pos)
  /\ \A i \in Inputs : \A p \in H[i]+1..T[i] : \E n \in 1..Len(Q) : Q[n] = tagged(i, p)
  /\ \A n \in 1..Len(Q) : \A m \in 1..n-1 : Q[m].input = Q[n].input => Q[m].pos < Q[n].pos

Queued == QueuedBy(Queue, Handled, taken)

(* Only an input that is held back has anything buffered, and that is what *)
(* follows its barrier.                                                    *)
Held ==
  \A i \in Inputs :
    /\ g.buffered[i] # << >> => g.alignedFor[i]
    /\ \A n \in 1..Len(g.buffered[i]) : g.buffered[i][n] = tagged(i, passed[i] + n)

(* The inputs that are held back are live and have sent the one barrier    *)
(* that is being aligned; some live input has not.                         *)
Aligned ==
  /\ \A i \in Inputs : g.alignedFor[i] =>
       /\ g.aligning /\ ~g.endOfStream[i] /\ passed[i] >= 1
       /\ stream[i][passed[i]] = [kind |-> "barrier", val |-> g.barrier.val]
  /\ g.aligning =>
       /\ g.barrier = Own("barrier", g.barrier.val)
       /\ \E i \in Inputs : g.alignedFor[i]
       /\ \E i \in Inputs : ~g.endOfStream[i] /\ ~g.alignedFor[i]

liveInputs == {i \in Inputs : ~g.endOfStream[i]}

Ends ==
  /\ \A i \in Inputs : g.endOfStream[i] <=> MP!ended(i, passed[i])
  /\ g.remaining = Cardinality(liveInputs)
  /\ g.closed <=> g.remaining = 0

(* The gate's times are those of what has passed and what has gone out. *)
Clock ==
  /\ \A i \in Inputs : g.watermarks[i] = MP!timeOf(i, passed[i])
  /\ g.out = MP!lastTime
  /\ minimum(g) <= g.out

SaidEnd == phase = "eos" => \E n \in 1..Len(got) : got[n].kind = "eos"

GInv ==
  /\ TypeOK
  /\ Counts
  /\ Queued
  /\ Held
  /\ Aligned
  /\ Ends
  /\ Clock
  /\ SaidEnd

-----------------------------------------------------------------------------
(* The queue.                                                              *)

(* The merge's names and the gate's are the same. *)
LEMMA SameNames ==
  /\ MP!Inputs = Inputs /\ MP!Element = Element /\ MP!Times = Times
  /\ \A n : MP!Tagged(n) = Tagged(n)
  /\ \A k, v : MP!Own(k, v) = Own(k, v)
  /\ \A s : MP!WellFormed(s) <=> WellFormed(s)
<1>1. MP!Inputs = Inputs /\ MP!Element = Element /\ MP!Times = Times
  BY DEF MP!Inputs, Inputs, MP!Element, Element, MP!Kinds, Kinds, MP!Times, Times
<1>2. \A n : MP!Tagged(n) = Tagged(n)
  BY DEF MP!Tagged, Tagged, MP!Kinds, Kinds
<1>3. \A k, v : MP!Own(k, v) = Own(k, v)
  BY DEF MP!Own, Own
<1>4. \A s : MP!WellFormed(s) <=> WellFormed(s)
  BY <1>1 DEF MP!WellFormed, WellFormed
<1>. QED
  BY <1>1, <1>2, <1>3, <1>4

(* What the merge assumes of its constants is what the gate assumes. *)
LEMMA MergeAssumes ==
  /\ Streams \subseteq Seq(MP!Element) /\ \A s \in Streams : MP!WellFormed(s)
  /\ NumInputs \in Nat \ {0} /\ RestoredID \in Nat
  /\ MinTime \in Int /\ MaxTime \in Int /\ MinTime < MaxTime
BY SameNames, StreamsAssumption, InputsAssumption, TimesAssumption

LEMMA StreamElements ==
  ASSUME stream \in [Inputs -> Streams], NEW i \in Inputs
  PROVE  /\ stream[i] \in Seq(Element) /\ Len(stream[i]) \in Nat /\ WellFormed(stream[i])
         /\ \A m \in 1..Len(stream[i]) : stream[i][m] \in Element
BY StreamsAssumption

LEMMA TaggedElement ==
  ASSUME stream \in [Inputs -> Streams], NEW i \in Inputs, NEW n \in 1..Len(stream[i])
  PROVE  /\ tagged(i, n) \in Tagged(NumInputs)
         /\ tagged(i, n).input = i /\ tagged(i, n).pos = n
         /\ tagged(i, n).kind = stream[i][n].kind /\ tagged(i, n).val = stream[i][n].val
<1>1. stream[i][n] \in Element /\ n \in Nat
  BY StreamElements
<1>. QED
  BY <1>1, InputsAssumption DEF tagged, Element, Tagged, Inputs

(* Positions and inputs are what a tagged element says they are. *)
LEMMA TaggedIs ==
  ASSUME NEW i, NEW n
  PROVE  tagged(i, n).input = i /\ tagged(i, n).pos = n
BY DEF tagged

(* The head of the queue is the next element of its input. *)
LEMMA QueueHead ==
  ASSUME NEW E, NEW Q \in Seq(E), Q # << >>, NEW H \in [Inputs -> Nat], NEW T \in [Inputs -> Nat],
         QueuedBy(Q, H, T)
  PROVE  /\ Head(Q).input \in Inputs
         /\ Head(Q) = tagged(Head(Q).input, H[Head(Q).input] + 1)
         /\ H[Head(Q).input] + 1 <= T[Head(Q).input]
         /\ QueuedBy(Tail(Q), [H EXCEPT ![Head(Q).input] = @ + 1], T)
<1>. DEFINE t == Head(Q)
            i == t.input
            R == Tail(Q)
            J == [H EXCEPT ![i] = @ + 1]
<1>1. /\ 1 \in 1..Len(Q) /\ Len(Q) \in Nat /\ t = Q[1] /\ Len(R) = Len(Q) - 1
      /\ \A n \in 1..Len(R) : n + 1 \in 1..Len(Q) /\ R[n] = Q[n + 1]
      /\ \A n \in 1..Len(Q) : n # 1 => n - 1 \in 1..Len(R) /\ R[n - 1] = Q[n]
  OBVIOUS
<1>. HIDE DEF t, R
<1>2. i \in Inputs /\ t.pos \in H[i]+1..T[i] /\ t = tagged(i, t.pos)
  BY <1>1, Zenon DEF QueuedBy
<1>3. t.pos = H[i] + 1
  <2>1. SUFFICES ASSUME t.pos # H[i] + 1 PROVE FALSE
    OBVIOUS
  <2>2. H[i] + 1 \in H[i]+1..T[i] /\ H[i] + 1 < t.pos
    BY <1>2, <2>1
  <2>3. PICK n \in 1..Len(Q) : Q[n] = tagged(i, H[i] + 1)
    BY <1>2, <2>2 DEF QueuedBy
  <2>4. Q[n].input = i /\ Q[n].pos = H[i] + 1
    BY <2>3, TaggedIs
  <2>5. n # 1
    BY <1>1, <2>1, <2>4
  <2>6. 1 \in 1..n-1
    BY <1>1, <2>5
  <2>7. t.pos < Q[n].pos
    BY <1>1, <2>4, <2>6 DEF QueuedBy
  <2>. QED
    BY <1>2, <2>2, <2>4, <2>7
<1>4. J \in [Inputs -> Nat] /\ J[i] = H[i] + 1 /\ \A j \in Inputs : j # i => J[j] = H[j]
  BY <1>2
<1>. HIDE DEF J
<1>5. ASSUME NEW n \in 1..Len(R)
      PROVE  /\ R[n].input \in Inputs
             /\ R[n].pos \in J[R[n].input]+1..T[R[n].input]
             /\ R[n] = tagged(R[n].input, R[n].pos)
  <2>1. n + 1 \in 1..Len(Q) /\ R[n] = Q[n + 1] /\ 1 \in 1..(n + 1)-1
    BY <1>1
  <2>2. /\ R[n].input \in Inputs
        /\ R[n].pos \in H[R[n].input]+1..T[R[n].input]
        /\ R[n] = tagged(R[n].input, R[n].pos)
    BY <2>1 DEF QueuedBy
  <2>3. CASE R[n].input = i
    <3>1. t.pos < R[n].pos
      BY <1>1, <2>1, <2>3 DEF QueuedBy
    <3>. QED
      BY <1>3, <1>4, <2>2, <2>3, <3>1
  <2>4. CASE R[n].input # i
    BY <1>4, <2>2, <2>4
  <2>. QED
    BY <2>3, <2>4
<1>6. ASSUME NEW j \in Inputs, NEW p \in J[j]+1..T[j]
      PROVE  \E n \in 1..Len(R) : R[n] = tagged(j, p)
  <2>1. p \in H[j]+1..T[j] /\ (j = i => p # H[i] + 1)
    BY <1>4
  <2>2. PICK n \in 1..Len(Q) : Q[n] = tagged(j, p)
    BY <2>1 DEF QueuedBy
  <2>3. n # 1
    BY <1>1, <1>3, <2>1, <2>2, TaggedIs
  <2>. QED
    BY <1>1, <2>2, <2>3
<1>7. ASSUME NEW n \in 1..Len(R), NEW m \in 1..n-1, R[m].input = R[n].input
      PROVE  R[m].pos < R[n].pos
  <2>1. m \in 1..Len(R) /\ m + 1 \in 1..(n + 1)-1
    BY <1>1
  <2>. QED
    BY <1>1, <1>7, <2>1, SMTT(30) DEF QueuedBy
<1>8. QueuedBy(R, J, T)
  BY <1>5, <1>6, <1>7 DEF QueuedBy
<1>9. H[i] + 1 <= T[i]
  BY <1>2, <1>3
<1>. QED
  BY <1>2, <1>3, <1>8, <1>9 DEF t, R, J

(* A forwarder adds the next element of its input at the end. *)
LEMMA QueueAppend ==
  ASSUME NEW E, NEW Q \in Seq(E), NEW H \in [Inputs -> Nat], NEW T \in [Inputs -> Nat],
         QueuedBy(Q, H, T), NEW i \in Inputs, H[i] <= T[i], tagged(i, T[i] + 1) \in E
  PROVE  QueuedBy(Append(Q, tagged(i, T[i] + 1)), H, [T EXCEPT ![i] = @ + 1])
<1>. DEFINE e == tagged(i, T[i] + 1)
            R == Append(Q, e)
            U == [T EXCEPT ![i] = @ + 1]
            L == Len(Q)
<1>1. /\ L \in Nat /\ Len(R) = L + 1 /\ R[L + 1] = e
      /\ \A n \in 1..L : n \in 1..Len(R) /\ R[n] = Q[n]
      /\ \A n \in 1..Len(R) : n \in 1..L \/ n = L + 1
  BY MergeAssumes, MP!OneMore
<1>2. U \in [Inputs -> Nat] /\ U[i] = T[i] + 1 /\ \A j \in Inputs : j # i => U[j] = T[j]
  OBVIOUS
<1>3. e.input = i /\ e.pos = T[i] + 1 /\ e = tagged(i, T[i] + 1)
  BY TaggedIs
<1>. HIDE DEF e, R, U
<1>4. \A j \in Inputs : \A p : p \in H[j]+1..U[j] <=> p \in H[j]+1..T[j] \/ (j = i /\ p = T[i] + 1)
  BY <1>2
<1>5. ASSUME NEW n \in 1..Len(R)
      PROVE  /\ R[n].input \in Inputs
             /\ R[n].pos \in H[R[n].input]+1..U[R[n].input]
             /\ R[n] = tagged(R[n].input, R[n].pos)
  <2>1. CASE n \in 1..L
    <3>1. /\ Q[n].input \in Inputs
          /\ Q[n].pos \in H[Q[n].input]+1..T[Q[n].input]
          /\ Q[n] = tagged(Q[n].input, Q[n].pos)
      BY <2>1 DEF QueuedBy
    <3>. QED
      BY <1>1, <1>4, <2>1, <3>1
  <2>2. CASE n = L + 1
    BY <1>1, <1>3, <1>4, <2>2
  <2>. QED
    BY <1>1, <2>1, <2>2
<1>6. ASSUME NEW j \in Inputs, NEW p \in H[j]+1..U[j]
      PROVE  \E n \in 1..Len(R) : R[n] = tagged(j, p)
  <2>1. CASE p \in H[j]+1..T[j]
    <3>1. PICK n \in 1..L : Q[n] = tagged(j, p)
      BY <2>1 DEF QueuedBy
    <3>. QED
      BY <1>1, <3>1
  <2>2. CASE j = i /\ p = T[i] + 1
    <3>1. L + 1 \in 1..Len(R)
      BY <1>1
    <3>. QED
      BY <1>1, <1>3, <2>2, <3>1
  <2>. QED
    BY <1>4, <2>1, <2>2
<1>7. ASSUME NEW n \in 1..Len(R), NEW m \in 1..n-1, R[m].input = R[n].input
      PROVE  R[m].pos < R[n].pos
  <2>1. m \in 1..L
    BY <1>1
  <2>2. CASE n \in 1..L
    BY <1>1, <1>7, <2>1, <2>2 DEF QueuedBy
  <2>3. CASE n = L + 1
    <3>1. Q[m].input = i
      BY <1>1, <1>3, <1>7, <2>1, <2>3
    <3>2. Q[m].pos \in H[i]+1..T[i]
      BY <2>1, <3>1 DEF QueuedBy
    <3>. QED
      BY <1>1, <1>3, <2>1, <2>3, <3>2
  <2>. QED
    BY <1>1, <2>2, <2>3
<1>. QED
  BY <1>5, <1>6, <1>7 DEF QueuedBy, R, U, e

(* Draining the buffers puts what was held back where it belongs: after    *)
(* what has passed and before what is queued.                              *)
LEMMA QueueDrain ==
  ASSUME NEW E, NEW Q \in Seq(E), NEW P \in [Inputs -> Nat], NEW T \in [Inputs -> Nat],
         NEW buf \in [Inputs -> Seq(E)],
         \A i \in Inputs : \A n \in 1..Len(buf[i]) : buf[i][n] = tagged(i, P[i] + n),
         \A i \in Inputs : P[i] + Len(buf[i]) <= T[i],
         QueuedBy(Q, [i \in Inputs |-> P[i] + Len(buf[i])], T)
  PROVE  /\ FlattenSeq(buf) \in Seq(E)
         /\ QueuedBy(FlattenSeq(buf) \o Q, P, T)
<1>. DEFINE H == [i \in Inputs |-> P[i] + Len(buf[i])]
            F == FlattenSeq(buf)
            R == F \o Q
            L == Len(F)
<1>1. F \in Seq(E) /\ \E part, place : Flattens(F, buf, NumInputs, part, place)
  BY InputsAssumption, FlattenSeqFlattens DEF Inputs
<1>. HIDE DEF F
<1>2. PICK part, place : Flattens(F, buf, NumInputs, part, place)
  BY <1>1
<1>3. /\ \A a \in 1..L : part[a] \in Inputs /\ place[a] \in 1..Len(buf[part[a]])
      /\ \A a \in 1..L : F[a] = buf[part[a]][place[a]]
      /\ \A a, b \in 1..L : a < b => part[a] < part[b] \/ (part[a] = part[b] /\ place[a] < place[b])
      /\ \A j \in Inputs : \A k \in 1..Len(buf[j]) : \E a \in 1..L : part[a] = j /\ place[a] = k
  BY <1>2 DEF Flattens, Inputs
<1>4. /\ R \in Seq(E) /\ L \in Nat /\ Len(Q) \in Nat /\ Len(R) = L + Len(Q)
      /\ \A n \in 1..L : n \in 1..Len(R) /\ R[n] = F[n]
      /\ \A n \in 1..Len(Q) : n + L \in 1..Len(R) /\ R[n + L] = Q[n]
      /\ \A n \in 1..Len(R) : n \in 1..L \/ n - L \in 1..Len(Q)
      /\ \A n \in 1..Len(R) : n \notin 1..L => R[n] = Q[n - L]
  BY <1>1
<1>5. \A i \in Inputs : Len(buf[i]) \in Nat /\ H[i] = P[i] + Len(buf[i]) /\ H[i] \in Nat
  OBVIOUS
<1>. HIDE DEF R, H
<1>6. ASSUME NEW n \in 1..L
      PROVE  /\ part[n] \in Inputs /\ place[n] \in 1..Len(buf[part[n]])
             /\ R[n] = tagged(part[n], P[part[n]] + place[n])
             /\ R[n].input = part[n] /\ R[n].pos = P[part[n]] + place[n]
             /\ R[n].pos \in P[part[n]]+1..H[part[n]]
  <2>1. part[n] \in Inputs /\ place[n] \in 1..Len(buf[part[n]])
    BY <1>3
  <2>2. R[n] = tagged(part[n], P[part[n]] + place[n])
    <3>1. R[n] = F[n] /\ F[n] = buf[part[n]][place[n]]
      BY <1>3, <1>4
    <3>2. \A i \in Inputs : \A m \in 1..Len(buf[i]) : buf[i][m] = tagged(i, P[i] + m)
      OBVIOUS
    <3>. QED
      BY <2>1, <3>1, <3>2, Zenon
  <2>3. P[part[n]] + place[n] \in P[part[n]]+1..H[part[n]]
    BY <1>5, <2>1, SMTT(30)
  <2>. QED
    BY <2>1, <2>2, <2>3, TaggedIs
<1>7. ASSUME NEW n \in 1..Len(R), n \notin 1..L
      PROVE  /\ n - L \in 1..Len(Q) /\ R[n] = Q[n - L]
             /\ R[n].input \in Inputs
             /\ R[n].pos \in H[R[n].input]+1..T[R[n].input]
             /\ R[n] = tagged(R[n].input, R[n].pos)
  <2>1. n - L \in 1..Len(Q) /\ R[n] = Q[n - L]
    BY <1>4, <1>7
  <2>. QED
    BY <2>1 DEF QueuedBy, H
<1>8. ASSUME NEW n \in 1..Len(R)
      PROVE  /\ R[n].input \in Inputs
             /\ R[n].pos \in P[R[n].input]+1..T[R[n].input]
             /\ R[n] = tagged(R[n].input, R[n].pos)
  <2>1. \A i \in Inputs : P[i] <= H[i] /\ H[i] <= T[i]
    BY <1>5
  <2>2. CASE n \in 1..L
    <3>. DEFINE i == part[n]
    <3>1. /\ i \in Inputs /\ R[n].input = i /\ R[n].pos \in P[i]+1..H[i]
          /\ R[n] = tagged(R[n].input, R[n].pos)
      BY <1>6, <2>2
    <3>. HIDE DEF i
    <3>2. R[n].pos \in P[i]+1..T[i]
      BY <1>5, <2>1, <3>1
    <3>. QED
      BY <3>1, <3>2
  <2>3. CASE n \notin 1..L
    <3>. DEFINE i == R[n].input
    <3>1. i \in Inputs /\ R[n].pos \in H[i]+1..T[i] /\ R[n] = tagged(i, R[n].pos)
      BY <1>7, <2>3
    <3>. HIDE DEF i
    <3>2. R[n].pos \in P[i]+1..T[i]
      BY <1>5, <2>1, <3>1
    <3>. QED
      BY <3>1, <3>2 DEF i
  <2>. QED
    BY <2>2, <2>3
<1>9. ASSUME NEW i \in Inputs, NEW p \in P[i]+1..T[i]
      PROVE  \E n \in 1..Len(R) : R[n] = tagged(i, p)
  <2>1. CASE p <= H[i]
    <3>1. p - P[i] \in 1..Len(buf[i]) /\ P[i] + (p - P[i]) = p
      BY <1>5, <2>1
    <3>. DEFINE k == p - P[i]
    <3>3. k \in 1..Len(buf[i])
      BY <3>1
    <3>. HIDE DEF k
    <3>4. PICK a \in 1..L : part[a] = i /\ place[a] = k
      BY <1>2, <3>3 DEF Flattens, Inputs
    <3>2. part[a] = i /\ place[a] = p - P[i]
      BY <3>4 DEF k
    <3>. QED
      BY <1>4, <1>6, <3>1, <3>2
  <2>2. CASE ~(p <= H[i])
    <3>1. p \in H[i]+1..T[i]
      BY <1>5, <2>2
    <3>2. PICK n \in 1..Len(Q) : Q[n] = tagged(i, p)
      BY <3>1 DEF QueuedBy, H
    <3>. QED
      BY <1>4, <3>2
  <2>. QED
    BY <2>1, <2>2
<1>10. ASSUME NEW n \in 1..Len(R), NEW m \in 1..n-1, R[m].input = R[n].input
       PROVE  R[m].pos < R[n].pos
  <2>1. m \in 1..Len(R) /\ m < n
    BY <1>4
  <2>2. CASE n \in 1..L
    <3>1. m \in 1..L
      BY <1>4, <2>1, <2>2
    <3>2. part[m] = part[n] /\ place[m] < place[n]
      <4>1. part[m] = part[n]
        BY <1>6, <1>10, <2>2, <3>1
      <4>2. part[m] < part[n] \/ (part[m] = part[n] /\ place[m] < place[n])
        BY <1>3, <2>1, <2>2, <3>1
      <4>3. part[m] \in Int
        BY <1>3, <3>1, InputsAssumption DEF Inputs
      <4>. QED
        BY <4>1, <4>2, <4>3
    <3>3. R[m].pos = P[part[n]] + place[m] /\ R[n].pos = P[part[n]] + place[n] /\ part[n] \in Inputs
      BY <1>6, <2>2, <3>1, <3>2
    <3>4. place[m] \in Int /\ place[n] \in Int
      <4>1. place[m] \in 1..Len(buf[part[m]]) /\ place[n] \in 1..Len(buf[part[n]])
        BY <1>3, <2>2, <3>1
      <4>. QED
        BY <4>1
    <3>. QED
      BY <3>2, <3>3, <3>4
  <2>3. CASE n \notin 1..L /\ m \in 1..L
    <3>. DEFINE i == R[n].input
    <3>1. i \in Inputs /\ R[n].pos \in H[i]+1..T[i]
      BY <1>7, <2>3
    <3>2. R[m].pos \in P[part[m]]+1..H[part[m]] /\ part[m] = i
      BY <1>6, <1>10, <2>3
    <3>. HIDE DEF i
    <3>. QED
      BY <1>5, <3>1, <3>2, SMTT(30)
  <2>4. CASE n \notin 1..L /\ m \notin 1..L
    <3>1. R[n] = Q[n - L] /\ R[m] = Q[m - L] /\ n - L \in 1..Len(Q)
      BY <1>7, <2>1, <2>4
    <3>2. m - L \in 1..(n - L)-1
      BY <1>4, <2>1, <2>4
    <3>. QED
      BY <1>10, <3>1, <3>2 DEF QueuedBy
  <2>. QED
    BY <2>2, <2>3, <2>4
<1>11. QueuedBy(R, P, T)
  BY <1>8, <1>9, <1>10 DEF QueuedBy
<1>. QED
  BY <1>1, <1>11 DEF R, F

-----------------------------------------------------------------------------
(* What the gate's methods change, and what they leave.                    *)

SameInputs(q, r) ==
  r.endOfStream = q.endOfStream /\ r.watermarks = q.watermarks /\ r.remaining = q.remaining

SameAlignment(q, r) ==
  /\ r.aligning = q.aligning /\ r.barrier = q.barrier /\ r.alignedFor = q.alignedFor
  /\ r.buffered = q.buffered /\ r.replay = q.replay

States == GateState(NumInputs)

(* The abort returns an error and leaves the rest of the gate. *)
LEMMA OnlyErr ==
  ASSUME NEW r \in States, NEW e \in BOOLEAN, NEW s, s = [r EXCEPT !.err = e]
  PROVE  /\ s \in States /\ SameInputs(r, s) /\ s.out = r.out /\ s.closed = r.closed
         /\ s.pending = r.pending /\ s.aligning = r.aligning /\ s.barrier = r.barrier
         /\ s.alignedFor = r.alignedFor
         /\ s.buffered = r.buffered /\ s.replay = r.replay
<1>1. s \in States
  BY DEF States, GateState
<1>. QED
  BY <1>1 DEF States, GateState, SameInputs

LEMMA OwnTagged ==
  ASSUME NEW kind \in Kinds, NEW v \in Int
  PROVE  /\ Own(kind, v) \in Tagged(NumInputs) /\ Own(kind, v).kind = kind /\ Own(kind, v).val = v
         /\ Own(kind, v) = Own(Own(kind, v).kind, Own(kind, v).val)
BY InputsAssumption DEF Own, Tagged

LEMMA GateInputs ==
  ASSUME NEW q \in States
  PROVE  /\ inputsOf(q) = Inputs
         /\ q.endOfStream \in [Inputs -> BOOLEAN] /\ q.remaining \in Int /\ q.closed \in BOOLEAN
         /\ q.watermarks \in [Inputs -> Int] /\ q.out \in Int /\ q.aligning \in BOOLEAN
         /\ q.barrier \in Tagged(NumInputs) /\ q.alignedFor \in [Inputs -> BOOLEAN]
         /\ q.buffered \in [Inputs -> Seq(Tagged(NumInputs))]
         /\ q.replay \in Seq(Tagged(NumInputs)) /\ q.pending \in Seq(Tagged(NumInputs))
         /\ q.err \in BOOLEAN
BY DEF States, GateState, inputsOf, Inputs

LEMMA SameMinimum ==
  ASSUME NEW q \in States, NEW r \in States, SameInputs(q, r)
  PROVE  minimum(r) = minimum(q)
<1>1. inputsOf(q) = Inputs /\ inputsOf(r) = Inputs
  BY GateInputs
<1>2. /\ minimum(q) = Min({q.watermarks[i] : i \in {j \in Inputs : ~q.endOfStream[j]}} \cup {MaxTime})
      /\ minimum(r) = Min({r.watermarks[i] : i \in {j \in Inputs : ~r.endOfStream[j]}} \cup {MaxTime})
  BY <1>1 DEF minimum, live
<1>. QED
  BY <1>2 DEF SameInputs

LEMMA AdvanceDoes ==
  ASSUME NEW q \in States, minimum(q) \in Int
  PROVE  /\ advance(q) \in States
         /\ SameInputs(q, advance(q)) /\ SameAlignment(q, advance(q))
         /\ advance(q).closed = q.closed
         /\ minimum(advance(q)) <= advance(q).out
         /\ minimum(q) > q.out =>
              /\ advance(q).out = minimum(q)
              /\ advance(q).pending = Append(q.pending, Own("watermark", minimum(q)))
         /\ ~(minimum(q) > q.out) => advance(q) = q
<1>1. q.out \in Int /\ q.pending \in Seq(Tagged(NumInputs))
  BY GateInputs
<1>2. CASE minimum(q) > q.out
  <2>. DEFINE m == minimum(q)
              r == [q EXCEPT !.out = m, !.pending = Append(@, Own("watermark", m))]
  <2>1. advance(q) = r
    BY <1>1, <1>2 DEF advance
  <2>2. Append(q.pending, Own("watermark", m)) \in Seq(Tagged(NumInputs))
    BY <1>1, OwnTagged DEF Kinds
  <2>. HIDE DEF m
  <2>3. /\ r \in States
        /\ r.out = m /\ r.pending = Append(q.pending, Own("watermark", m)) /\ r.closed = q.closed
        /\ SameInputs(q, r) /\ SameAlignment(q, r)
    BY <2>2 DEF m, States, GateState, SameInputs, SameAlignment
  <2>. HIDE DEF r
  <2>4. minimum(r) = m
    BY <2>3, SameMinimum DEF m
  <2>. QED
    BY <1>2, <2>1, <2>3, <2>4 DEF m
<1>3. CASE ~(minimum(q) > q.out)
  <2>1. advance(q) = q
    BY <1>1, <1>3 DEF advance
  <2>. QED
    BY <1>1, <1>3, <2>1 DEF SameInputs, SameAlignment
<1>. QED
  BY <1>2, <1>3

LEMMA CloseGateDoes ==
  ASSUME NEW q \in States
  PROVE  /\ closeGate(q) \in States
         /\ SameInputs(q, closeGate(q)) /\ SameAlignment(q, closeGate(q))
         /\ closeGate(q).out = q.out
         /\ q.remaining = 0 /\ ~q.closed =>
              closeGate(q).closed /\ closeGate(q).pending = Append(q.pending, Own("eos", 0))
         /\ ~(q.remaining = 0 /\ ~q.closed) => closeGate(q) = q
<1>1. CASE q.remaining = 0 /\ ~q.closed
  <2>. DEFINE r == [q EXCEPT !.closed = TRUE, !.pending = Append(@, Own("eos", 0))]
  <2>1. closeGate(q) = r
    BY <1>1 DEF closeGate
  <2>2. Append(q.pending, Own("eos", 0)) \in Seq(Tagged(NumInputs))
    BY GateInputs, OwnTagged DEF Kinds
  <2>3. /\ r \in States /\ r.out = q.out /\ r.closed
        /\ r.pending = Append(q.pending, Own("eos", 0))
        /\ SameInputs(q, r) /\ SameAlignment(q, r)
    BY <2>2 DEF States, GateState, SameInputs, SameAlignment
  <2>. QED
    BY <1>1, <2>1, <2>3
<1>2. CASE ~(q.remaining = 0 /\ ~q.closed)
  BY <1>2 DEF closeGate, SameInputs, SameAlignment
<1>. QED
  BY <1>1, <1>2

(* All live inputs have the barrier. *)
Complete(q) == q.aligning /\ \A i \in Inputs : q.endOfStream[i] \/ q.alignedFor[i]

LEMMA CompleteAlignmentDoes ==
  ASSUME NEW q \in States
  PROVE  /\ Complete(q) =>
              /\ completeAlignment(q) \in States
              /\ SameInputs(q, completeAlignment(q))
              /\ completeAlignment(q).out = q.out /\ completeAlignment(q).closed = q.closed
              /\ completeAlignment(q).pending = Append(q.pending, q.barrier)
              /\ ~completeAlignment(q).aligning
              /\ completeAlignment(q).alignedFor = [i \in Inputs |-> FALSE]
              /\ completeAlignment(q).buffered = [i \in Inputs |-> << >>]
              /\ completeAlignment(q).replay = FlattenSeq(q.buffered) \o q.replay
         /\ ~Complete(q) => completeAlignment(q) = q
<1>1. inputsOf(q) = Inputs
  BY GateInputs
<1>2. Complete(q) <=> ~(~q.aligning \/ awaitingBarrier(q))
  BY <1>1 DEF Complete, awaitingBarrier, live
<1>3. CASE Complete(q)
  <2>. DEFINE p == Append(q.pending, q.barrier)
              F == FlattenSeq(q.buffered)
              b == [i \in Inputs |-> << >>]
              a == [i \in Inputs |-> FALSE]
              d == [q EXCEPT !.pending = p, !.aligning = FALSE, !.barrier = NoElement,
                             !.alignedFor = a]
              r == [d EXCEPT !.replay = F \o @, !.buffered = b]
  <2>1. completeAlignment(q) = drainBuffers([q EXCEPT !.pending = Append(@, q.barrier),
                              !.aligning = FALSE,
                              !.barrier = NoElement,
                              !.alignedFor = [i \in inputsOf(q) |-> FALSE]])
    BY <1>2, <1>3 DEF completeAlignment
  <2>2. p \in Seq(Tagged(NumInputs)) /\ NoElement \in Tagged(NumInputs)
    BY GateInputs, OwnTagged DEF NoElement, Kinds
  <2>3. F \in Seq(Tagged(NumInputs)) /\ F \o q.replay \in Seq(Tagged(NumInputs))
    <3>1. F \in Seq(Tagged(NumInputs))
      BY GateInputs, InputsAssumption, FlattenSeqFlattens DEF Inputs
    <3>. QED
      BY <3>1, GateInputs
  <2>4. /\ b \in [1..NumInputs -> Seq(Tagged(NumInputs))] /\ a \in [1..NumInputs -> BOOLEAN]
    BY DEF Inputs
  <2>5. completeAlignment(q) = drainBuffers(d)
    BY <1>1, <2>1
  <2>. HIDE DEF p, F, b, a
  <2>6. /\ d \in States /\ d.buffered = q.buffered /\ d.replay = q.replay /\ d.pending = p
        /\ d.endOfStream = q.endOfStream /\ d.watermarks = q.watermarks /\ d.remaining = q.remaining
        /\ d.out = q.out /\ d.closed = q.closed /\ ~d.aligning /\ d.alignedFor = a
    BY <2>2, <2>4 DEF States, GateState
  <2>7. inputsOf(d) = Inputs
    BY <2>6, GateInputs
  <2>8. drainBuffers(d) = r
    BY <2>6, <2>7 DEF drainBuffers, b, F
  <2>. HIDE DEF d
  <2>9. /\ r \in States
        /\ r.endOfStream = d.endOfStream /\ r.watermarks = d.watermarks /\ r.remaining = d.remaining
        /\ r.out = d.out /\ r.closed = d.closed /\ r.pending = d.pending
        /\ r.aligning = d.aligning /\ r.alignedFor = d.alignedFor
        /\ r.buffered = b /\ r.replay = F \o d.replay
    BY <2>3, <2>4, <2>6 DEF States, GateState
  <2>. QED
    BY <1>3, <2>5, <2>6, <2>8, <2>9 DEF SameInputs, p, F, b, a
<1>4. CASE ~Complete(q)
  BY <1>2, <1>4 DEF completeAlignment
<1>. QED
  BY <1>3, <1>4

-----------------------------------------------------------------------------
(* The merge sees the gate.                                                *)

LEMMA MinimumIsLow ==
  ASSUME stream \in [Inputs -> Streams], NEW q \in States, NEW a \in [Inputs -> Nat],
         \A i \in Inputs : a[i] <= Len(stream[i]),
         \A i \in Inputs : q.endOfStream[i] <=> MP!ended(i, a[i]),
         \A i \in Inputs : q.watermarks[i] = MP!timeOf(i, a[i])
  PROVE  minimum(q) = MP!low(a) /\ minimum(q) \in Times
<1>1. inputsOf(q) = Inputs
  BY GateInputs
<1>2. minimum(q) = Min({q.watermarks[i] : i \in {j \in Inputs : ~q.endOfStream[j]}} \cup {MaxTime})
  BY <1>1 DEF minimum, live
<1>3. {q.watermarks[i] : i \in {j \in Inputs : ~q.endOfStream[j]}}
        = {MP!timeOf(i, a[i]) : i \in {j \in Inputs : ~MP!ended(j, a[j])}}
  OBVIOUS
<1>4. MP!low(a) = Min({MP!timeOf(i, a[i]) : i \in {j \in Inputs : ~MP!ended(j, a[j])}} \cup {MaxTime})
  <2>1. \A S : MP!Min(S) = Min(S)
    BY DEF MP!Min, Min
  <2>2. MP!low(a) = MP!Min({MP!timeOf(i, a[i]) : i \in {j \in MP!Inputs : ~MP!ended(j, a[j])}} \cup {MaxTime})
    BY DEF MP!low
  <2>. QED
    BY <2>1, <2>2, SameNames
<1>5. MP!low(a) \in Times
  BY SameNames, MergeAssumes, MP!LowTime
<1>. QED
  BY <1>2, <1>3, <1>4, <1>5

(* Where an input stands it has ended, or not, and has the time that the   *)
(* gate knows of it.                                                       *)
LEMMA Standing ==
  ASSUME GInv
  PROVE  /\ Stand \in [Inputs -> Nat]
         /\ \A i \in Inputs :
              /\ passed[i] <= Len(stream[i]) /\ Stand[i] <= Len(stream[i])
              /\ ~g.alignedFor[i] => Stand[i] = passed[i]
              /\ g.alignedFor[i] => Stand[i] + 1 = passed[i]
              /\ g.endOfStream[i] <=> MP!ended(i, Stand[i])
              /\ g.watermarks[i] = MP!timeOf(i, Stand[i])
<1>1. /\ stream \in [Inputs -> Streams] /\ passed \in [Inputs -> Nat] /\ g \in States
      /\ taken \in [Inputs -> Nat]
  BY DEF GInv, TypeOK, States
<1>2. \A i \in Inputs : g.alignedFor[i] =>
        passed[i] >= 1 /\ stream[i][passed[i]] = [kind |-> "barrier", val |-> g.barrier.val]
  BY DEF GInv, Aligned
<1>3. \A i \in Inputs : passed[i] <= Len(stream[i])
  <2>1. \A i \in Inputs : Len(g.buffered[i]) \in Nat /\ Len(stream[i]) \in Nat
    BY <1>1, GateInputs, StreamElements
  <2>2. ASSUME NEW i \in Inputs PROVE passed[i] <= Len(stream[i])
    <3>1. passed[i] + Len(g.buffered[i]) <= taken[i] /\ taken[i] <= Len(stream[i])
      BY DEF GInv, Counts, Handled
    <3>. QED
      BY <1>1, <2>1, <3>1
  <2>. QED
    BY <2>2
<1>4. \A i \in Inputs : Stand[i] = IF g.alignedFor[i] THEN passed[i] - 1 ELSE passed[i]
  BY DEF Stand
<1>5. ASSUME NEW i \in Inputs
      PROVE  Stand[i] \in Nat /\ Stand[i] <= Len(stream[i]) /\ (g.alignedFor[i] => Stand[i] + 1 = passed[i])
  BY <1>1, <1>2, <1>3, <1>4, StreamElements
<1>6. ASSUME NEW i \in Inputs
      PROVE  /\ g.endOfStream[i] <=> MP!ended(i, Stand[i])
             /\ g.watermarks[i] = MP!timeOf(i, Stand[i])
  <2>1. /\ g.endOfStream[i] <=> MP!ended(i, passed[i])
        /\ g.watermarks[i] = MP!timeOf(i, passed[i])
    BY DEF GInv, Ends, Clock
  <2>2. CASE ~g.alignedFor[i]
    BY <1>4, <2>1, <2>2
  <2>3. CASE g.alignedFor[i]
    <3>. DEFINE n == Stand[i]
    <3>1. n \in Nat /\ n + 1 = passed[i] /\ n + 1 <= Len(stream[i])
      BY <1>3, <1>5, <2>3
    <3>2. stream[i][n + 1].kind = "barrier"
      BY <1>2, <2>3, <3>1
    <3>. HIDE DEF n
    <3>3. ~MP!isAt(i, n + 1, "eos") /\ ~MP!isAt(i, n + 1, "watermark")
      BY <3>2 DEF MP!isAt
    <3>4. MP!ended(i, n + 1) <=> MP!ended(i, n)
      BY <3>1, <3>3, MergeAssumes, MP!EndedNext
    <3>5. MP!timeOf(i, n + 1) = MP!timeOf(i, n)
      BY <1>1, <3>1, <3>3, SameNames, MergeAssumes, MP!TimeNext
    <3>. QED
      BY <2>1, <3>1, <3>4, <3>5 DEF n
  <2>. QED
    BY <2>2, <2>3
<1>7. Stand \in [Inputs -> Nat]
  BY <1>5 DEF Stand
<1>. QED
  BY <1>3, <1>4, <1>5, <1>6, <1>7

(* Recv takes t, the head of the queue, with q the gate's fields by then. *)
Takes(t, q) ==
  /\ g.pending = << >>
  /\ Queue # << >> /\ t = Head(Queue)
  /\ q \in States /\ q = [g EXCEPT !.replay = q.replay]
  /\ q.replay \o merged' = Tail(Queue)
  /\ merged' \in Seq(Tagged(NumInputs))
  /\ passed' = countPassed(t)
  /\ UNCHANGED <<stream, taken, got>>

(* What is handled is the next element of its input; and if that input is  *)
(* not held back, it is the next to pass.                                  *)
LEMMA TakesNext ==
  ASSUME GInv, NEW t, NEW q, Takes(t, q)
  PROVE  /\ t.input \in Inputs
         /\ t = tagged(t.input, Handled[t.input] + 1)
         /\ Handled \in [Inputs -> Nat] /\ Handled[t.input] + 1 <= taken[t.input]
         /\ Handled[t.input] + 1 \in 1..Len(stream[t.input])
         /\ QueuedBy(Tail(Queue), [Handled EXCEPT ![t.input] = @ + 1], taken)
         /\ heldBack(g, t) <=> g.alignedFor[t.input]
         /\ ~heldBack(g, t) => /\ Handled[t.input] = passed[t.input]
                               /\ g.buffered[t.input] = << >>
                               /\ passed' = [passed EXCEPT ![t.input] = @ + 1]
         /\ SameInputs(g, q) /\ q.out = g.out /\ q.closed = g.closed /\ q.pending = << >>
         /\ q.aligning = g.aligning /\ q.barrier = g.barrier /\ q.alignedFor = g.alignedFor
         /\ q.buffered = g.buffered
         /\ heldBack(q, t) <=> heldBack(g, t)
<1>1. /\ stream \in [Inputs -> Streams] /\ passed \in [Inputs -> Nat] /\ g \in States
      /\ taken \in [Inputs -> Nat] /\ merged \in Seq(Tagged(NumInputs))
  BY DEF GInv, TypeOK, States
<1>2. Queue \in Seq(Tagged(NumInputs)) /\ \A i \in Inputs : Len(g.buffered[i]) \in Nat
  BY <1>1, GateInputs DEF Queue
<1>3. Handled \in [Inputs -> Nat]
  BY <1>1, <1>2, SMTT(30) DEF Handled
<1>4. /\ t.input \in Inputs
      /\ t = tagged(t.input, Handled[t.input] + 1)
      /\ Handled[t.input] + 1 <= taken[t.input]
      /\ QueuedBy(Tail(Queue), [Handled EXCEPT ![t.input] = @ + 1], taken)
  BY <1>1, <1>2, <1>3, QueueHead DEF GInv, Queued, Takes
<1>5. Handled[t.input] + 1 \in 1..Len(stream[t.input])
  <2>1. taken[t.input] <= Len(stream[t.input]) /\ Len(stream[t.input]) \in Nat
    BY <1>1, <1>4, StreamElements DEF GInv, Counts
  <2>. QED
    BY <1>1, <1>3, <1>4, <2>1
<1>6. heldBack(g, t) <=> g.alignedFor[t.input]
  BY <1>4 DEF GInv, Aligned, heldBack
<1>7. ASSUME ~heldBack(g, t)
      PROVE  /\ Handled[t.input] = passed[t.input] /\ g.buffered[t.input] = << >>
             /\ passed' = [passed EXCEPT ![t.input] = @ + 1]
  <2>1. g.buffered[t.input] = << >>
    BY <1>4, <1>6, <1>7 DEF GInv, Held
  <2>2. passed' = [passed EXCEPT ![t.input] = @ + 1]
    BY <1>7 DEF Takes, countPassed
  <2>. QED
    BY <1>1, <1>4, <2>1, <2>2 DEF Handled
<1>8. /\ SameInputs(g, q) /\ q.out = g.out /\ q.closed = g.closed /\ q.pending = << >>
      /\ q.aligning = g.aligning /\ q.barrier = g.barrier /\ q.alignedFor = g.alignedFor
      /\ q.buffered = g.buffered
  BY <1>1 DEF Takes, States, GateState, SameInputs
<1>. QED
  BY <1>3, <1>4, <1>5, <1>6, <1>7, <1>8 DEF heldBack

-----------------------------------------------------------------------------
(* What a step of Recv does to the queue.                                  *)

LEMMA QueueKept ==
  ASSUME GInv, NEW t, NEW q, Takes(t, q), g' \in States, g'.replay = q.replay,
         Handled' = [Handled EXCEPT ![t.input] = @ + 1]
  PROVE  Counts' /\ Queued'
<1>1. /\ stream \in [Inputs -> Streams] /\ taken \in [Inputs -> Nat]
  BY DEF GInv, TypeOK
<1>2. /\ t.input \in Inputs /\ Handled \in [Inputs -> Nat] /\ Handled[t.input] + 1 <= taken[t.input]
      /\ QueuedBy(Tail(Queue), [Handled EXCEPT ![t.input] = @ + 1], taken)
  BY TakesNext
<1>3. stream' = stream /\ taken' = taken /\ Queue' = Tail(Queue)
  BY DEF Takes, Queue
<1>4. QueuedBy(Queue', Handled', taken')
  BY <1>2, <1>3
<1>5. Queued'
  BY <1>3, <1>4 DEF Queued, QueuedBy, tagged
<1>6. ASSUME NEW i \in Inputs PROVE Handled'[i] <= taken'[i] /\ taken'[i] <= Len(stream'[i])
  <2>1. Handled[i] <= taken[i] /\ taken[i] <= Len(stream[i])
    BY DEF GInv, Counts
  <2>2. Handled'[i] = IF i = t.input THEN Handled[i] + 1 ELSE Handled[i]
    BY <1>2
  <2>. QED
    BY <1>2, <1>3, <2>1, <2>2
<1>. QED
  BY <1>5, <1>6 DEF Counts

(* An element of an input that is not held back passes. *)
LEMMA QueuePassed ==
  ASSUME GInv, NEW t, NEW q, Takes(t, q), ~heldBack(g, t), g' \in States,
         g'.replay = q.replay, g'.buffered = g.buffered,
         \A i \in Inputs : g.alignedFor[i] => g'.alignedFor[i]
  PROVE  Counts' /\ Queued' /\ Held'
<1>1. stream \in [Inputs -> Streams] /\ passed \in [Inputs -> Nat] /\ g \in States
  BY DEF GInv, TypeOK, States
<1>2. /\ t.input \in Inputs /\ g.buffered[t.input] = << >>
      /\ passed' = [passed EXCEPT ![t.input] = @ + 1] /\ stream' = stream
  BY TakesNext DEF Takes
<1>3. \A i \in Inputs : Len(g.buffered[i]) \in Nat
  BY <1>1, GateInputs
<1>4. Handled' = [Handled EXCEPT ![t.input] = @ + 1]
  <2>1. Handled' = [i \in Inputs |-> passed'[i] + Len(g.buffered[i])]
    BY DEF Handled
  <2>2. ASSUME NEW i \in Inputs
        PROVE  passed'[i] + Len(g.buffered[i])
                 = [Handled EXCEPT ![t.input] = @ + 1][i]
    <3>1. CASE i = t.input
      BY <1>1, <1>2, <1>3, <3>1 DEF Handled
    <3>2. CASE i # t.input
      BY <1>1, <1>2, <1>3, <3>2 DEF Handled
    <3>. QED
      BY <3>1, <3>2
  <2>. QED
    BY <2>1, <2>2 DEF Handled
<1>5. Counts' /\ Queued'
  BY <1>4, QueueKept
<1>6. ASSUME NEW i \in Inputs
      PROVE  /\ g'.buffered[i] # << >> => g'.alignedFor[i]
             /\ \A n \in 1..Len(g'.buffered[i]) : g'.buffered[i][n] = tagged(i, passed'[i] + n)
  <2>1. /\ g.buffered[i] # << >> => g.alignedFor[i]
        /\ \A n \in 1..Len(g.buffered[i]) : g.buffered[i][n] = tagged(i, passed[i] + n)
    BY DEF GInv, Held
  <2>2. CASE i = t.input
    BY <1>2, <2>2
  <2>3. CASE i # t.input
    BY <1>1, <1>2, <2>1, <2>3
  <2>. QED
    BY <2>2, <2>3
<1>7. Held'
  BY <1>2, <1>6 DEF Held, tagged
<1>. QED
  BY <1>5, <1>7

LEMMA Concat ==
  ASSUME NEW T, NEW a \in Seq(T), NEW b \in Seq(T)
  PROVE  a \o b \in Seq(T)
OBVIOUS

LEMMA ConcatOne ==
  ASSUME NEW T, NEW a \in Seq(T), NEW e \in T
  PROVE  a \o <<e>> = Append(a, e) /\ Append(a, e) \in Seq(T)
OBVIOUS

LEMMA ConcatAppend ==
  ASSUME NEW T, NEW a \in Seq(T), NEW b \in Seq(T), NEW e \in T
  PROVE  a \o Append(b, e) = Append(a \o b, e)
OBVIOUS

LEMMA ConcatAssociative ==
  ASSUME NEW T, NEW a \in Seq(T), NEW b \in Seq(T), NEW c \in Seq(T)
  PROVE  (a \o b) \o c = a \o (b \o c)
OBVIOUS

(* It completes an alignment, and the buffers are drained. *)
LEMMA QueueDrained ==
  ASSUME GInv, NEW t, NEW q, Takes(t, q), ~heldBack(g, t), g' \in States,
         g'.replay = FlattenSeq(g.buffered) \o q.replay,
         g'.buffered = [i \in Inputs |-> << >>]
  PROVE  Counts' /\ Queued' /\ Held'
<1>. DEFINE E == Tagged(NumInputs)
            P == [passed EXCEPT ![t.input] = @ + 1]
            buf == g.buffered
            F == FlattenSeq(buf)
<1>1. stream \in [Inputs -> Streams] /\ passed \in [Inputs -> Nat] /\ g \in States
      /\ taken \in [Inputs -> Nat] /\ merged \in Seq(E)
  BY DEF GInv, TypeOK, States
<1>2. /\ t.input \in Inputs /\ buf[t.input] = << >>
      /\ passed' = P /\ stream' = stream /\ taken' = taken
      /\ Handled \in [Inputs -> Nat] /\ Handled[t.input] + 1 <= taken[t.input]
      /\ QueuedBy(Tail(Queue), [Handled EXCEPT ![t.input] = @ + 1], taken)
  BY TakesNext DEF Takes
<1>3. /\ buf \in [Inputs -> Seq(E)] /\ \A i \in Inputs : Len(buf[i]) \in Nat
      /\ q.replay \in Seq(E) /\ merged' \in Seq(E) /\ q.replay \o merged' = Tail(Queue)
      /\ Tail(Queue) \in Seq(E)
  <2>1. buf \in [Inputs -> Seq(E)] /\ q.replay \in Seq(E) /\ merged' \in Seq(E)
    BY <1>1, GateInputs DEF Takes
  <2>4. q.replay \o merged' = Tail(Queue)
    BY DEF Takes
  <2>2. \A i \in Inputs : Len(buf[i]) \in Nat
    BY <2>1
  <2>3. q.replay \o merged' \in Seq(E)
    BY <2>1, Concat, Zenon
  <2>. QED
    BY <2>1, <2>2, <2>3, <2>4
<1>4. P \in [Inputs -> Nat] /\ P[t.input] = passed[t.input] + 1 /\ \A i \in Inputs : i # t.input => P[i] = passed[i]
  BY <1>1, <1>2
<1>5. \A i \in Inputs : Handled[i] = passed[i] + Len(buf[i]) /\ Handled[i] <= taken[i] /\ taken[i] <= Len(stream[i])
  BY DEF GInv, Counts, Handled
<1>. HIDE DEF E, P, buf, F
<1>6. [i \in Inputs |-> P[i] + Len(buf[i])] = [Handled EXCEPT ![t.input] = @ + 1]
  <2>1. ASSUME NEW i \in Inputs
        PROVE  P[i] + Len(buf[i]) = [Handled EXCEPT ![t.input] = @ + 1][i]
    <3>1. CASE i = t.input
      BY <1>1, <1>2, <1>3, <1>4, <1>5, <3>1
    <3>2. CASE i # t.input
      BY <1>1, <1>2, <1>3, <1>4, <1>5, <3>2
    <3>. QED
      BY <3>1, <3>2
  <2>. QED
    BY <1>2, <2>1
<1>7. \A i \in Inputs : P[i] + Len(buf[i]) <= taken[i]
  <2>1. ASSUME NEW i \in Inputs PROVE P[i] + Len(buf[i]) <= taken[i]
    <3>1. CASE i = t.input
      BY <1>1, <1>2, <1>3, <1>4, <1>5, <3>1
    <3>2. CASE i # t.input
      BY <1>1, <1>2, <1>3, <1>4, <1>5, <3>2
    <3>. QED
      BY <3>1, <3>2
  <2>. QED
    BY <2>1
<1>8. \A i \in Inputs : \A n \in 1..Len(buf[i]) : buf[i][n] = tagged(i, P[i] + n)
  <2>1. ASSUME NEW i \in Inputs, NEW n \in 1..Len(buf[i]) PROVE buf[i][n] = tagged(i, P[i] + n)
    <3>1. i # t.input
      BY <1>2, <2>1
    <3>2. buf[i][n] = tagged(i, passed[i] + n)
      BY <2>1 DEF GInv, Held, buf
    <3>. QED
      BY <1>4, <3>1, <3>2
  <2>. QED
    BY <2>1
<1>9. F \in Seq(E) /\ QueuedBy(F \o Tail(Queue), P, taken)
  BY <1>1, <1>2, <1>3, <1>4, <1>6, <1>7, <1>8, QueueDrain DEF F
<1>10. Queue' = F \o Tail(Queue)
  <2>1. Queue' = (F \o q.replay) \o merged'
    BY DEF Queue, F, buf
  <2>2. (F \o q.replay) \o merged' = F \o (q.replay \o merged')
    <3>1. F \in Seq(E) /\ q.replay \in Seq(E) /\ merged' \in Seq(E)
      BY <1>3, <1>9
    <3>. DEFINE x == q.replay
                y == merged'
    <3>2. F \in Seq(E) /\ x \in Seq(E) /\ y \in Seq(E)
      BY <3>1
    <3>. HIDE DEF x, y
    <3>3. (F \o x) \o y = F \o (x \o y)
      BY <3>2, ConcatAssociative
    <3>. QED
      BY <3>3 DEF x, y
  <2>. QED
    BY <1>3, <2>1, <2>2
<1>11. Handled' = P
  <2>1. Handled' = [i \in Inputs |-> passed'[i] + Len([j \in Inputs |-> << >>][i])]
    BY DEF Handled
  <2>2. \A i \in Inputs : passed'[i] + Len([j \in Inputs |-> << >>][i]) = P[i]
    BY <1>2, <1>4
  <2>. QED
    BY <1>4, <2>1, <2>2
<1>12. QueuedBy(Queue', Handled', taken')
  BY <1>2, <1>9, <1>10, <1>11
<1>13. Queued'
  BY <1>2, <1>12, SMTT(30) DEF Queued, QueuedBy, tagged
<1>14. Counts'
  <2>1. ASSUME NEW i \in Inputs PROVE P[i] <= taken[i] /\ taken[i] <= Len(stream[i])
    BY <1>1, <1>3, <1>4, <1>5, <1>7
  <2>. QED
    BY <1>2, <1>11, <2>1 DEF Counts
<1>15. Held'
  <2>1. \A i \in Inputs : g'.buffered[i] = << >>
    OBVIOUS
  <2>. QED
    BY <2>1 DEF Held
<1>. QED
  BY <1>13, <1>14, <1>15

(* It is held back: the merge sees nothing. *)
LEMMA HeldBackStep ==
  ASSUME GInv, NEW t, NEW q, Takes(t, q), heldBack(g, t), NEW abort, g' = handle(q, t, abort)
  PROVE  /\ Counts' /\ Queued' /\ Held' /\ Aligned' /\ Ends' /\ Clock'
         /\ g' \in States /\ passed' \in [Inputs -> Nat]
         /\ UNCHANGED MP!vars
<1>. DEFINE i == t.input
<1>1. /\ stream \in [Inputs -> Streams] /\ passed \in [Inputs -> Nat] /\ g \in States /\ q \in States
  BY DEF GInv, TypeOK, States, Takes
<1>2. /\ i \in Inputs /\ t = tagged(i, Handled[i] + 1) /\ Handled[i] + 1 \in 1..Len(stream[i])
      /\ g.alignedFor[i] /\ heldBack(q, t)
      /\ SameInputs(g, q) /\ q.out = g.out /\ q.closed = g.closed /\ q.pending = << >>
      /\ q.aligning = g.aligning /\ q.barrier = g.barrier /\ q.alignedFor = g.alignedFor
      /\ q.buffered = g.buffered
  BY TakesNext
<1>3. t \in Tagged(NumInputs)
  BY <1>1, <1>2, TaggedElement
<1>4. passed' = passed /\ stream' = stream /\ got' = got
  BY DEF Takes, countPassed
<1>5. g' = [q EXCEPT !.buffered[i] = Append(@, t)]
  BY <1>2 DEF handle
<1>6. Append(g.buffered[i], t) \in Seq(Tagged(NumInputs)) /\ g.buffered \in [Inputs -> Seq(Tagged(NumInputs))]
  BY <1>1, <1>2, <1>3, GateInputs
<1>. HIDE DEF i
<1>7. /\ g' \in States /\ g'.replay = q.replay
      /\ g'.buffered = [g.buffered EXCEPT ![i] = Append(g.buffered[i], t)]
      /\ SameInputs(g, g') /\ g'.out = g.out /\ g'.closed = g.closed /\ g'.pending = << >>
      /\ g'.aligning = g.aligning /\ g'.barrier = g.barrier /\ g'.alignedFor = g.alignedFor
  <2>. DEFINE b == [g.buffered EXCEPT ![i] = Append(g.buffered[i], t)]
  <2>1. b \in [1..NumInputs -> Seq(Tagged(NumInputs))]
    BY <1>2, <1>6 DEF Inputs
  <2>2. g' = [q EXCEPT !.buffered = b]
    BY <1>1, <1>2, <1>5 DEF States, GateState
  <2>. HIDE DEF b
  <2>3. g' \in States /\ g'.buffered = b
    BY <1>1, <2>1, <2>2 DEF States, GateState
  <2>4. /\ g'.replay = q.replay /\ SameInputs(q, g') /\ g'.out = q.out /\ g'.closed = q.closed
        /\ g'.pending = q.pending /\ g'.aligning = q.aligning /\ g'.barrier = q.barrier
        /\ g'.alignedFor = q.alignedFor
    BY <1>1, <2>2 DEF States, GateState, SameInputs
  <2>. QED
    BY <1>2, <2>3, <2>4 DEF b, SameInputs
<1>8. \A j \in Inputs : Len(g.buffered[j]) \in Nat
  BY <1>6
<1>9. /\ g'.buffered[i] = Append(g.buffered[i], t) /\ \A j \in Inputs : j # i => g'.buffered[j] = g.buffered[j]
  BY <1>2, <1>6, <1>7
<1>10. Handled' = [Handled EXCEPT ![i] = @ + 1]
  <2>1. Handled' = [j \in Inputs |-> passed[j] + Len(g'.buffered[j])]
    BY <1>4 DEF Handled
  <2>2. ASSUME NEW j \in Inputs
        PROVE  passed[j] + Len(g'.buffered[j]) = [Handled EXCEPT ![i] = @ + 1][j]
    <3>1. CASE j = i
      <4>1. Len(g'.buffered[i]) = Len(g.buffered[i]) + 1
        BY <1>2, <1>3, <1>6, <1>9
      <4>2. Handled[i] = passed[i] + Len(g.buffered[i]) /\ passed[i] \in Nat /\ Len(g.buffered[i]) \in Nat
        BY <1>1, <1>2, <1>8 DEF Handled
      <4>3. [Handled EXCEPT ![i] = @ + 1][i] = Handled[i] + 1
        BY <1>2 DEF Handled
      <4>. QED
        BY <3>1, <4>1, <4>2, <4>3
    <3>2. CASE j # i
      BY <1>1, <1>2, <1>8, <1>9, <3>2 DEF Handled
    <3>. QED
      BY <3>1, <3>2
  <2>. QED
    BY <2>1, <2>2 DEF Handled
<1>11. Counts' /\ Queued'
  BY <1>7, <1>10, QueueKept DEF i
<1>12. Held'
  <2>1. ASSUME NEW j \in Inputs
        PROVE  /\ g'.buffered[j] # << >> => g'.alignedFor[j]
               /\ \A n \in 1..Len(g'.buffered[j]) : g'.buffered[j][n] = tagged(j, passed[j] + n)
    <3>1. /\ g.buffered[j] # << >> => g.alignedFor[j]
          /\ \A n \in 1..Len(g.buffered[j]) : g.buffered[j][n] = tagged(j, passed[j] + n)
      BY DEF GInv, Held
    <3>2. CASE j # i
      BY <1>7, <1>9, <3>1, <3>2
    <3>3. CASE j = i
      <4>. DEFINE L == Len(g.buffered[i])
                  h == Append(g.buffered[i], t)
      <4>1. /\ L \in Nat /\ \A n \in 1..L : h[n] = g.buffered[i][n]
            /\ h[L + 1] = t /\ \A n \in 1..Len(h) : n \in 1..L \/ n = L + 1
        BY <1>2, <1>3, <1>6
      <4>2. Handled[i] + 1 = passed[i] + (L + 1)
        BY <1>1, <1>2, <1>8, SMTT(30) DEF Handled
      <4>. HIDE DEF h, L
      <4>3. \A n \in 1..Len(h) : h[n] = tagged(i, passed[i] + n)
        BY <1>2, <3>1, <3>3, <4>1, <4>2 DEF L
      <4>. QED
        BY <1>2, <1>7, <1>9, <3>3, <4>3 DEF h
    <3>. QED
      BY <3>2, <3>3
  <2>. QED
    BY <1>4, <2>1 DEF Held, tagged
<1>13. Aligned'
  BY <1>4, <1>7 DEF GInv, Aligned, SameInputs
<1>14. emitted' = emitted
  BY <1>4, <1>7 DEF emitted, Takes
<1>15. Stand' = Stand
  BY <1>4, <1>7 DEF Stand
<1>16. Ends'
  <2>1. liveInputs' = liveInputs
    BY <1>7 DEF liveInputs, SameInputs
  <2>2. \A j \in Inputs : MP!ended(j, passed[j])' <=> MP!ended(j, passed[j])
    BY <1>4 DEF MP!ended, MP!passedKind
  <2>. QED
    BY <1>4, <1>7, <2>1, <2>2 DEF GInv, Ends, SameInputs
<1>17. Clock'
  <2>1. minimum(g') = minimum(g)
    BY <1>1, <1>7, SameMinimum
  <2>2. \A j \in Inputs : MP!timeOf(j, passed[j])' = MP!timeOf(j, passed[j])
    BY <1>4 DEF MP!timeOf, MP!passedKind
  <2>3. MP!lastTime' = MP!lastTime
    BY <1>14 DEF MP!lastTime
  <2>. QED
    BY <1>7, <2>1, <2>2, <2>3 DEF GInv, Clock, SameInputs
<1>. QED
  BY <1>1, <1>4, <1>7, <1>11, <1>12, <1>13, <1>14, <1>15, <1>16, <1>17 DEF MP!vars

-----------------------------------------------------------------------------
(* What the merge sees of an element that is not held back.                *)

LEMMA PassingElement ==
  ASSUME GInv, NEW t, NEW q, Takes(t, q), ~heldBack(g, t)
  PROVE  /\ t.input \in Inputs /\ ~g.alignedFor[t.input] /\ t \in Tagged(NumInputs)
         /\ Stand[t.input] = passed[t.input] /\ passed[t.input] \in Nat
         /\ passed[t.input] + 1 \in 1..Len(stream[t.input])
         /\ t = tagged(t.input, passed[t.input] + 1)
         /\ t.kind = stream[t.input][passed[t.input] + 1].kind
         /\ t.val = stream[t.input][passed[t.input] + 1].val
         /\ passed' \in [Inputs -> Nat] /\ passed'[t.input] = passed[t.input] + 1
         /\ \A j \in Inputs : j # t.input => passed'[j] = passed[j]
         /\ stream' = stream /\ got' = got /\ emitted = got /\ got \in Seq(Tagged(NumInputs))
         /\ t.kind # "eos" => ~g.endOfStream[t.input]
<1>. DEFINE i == t.input
<1>1. /\ stream \in [Inputs -> Streams] /\ passed \in [Inputs -> Nat] /\ g \in States
      /\ got \in Seq(Tagged(NumInputs))
  BY DEF GInv, TypeOK, States
<1>2. /\ i \in Inputs /\ ~g.alignedFor[i] /\ t = tagged(i, passed[i] + 1)
      /\ passed[i] + 1 \in 1..Len(stream[i]) /\ passed' = [passed EXCEPT ![i] = @ + 1]
  BY TakesNext
<1>3. Stand[i] = passed[i]
  BY <1>2, Standing
<1>4. /\ t \in Tagged(NumInputs) /\ t.kind = stream[i][passed[i] + 1].kind
      /\ t.val = stream[i][passed[i] + 1].val
  BY <1>1, <1>2, TaggedElement
<1>. HIDE DEF i
<1>5. passed' \in [Inputs -> Nat] /\ passed'[i] = passed[i] + 1 /\ \A j \in Inputs : j # i => passed'[j] = passed[j]
  BY <1>1, <1>2
<1>6. emitted = got
  BY <1>1 DEF Takes, emitted
<1>7. t.kind # "eos" => ~g.endOfStream[i]
  <2>1. g.endOfStream[i] => MP!ended(i, passed[i])
    BY <1>2 DEF GInv, Ends
  <2>2. /\ passed[i] \in Nat /\ passed[i] <= Len(stream[i]) /\ passed[i] + 1 > passed[i]
    BY <1>1, <1>2, Standing
  <2>3. MP!ended(i, passed[i]) => MP!isAt(i, passed[i] + 1, "eos")
    BY <1>1, <1>2, <2>2, SameNames, MergeAssumes, MP!NothingAfterEnd
  <2>. QED
    BY <1>4, <2>1, <2>3 DEF MP!isAt
<1>. QED
  BY <1>1, <1>2, <1>3, <1>4, <1>5, <1>6, <1>7 DEF Takes, i

(* What has passed, and where the merge then stands, has the ends and the  *)
(* times that the gate knew of, but for the element's own.                 *)
LEMMA PassingKnows ==
  ASSUME GInv, NEW t, NEW q, Takes(t, q), ~heldBack(g, t)
  PROVE  /\ MP!After(t.input) \in [Inputs -> Nat]
         /\ MP!After(t.input)[t.input] = passed[t.input] + 1
         /\ \A j \in Inputs : j # t.input => MP!After(t.input)[j] = Stand[j]
         /\ \A j \in Inputs :
              /\ MP!After(t.input)[j] <= Len(stream[j])
              /\ MP!ended(j, MP!After(t.input)[j]) <=> g.endOfStream[j] \/ (j = t.input /\ t.kind = "eos")
              /\ MP!timeOf(j, MP!After(t.input)[j])
                   = IF j = t.input /\ t.kind = "watermark" THEN t.val ELSE g.watermarks[j]
              /\ MP!ended(j, passed[j])' <=> g.endOfStream[j] \/ (j = t.input /\ t.kind = "eos")
              /\ MP!timeOf(j, passed[j])'
                   = IF j = t.input /\ t.kind = "watermark" THEN t.val ELSE g.watermarks[j]
<1>. DEFINE i == t.input
            a == MP!After(i)
            n == passed[i]
<1>1. stream \in [Inputs -> Streams] /\ passed \in [Inputs -> Nat]
  BY DEF GInv, TypeOK
<1>2. /\ i \in Inputs /\ Stand[i] = n /\ n \in Nat /\ n + 1 \in 1..Len(stream[i])
      /\ t.kind = stream[i][n + 1].kind /\ t.val = stream[i][n + 1].val
      /\ passed'[i] = n + 1 /\ \A j \in Inputs : j # i => passed'[j] = passed[j]
      /\ stream' = stream
  BY PassingElement
<1>3. /\ Stand \in [Inputs -> Nat]
      /\ \A j \in Inputs : /\ Stand[j] <= Len(stream[j])
                           /\ g.endOfStream[j] <=> MP!ended(j, Stand[j])
                           /\ g.watermarks[j] = MP!timeOf(j, Stand[j])
  BY Standing
<1>4. a = [Stand EXCEPT ![i] = @ + 1]
  BY DEF MP!After
<1>. HIDE DEF i, a
<1>5. a \in [Inputs -> Nat] /\ a[i] = n + 1 /\ \A j \in Inputs : j # i => a[j] = Stand[j]
  BY <1>2, <1>3, <1>4
<1>. HIDE DEF n
<1>7. /\ MP!ended(i, n + 1) <=> g.endOfStream[i] \/ t.kind = "eos"
      /\ MP!timeOf(i, n + 1) = IF t.kind = "watermark" THEN t.val ELSE g.watermarks[i]
  <2>1. MP!ended(i, n + 1) <=> MP!ended(i, n) \/ MP!isAt(i, n + 1, "eos")
    BY <1>2, MergeAssumes, MP!EndedNext
  <2>2. n + 1 <= Len(stream[i])
    BY <1>2
  <2>3. MP!timeOf(i, n + 1) = IF MP!isAt(i, n + 1, "watermark") THEN stream[i][n + 1].val ELSE MP!timeOf(i, n)
    BY <1>1, <1>2, <2>2, SameNames, MergeAssumes, MP!TimeNext
  <2>. QED
    BY <1>2, <1>3, <2>1, <2>3 DEF MP!isAt
<1>8. ASSUME NEW j \in Inputs
      PROVE  /\ a[j] <= Len(stream[j])
             /\ MP!ended(j, a[j]) <=> g.endOfStream[j] \/ (j = i /\ t.kind = "eos")
             /\ MP!timeOf(j, a[j]) = IF j = i /\ t.kind = "watermark" THEN t.val ELSE g.watermarks[j]
  <2>1. CASE j = i
    BY <1>2, <1>5, <1>7, <2>1
  <2>2. CASE j # i
    BY <1>3, <1>5, <2>2
  <2>. QED
    BY <2>1, <2>2
<1>9. ASSUME NEW j \in Inputs
      PROVE  /\ MP!ended(j, passed'[j]) <=> g.endOfStream[j] \/ (j = i /\ t.kind = "eos")
             /\ MP!timeOf(j, passed'[j]) = IF j = i /\ t.kind = "watermark" THEN t.val ELSE g.watermarks[j]
  <2>1. CASE j = i
    BY <1>2, <1>7, <2>1
  <2>2. CASE j # i
    BY <1>2, <2>2 DEF GInv, Ends, Clock
  <2>. QED
    BY <2>1, <2>2
<1>10. \A j \in Inputs : /\ MP!ended(j, passed[j])' <=> MP!ended(j, passed'[j])
                         /\ MP!timeOf(j, passed[j])' = MP!timeOf(j, passed'[j])
  BY <1>2 DEF MP!ended, MP!timeOf, MP!passedKind
<1>. QED
  BY <1>5, <1>8, <1>9, <1>10 DEF i, a, n

-----------------------------------------------------------------------------
(* The steps of Recv, each one a step of the merge.                        *)

(* A step keeps the invariant's parts, and the merge takes it too. *)
Simulated ==
  /\ g' \in States /\ passed' \in [Inputs -> Nat]
  /\ Counts' /\ Queued' /\ Held' /\ Aligned' /\ Ends' /\ Clock'
  /\ [MP!Next]_(MP!vars)

LEMMA LastIs ==
  ASSUME MP!Good(Stand, emitted)
  PROVE  /\ MP!Timed(emitted)
         /\ MP!lastTime = MP!lastOf(emitted)
         /\ MP!lastTime' = MP!lastOf(emitted')
BY DEF MP!Good, MP!Timely, MP!Timed, MP!lastTime, MP!lastOf

LEMMA AlignedKept ==
  ASSUME GInv, NEW t, NEW q, Takes(t, q), ~heldBack(g, t),
         g'.aligning = g.aligning, g'.barrier = g.barrier, g'.alignedFor = g.alignedFor,
         \A j \in Inputs : g'.endOfStream[j] => g.endOfStream[j] \/ j = t.input,
         g'.aligning => \E j \in Inputs : ~g'.endOfStream[j] /\ ~g'.alignedFor[j]
  PROVE  Aligned'
<1>1. /\ t.input \in Inputs /\ ~g.alignedFor[t.input] /\ stream' = stream
      /\ \A j \in Inputs : j # t.input => passed'[j] = passed[j]
  BY PassingElement
<1>2. ASSUME NEW j \in Inputs, g'.alignedFor[j]
      PROVE  /\ g'.aligning /\ ~g'.endOfStream[j] /\ passed'[j] >= 1
             /\ stream'[j][passed'[j]] = [kind |-> "barrier", val |-> g'.barrier.val]
  <2>1. g.alignedFor[j] /\ j # t.input
    BY <1>1, <1>2
  <2>. QED
    BY <1>1, <2>1 DEF GInv, Aligned
<1>3. g'.aligning => /\ g'.barrier = Own("barrier", g'.barrier.val)
                     /\ \E j \in Inputs : g'.alignedFor[j]
  BY DEF GInv, Aligned
<1>. QED
  BY <1>2, <1>3 DEF Aligned

LEMMA RecordStep ==
  ASSUME GInv, MP!Good(Stand, emitted), NEW t, NEW q, Takes(t, q), ~heldBack(g, t),
         t.kind = "record", NEW abort, g' = handle(q, t, abort)
  PROVE  Simulated
<1>. DEFINE i == t.input
<1>1. g \in States /\ q \in States /\ passed \in [Inputs -> Nat]
  BY DEF GInv, TypeOK, States, Takes
<1>2. /\ ~heldBack(q, t) /\ SameInputs(g, q) /\ q.out = g.out /\ q.closed = g.closed
      /\ q.pending = << >> /\ q.aligning = g.aligning /\ q.barrier = g.barrier
      /\ q.alignedFor = g.alignedFor /\ q.buffered = g.buffered
  BY TakesNext
<1>3. /\ i \in Inputs /\ ~g.alignedFor[i] /\ t \in Tagged(NumInputs)
      /\ Stand[i] = passed[i] /\ passed[i] \in Nat
      /\ passed[i] + 1 \in 1..Len(stream[i])
      /\ t = tagged(i, passed[i] + 1) /\ t.kind = stream[i][passed[i] + 1].kind
      /\ passed' \in [Inputs -> Nat] /\ passed'[i] = passed[i] + 1
      /\ \A j \in Inputs : j # i => passed'[j] = passed[j]
      /\ stream' = stream /\ got' = got /\ emitted = got /\ got \in Seq(Tagged(NumInputs))
  BY PassingElement
<1>4. g' = [q EXCEPT !.pending = Append(@, t)]
  BY <1>2 DEF handle, deliver
<1>. HIDE DEF i
<1>5. /\ g' \in States /\ SameInputs(q, g') /\ SameAlignment(q, g')
      /\ g'.out = q.out /\ g'.closed = q.closed /\ g'.pending = <<t>>
  <2>1. Append(q.pending, t) = <<t>> /\ <<t>> \in Seq(Tagged(NumInputs))
    BY <1>2, <1>3
  <2>2. g' = [q EXCEPT !.pending = <<t>>]
    BY <1>1, <1>4, <2>1
  <2>. QED
    BY <1>1, <2>1, <2>2 DEF States, GateState, SameInputs, SameAlignment
<1>6. /\ SameInputs(g, g') /\ g'.out = g.out /\ g'.closed = g.closed
      /\ g'.aligning = g.aligning /\ g'.barrier = g.barrier /\ g'.alignedFor = g.alignedFor
      /\ g'.buffered = g.buffered /\ g'.replay = q.replay
  BY <1>2, <1>5 DEF SameInputs, SameAlignment
<1>7. Counts' /\ Queued' /\ Held'
  BY <1>5, <1>6, QueuePassed
<1>8. Aligned'
  BY <1>6, AlignedKept DEF SameInputs, GInv, Aligned
<1>9. \A j \in Inputs : /\ MP!ended(j, passed[j])' <=> g.endOfStream[j]
                        /\ MP!timeOf(j, passed[j])' = g.watermarks[j]
  <2>1. t.kind # "eos" /\ t.kind # "watermark"
    OBVIOUS
  <2>. QED
    BY <2>1, PassingKnows
<1>10. Ends'
  <2>1. liveInputs' = liveInputs
    BY <1>6 DEF liveInputs, SameInputs
  <2>. QED
    BY <1>6, <1>9, <2>1 DEF GInv, Ends, SameInputs
<1>11. emitted' = Append(emitted, t)
  <2>1. emitted' = got \o <<t>>
    BY <1>3, <1>5 DEF emitted
  <2>2. got \o <<t>> = Append(got, t)
    BY <1>3
  <2>. QED
    BY <1>3, <2>1, <2>2
<1>12. Clock'
  <2>1. minimum(g') = minimum(g)
    BY <1>1, <1>5, <1>6, SameMinimum
  <2>2. MP!lastTime' = MP!lastTime
    <3>1. t.kind # "watermark"
      OBVIOUS
    <3>2. MP!lastOf(Append(emitted, t)) = MP!lastOf(emitted)
      BY <1>3, <3>1, LastIs, SameNames, MergeAssumes, MP!LastNext
    <3>. QED
      BY <1>11, <3>2, LastIs
  <2>. QED
    BY <1>6, <1>9, <2>1, <2>2 DEF GInv, Clock, SameInputs
<1>13. MP!Pass(i)
  <2>1. Stand' = MP!After(i)
    <3>1. Stand' = [j \in Inputs |-> IF g.alignedFor[j] THEN passed'[j] - 1 ELSE passed'[j]]
      BY <1>6 DEF Stand
    <3>2. ASSUME NEW j \in Inputs
          PROVE  (IF g.alignedFor[j] THEN passed'[j] - 1 ELSE passed'[j]) = [Stand EXCEPT ![i] = @ + 1][j]
      BY <1>3 DEF Stand
    <3>. QED
      BY <3>1, <3>2 DEF Stand, MP!After
  <2>2. MP!Output(i) = <<t>>
    BY <1>3 DEF MP!Output, MP!next, tagged
  <2>3. emitted \o <<t>> = Append(emitted, t)
    BY <1>3
  <2>4. MP!next(i, Stand[i]).kind # "barrier" /\ Stand[i] < Len(stream[i])
    BY <1>3 DEF MP!next
  <2>. QED
    BY <1>3, <1>11, <2>1, <2>2, <2>3, <2>4 DEF MP!Pass
<1>14. MP!Next
  BY <1>3, <1>13, SameNames DEF MP!Next
<1>. QED
  BY <1>3, <1>5, <1>7, <1>8, <1>10, <1>12, <1>14 DEF Simulated

(* The merge then stands one further, if no alignment begins or ends. *)
LEMMA StandsAfter ==
  ASSUME GInv, NEW t, NEW q, Takes(t, q), ~heldBack(g, t), g'.alignedFor = g.alignedFor
  PROVE  Stand' = MP!After(t.input)
<1>1. /\ t.input \in Inputs /\ ~g.alignedFor[t.input]
      /\ Stand[t.input] = passed[t.input] /\ passed'[t.input] = passed[t.input] + 1
      /\ \A j \in Inputs : j # t.input => passed'[j] = passed[j]
  BY PassingElement
<1>2. Stand' = [j \in Inputs |-> IF g.alignedFor[j] THEN passed'[j] - 1 ELSE passed'[j]]
  BY DEF Stand
<1>3. ASSUME NEW j \in Inputs
      PROVE  (IF g.alignedFor[j] THEN passed'[j] - 1 ELSE passed'[j])
               = [Stand EXCEPT ![t.input] = @ + 1][j]
  BY <1>1 DEF Stand
<1>. QED
  BY <1>2, <1>3 DEF Stand, MP!After

(* The time that the merge sends on is the one that advance forwards. *)
LEMMA Rises ==
  ASSUME GInv, MP!Good(Stand, emitted), NEW m \in Times, NEW p \in Seq(Tagged(NumInputs)),
         p = IF m > g.out THEN <<Own("watermark", m)>> ELSE << >>
  PROVE  /\ emitted \in Seq(Tagged(NumInputs)) /\ emitted \o p \in Seq(Tagged(NumInputs))
         /\ MP!Timed(emitted \o p)
         /\ MP!lastOf(emitted \o p) = IF m > g.out THEN m ELSE g.out
<1>1. emitted \in Seq(Tagged(NumInputs))
  BY SameNames DEF MP!Good, MP!Well
<1>2. MP!Timed(emitted) /\ g.out = MP!lastOf(emitted)
  BY LastIs DEF GInv, Clock
<1>3. CASE m > g.out
  <2>. DEFINE e == Own("watermark", m)
  <2>1. e \in Tagged(NumInputs) /\ e.kind = "watermark" /\ e.val = m
    BY OwnTagged, TimesAssumption DEF Kinds, Times
  <2>2. p = <<e>>
    BY <1>3
  <2>. HIDE DEF e
  <2>3. emitted \o p = Append(emitted, e) /\ Append(emitted, e) \in Seq(Tagged(NumInputs))
    BY <1>1, <2>1, <2>2, ConcatOne
  <2>4. MP!Timed(Append(emitted, e)) /\ MP!lastOf(Append(emitted, e)) = m
    BY <1>1, <1>2, <1>3, <2>1, SameNames, MergeAssumes, MP!LastNext
  <2>. QED
    BY <1>1, <1>3, <2>3, <2>4
<1>4. CASE ~(m > g.out)
  <2>1. emitted \o p = emitted
    BY <1>1, <1>4
  <2>. QED
    BY <1>1, <1>2, <1>4, <2>1
<1>. QED
  BY <1>3, <1>4

LEMMA WatermarkStep ==
  ASSUME GInv, MP!Good(Stand, emitted), NEW t, NEW q, Takes(t, q), ~heldBack(g, t),
         t.kind = "watermark", NEW abort, g' = handle(q, t, abort)
  PROVE  Simulated
<1>. DEFINE i == t.input
            q1 == [q EXCEPT !.watermarks[i] = t.val]
            m == minimum(q1)
            p == IF m > g.out THEN <<Own("watermark", m)>> ELSE << >>
<1>1. /\ g \in States /\ q \in States /\ passed \in [Inputs -> Nat] /\ stream \in [Inputs -> Streams]
  BY DEF GInv, TypeOK, States, Takes
<1>2. /\ ~heldBack(q, t) /\ SameInputs(g, q) /\ q.out = g.out /\ q.closed = g.closed
      /\ q.pending = << >> /\ q.aligning = g.aligning /\ q.barrier = g.barrier
      /\ q.alignedFor = g.alignedFor /\ q.buffered = g.buffered
  BY TakesNext
<1>3. /\ i \in Inputs /\ t \in Tagged(NumInputs) /\ ~g.endOfStream[i]
      /\ Stand[i] = passed[i] /\ passed[i] \in Nat
      /\ passed[i] + 1 \in 1..Len(stream[i])
      /\ t.kind = stream[i][passed[i] + 1].kind
      /\ passed' \in [Inputs -> Nat]
      /\ stream' = stream /\ got' = got /\ emitted = got /\ got \in Seq(Tagged(NumInputs))
  <2>1. t.kind # "eos"
    OBVIOUS
  <2>. QED
    BY <2>1, PassingElement
<1>4. g' = advance(q1)
  BY <1>2 DEF handle, deliver
<1>5. /\ MP!After(i) \in [Inputs -> Nat]
      /\ \A j \in Inputs :
           /\ MP!After(i)[j] <= Len(stream[j])
           /\ MP!ended(j, MP!After(i)[j]) <=> g.endOfStream[j]
           /\ MP!timeOf(j, MP!After(i)[j]) = IF j = i THEN t.val ELSE g.watermarks[j]
           /\ MP!ended(j, passed[j])' <=> g.endOfStream[j]
           /\ MP!timeOf(j, passed[j])' = IF j = i THEN t.val ELSE g.watermarks[j]
  <2>1. t.kind # "eos"
    OBVIOUS
  <2>. QED
    BY <2>1, PassingKnows
<1>. HIDE DEF i
<1>6. /\ q1 \in States /\ q1.endOfStream = g.endOfStream /\ q1.remaining = g.remaining
      /\ \A j \in Inputs : q1.watermarks[j] = IF j = i THEN t.val ELSE g.watermarks[j]
      /\ SameAlignment(q, q1) /\ q1.out = g.out /\ q1.closed = g.closed /\ q1.pending = << >>
  <2>. DEFINE w == [g.watermarks EXCEPT ![i] = t.val]
  <2>1. /\ w \in [1..NumInputs -> Int]
        /\ \A j \in Inputs : w[j] = IF j = i THEN t.val ELSE g.watermarks[j]
    BY <1>1, <1>3, GateInputs DEF Inputs, Tagged
  <2>2. q1 = [q EXCEPT !.watermarks = w]
    BY <1>1, <1>2 DEF States, GateState, SameInputs
  <2>. HIDE DEF w, q1
  <2>3. /\ q1 \in States /\ q1.watermarks = w /\ q1.endOfStream = q.endOfStream
        /\ q1.remaining = q.remaining /\ SameAlignment(q, q1) /\ q1.out = q.out
        /\ q1.closed = q.closed /\ q1.pending = q.pending
    BY <1>1, <2>1, <2>2 DEF States, GateState, SameAlignment
  <2>. QED
    BY <1>2, <2>1, <2>3 DEF SameInputs
<1>. HIDE DEF q1
<1>7. m = MP!low(MP!After(i)) /\ m \in Times /\ m \in Int /\ g.out \in Int
  <2>. DEFINE a == MP!After(i)
  <2>1. /\ a \in [Inputs -> Nat] /\ \A j \in Inputs : a[j] <= Len(stream[j])
        /\ \A j \in Inputs : q1.endOfStream[j] <=> MP!ended(j, a[j])
        /\ \A j \in Inputs : q1.watermarks[j] = MP!timeOf(j, a[j])
    BY <1>5, <1>6
  <2>. HIDE DEF a
  <2>2. m = MP!low(a) /\ m \in Times
    BY <1>1, <1>6, <2>1, MinimumIsLow
  <2>. QED
    BY <1>1, <2>2, TimesAssumption, GateInputs DEF Times, a
<1>. HIDE DEF m
<1>8. /\ g' \in States /\ SameInputs(q1, g') /\ SameAlignment(q1, g') /\ g'.closed = q1.closed
      /\ minimum(g') <= g'.out
      /\ g'.out = (IF m > g.out THEN m ELSE g.out) /\ g'.pending = p
  <2>1. /\ g' \in States /\ SameInputs(q1, g') /\ SameAlignment(q1, g') /\ g'.closed = q1.closed
        /\ minimum(g') <= g'.out
        /\ m > g.out => g'.out = m /\ g'.pending = Append(q1.pending, Own("watermark", m))
        /\ ~(m > g.out) => g' = q1
    BY <1>4, <1>6, <1>7, AdvanceDoes DEF m
  <2>2. Append(<< >>, Own("watermark", m)) = <<Own("watermark", m)>>
    OBVIOUS
  <2>. QED
    BY <1>6, <2>1, <2>2
<1>. HIDE DEF p
<1>9. /\ g'.endOfStream = g.endOfStream /\ g'.remaining = g.remaining /\ g'.closed = g.closed
      /\ \A j \in Inputs : g'.watermarks[j] = IF j = i THEN t.val ELSE g.watermarks[j]
      /\ g'.aligning = g.aligning /\ g'.barrier = g.barrier /\ g'.alignedFor = g.alignedFor
      /\ g'.buffered = g.buffered /\ g'.replay = q.replay
  BY <1>2, <1>6, <1>8 DEF SameInputs, SameAlignment
<1>10. Counts' /\ Queued' /\ Held'
  BY <1>8, <1>9, QueuePassed
<1>11. Aligned'
  BY <1>9, AlignedKept DEF GInv, Aligned
<1>12. Ends'
  <2>1. liveInputs' = liveInputs
    BY <1>9 DEF liveInputs
  <2>. QED
    BY <1>5, <1>9, <2>1 DEF GInv, Ends
<1>13. emitted' = emitted \o p
  BY <1>3, <1>8 DEF emitted
<1>14. p \in Seq(Tagged(NumInputs))
  BY <1>8, GateInputs
<1>15. Clock'
  <2>1. MP!lastTime' = g'.out
    <3>1. MP!lastOf(emitted \o p) = IF m > g.out THEN m ELSE g.out
      BY <1>7, <1>14, Rises DEF p
    <3>. QED
      BY <1>8, <1>13, <3>1, LastIs
  <2>. QED
    BY <1>5, <1>8, <1>9, <2>1 DEF Clock
<1>16. MP!Pass(i)
  <2>1. Stand' = MP!After(i)
    BY <1>9, StandsAfter DEF i
  <2>2. MP!Output(i) = p
    <3>. DEFINE over == (\A j \in MP!Inputs : MP!ended(j, MP!After(i)[j])) /\ ~MP!ended(i, Stand[i])
    <3>1. ~over
      BY <1>3, <1>5, SameNames
    <3>2. MP!next(i, Stand[i]).kind # "record"
      BY <1>3 DEF MP!next
    <3>3. MP!Output(i) = (IF m > MP!lastTime THEN <<MP!Own("watermark", m)>> ELSE << >>)
                           \o (IF over THEN <<MP!Own("eos", 0)>> ELSE << >>)
      BY <1>7, <3>2 DEF MP!Output
    <3>4. g.out = MP!lastTime
      BY DEF GInv, Clock
    <3>5. MP!Output(i) = p \o << >>
      BY <3>1, <3>3, <3>4, SameNames DEF p
    <3>. QED
      BY <1>14, <3>5
  <2>3. MP!next(i, Stand[i]).kind # "barrier" /\ Stand[i] < Len(stream[i])
    BY <1>3 DEF MP!next
  <2>. QED
    BY <1>3, <1>13, <2>1, <2>2, <2>3 DEF MP!Pass
<1>17. MP!Next
  BY <1>3, <1>16, SameNames DEF MP!Next
<1>. QED
  BY <1>3, <1>8, <1>10, <1>11, <1>12, <1>15, <1>17 DEF Simulated

(* A barrier that arrives while another is aligned carries the same        *)
(* checkpoint: the next one of every live input.                           *)
LEMMA OneBarrier ==
  ASSUME GInv, MP!Good(Stand, emitted), NEW t, NEW q, Takes(t, q), ~heldBack(g, t),
         t.kind = "barrier"
  PROVE  /\ g.aligning => g.barrier = Own("barrier", t.val)
         /\ \A j \in Inputs : g.alignedFor[j] \/ j = t.input =>
              /\ Stand[j] + 1 \in 1..Len(stream[j]) /\ passed'[j] = Stand[j] + 1
              /\ stream[j][Stand[j] + 1] = [kind |-> "barrier", val |-> t.val]
              /\ ~g.endOfStream[j]
<1>. DEFINE i == t.input
<1>1. stream \in [Inputs -> Streams] /\ passed \in [Inputs -> Nat]
  BY DEF GInv, TypeOK
<1>2. /\ i \in Inputs /\ ~g.alignedFor[i] /\ ~g.endOfStream[i]
      /\ Stand[i] = passed[i] /\ passed[i] + 1 \in 1..Len(stream[i])
      /\ stream[i][passed[i] + 1].kind = "barrier" /\ t.val = stream[i][passed[i] + 1].val
      /\ passed'[i] = passed[i] + 1 /\ \A j \in Inputs : j # i => passed'[j] = passed[j]
  <2>1. t.kind # "eos"
    OBVIOUS
  <2>. QED
    BY <2>1, PassingElement
<1>3. /\ Stand \in [Inputs -> Nat]
      /\ \A j \in Inputs : /\ Stand[j] <= Len(stream[j]) /\ passed[j] <= Len(stream[j])
                           /\ g.alignedFor[j] => Stand[j] + 1 = passed[j]
                           /\ g.endOfStream[j] <=> MP!ended(j, Stand[j])
  BY Standing
<1>4. PICK K \in Nat : MP!UpTo(Stand, emitted, K)
  BY DEF MP!Good
<1>. HIDE DEF i
<1>5. ASSUME NEW j \in Inputs, Stand[j] + 1 \in 1..Len(stream[j]), ~g.endOfStream[j],
             stream[j][Stand[j] + 1].kind = "barrier"
      PROVE  stream[j][Stand[j] + 1].val = K + 1
  <2>1. ~MP!ended(j, Stand[j]) /\ MP!isAt(j, Stand[j] + 1, "barrier")
    BY <1>3, <1>5 DEF MP!isAt
  <2>. QED
    <3>1. /\ stream \in [MP!Inputs -> Streams] /\ Stand \in [MP!Inputs -> Nat] /\ j \in MP!Inputs
      BY <1>1, <1>3, SameNames
    <3>. QED
      BY <1>4, <1>5, <2>1, <3>1, MergeAssumes, MP!NextBarrier
<1>6. t.val = K + 1
  BY <1>2, <1>5
<1>7. ASSUME NEW j \in Inputs, g.alignedFor[j]
      PROVE  /\ Stand[j] + 1 \in 1..Len(stream[j]) /\ passed'[j] = Stand[j] + 1
             /\ stream[j][Stand[j] + 1] = [kind |-> "barrier", val |-> g.barrier.val]
             /\ ~g.endOfStream[j] /\ g.barrier.val = K + 1
  <2>1. /\ ~g.endOfStream[j] /\ passed[j] >= 1 /\ j # i
        /\ stream[j][passed[j]] = [kind |-> "barrier", val |-> g.barrier.val]
    BY <1>2, <1>7 DEF GInv, Aligned
  <2>2. Stand[j] + 1 = passed[j] /\ Stand[j] + 1 \in 1..Len(stream[j])
    BY <1>1, <1>3, <1>7, <2>1, StreamElements
  <2>3. stream[j][Stand[j] + 1].val = K + 1
    BY <1>5, <2>1, <2>2
  <2>. QED
    BY <1>2, <2>1, <2>2, <2>3
<1>8. g.aligning => g.barrier = Own("barrier", t.val)
  BY <1>6, <1>7 DEF GInv, Aligned
<1>9. stream[i][Stand[i] + 1] = [kind |-> "barrier", val |-> t.val]
  <2>1. stream[i][passed[i] + 1] \in Element
    BY <1>1, <1>2, StreamElements
  <2>. QED
    BY <1>2, <2>1 DEF Element
<1>10. ASSUME NEW j \in Inputs, g.alignedFor[j] \/ j = i
       PROVE  /\ Stand[j] + 1 \in 1..Len(stream[j]) /\ passed'[j] = Stand[j] + 1
              /\ stream[j][Stand[j] + 1] = [kind |-> "barrier", val |-> t.val]
              /\ ~g.endOfStream[j]
  <2>1. CASE g.alignedFor[j]
    BY <1>6, <1>7, <2>1
  <2>2. CASE j = i
    BY <1>2, <1>9, <2>2
  <2>. QED
    BY <1>10, <2>1, <2>2
<1>. QED
  BY <1>8, <1>10 DEF i

LEMMA BarrierStep ==
  ASSUME GInv, MP!Good(Stand, emitted), NEW t, NEW q, Takes(t, q), ~heldBack(g, t),
         t.kind = "barrier", NEW abort \in BOOLEAN, g' = handle(q, t, abort)
  PROVE  Simulated
<1>. DEFINE i == t.input
            k == t.val
            r == [q EXCEPT !.aligning = TRUE,
                           !.barrier = IF q.aligning THEN @ ELSE Own("barrier", k),
                           !.alignedFor[i] = TRUE]
<1>1. /\ g \in States /\ q \in States /\ passed \in [Inputs -> Nat] /\ stream \in [Inputs -> Streams]
  BY DEF GInv, TypeOK, States, Takes
<1>2. /\ ~heldBack(q, t) /\ SameInputs(g, q) /\ q.out = g.out /\ q.closed = g.closed
      /\ q.pending = << >> /\ q.aligning = g.aligning /\ q.barrier = g.barrier
      /\ q.alignedFor = g.alignedFor /\ q.buffered = g.buffered
  BY TakesNext
<1>3. /\ i \in Inputs /\ t \in Tagged(NumInputs) /\ k \in Int /\ ~g.alignedFor[i]
      /\ passed' \in [Inputs -> Nat] /\ \A j \in Inputs : j # i => passed'[j] = passed[j]
      /\ stream' = stream /\ got' = got /\ emitted = got /\ got \in Seq(Tagged(NumInputs))
  BY PassingElement DEF Tagged
<1>4. g' = IF awaitingBarrier(r) THEN [r EXCEPT !.err = @ \/ abort] ELSE completeAlignment(r)
  BY <1>2 DEF handle, deliver, onBarrier
<1>5. /\ g.aligning => g.barrier = Own("barrier", k)
      /\ \A j \in Inputs : g.alignedFor[j] \/ j = i =>
           /\ Stand[j] + 1 \in 1..Len(stream[j]) /\ passed'[j] = Stand[j] + 1
           /\ stream[j][Stand[j] + 1] = [kind |-> "barrier", val |-> k]
           /\ ~g.endOfStream[j]
  BY OneBarrier
<1>. HIDE DEF i, k
<1>6. /\ r \in States /\ SameInputs(g, r) /\ r.out = g.out /\ r.closed = g.closed
      /\ r.pending = << >> /\ r.aligning /\ r.barrier = Own("barrier", k)
      /\ \A j \in Inputs : r.alignedFor[j] <=> g.alignedFor[j] \/ j = i
      /\ r.buffered = g.buffered /\ r.replay = q.replay
  <2>. DEFINE a == [g.alignedFor EXCEPT ![i] = TRUE]
              b == Own("barrier", k)
  <2>1. /\ a \in [1..NumInputs -> BOOLEAN]
        /\ \A j \in Inputs : a[j] <=> g.alignedFor[j] \/ j = i
    BY <1>1, <1>3, GateInputs DEF Inputs
  <2>2. b \in Tagged(NumInputs)
    BY <1>3, OwnTagged DEF Kinds
  <2>3. (IF q.aligning THEN q.barrier ELSE Own("barrier", k)) = b
    BY <1>2, <1>5
  <2>4. r = [q EXCEPT !.aligning = TRUE, !.barrier = b, !.alignedFor = a]
    BY <1>1, <1>2, <2>3 DEF States, GateState
  <2>. HIDE DEF a, b, r
  <2>5. /\ r \in States /\ r.aligning /\ r.barrier = b /\ r.alignedFor = a
        /\ r.out = q.out /\ r.closed = q.closed /\ r.pending = q.pending
        /\ r.buffered = q.buffered /\ r.replay = q.replay
        /\ r.endOfStream = q.endOfStream /\ r.watermarks = q.watermarks /\ r.remaining = q.remaining
    BY <1>1, <2>1, <2>2, <2>4 DEF States, GateState
  <2>. QED
    BY <1>2, <2>1, <2>5 DEF SameInputs, b
<1>. HIDE DEF r
<1>7. awaitingBarrier(r) <=> ~Complete(r)
  BY <1>6, GateInputs DEF awaitingBarrier, Complete, live
<1>8. \A j \in Inputs : /\ MP!ended(j, passed[j])' <=> g.endOfStream[j]
                        /\ MP!timeOf(j, passed[j])' = g.watermarks[j]
  <2>1. t.kind # "eos" /\ t.kind # "watermark"
    OBVIOUS
  <2>. QED
    BY <2>1, PassingKnows
<1>9. ASSUME g' \in States, SameInputs(g, g'), g'.closed = g.closed PROVE Ends'
  <2>1. liveInputs' = liveInputs
    BY <1>9 DEF liveInputs, SameInputs
  <2>. QED
    BY <1>8, <1>9, <2>1 DEF GInv, Ends, SameInputs
<1>10. ASSUME g' \in States, SameInputs(g, g'), g'.out = g.out, MP!lastTime' = MP!lastTime
       PROVE  Clock'
  <2>1. minimum(g') = minimum(g)
    BY <1>1, <1>10, SameMinimum
  <2>. QED
    BY <1>8, <1>10, <2>1 DEF GInv, Clock, SameInputs
<1>11. CASE ~Complete(r)
  <2>1. g' = [r EXCEPT !.err = @ \/ abort]
    BY <1>4, <1>7, <1>11
  <2>2. /\ g' \in States /\ SameInputs(g, g') /\ g'.out = g.out /\ g'.closed = g.closed
        /\ g'.pending = << >> /\ g'.aligning /\ g'.barrier = Own("barrier", k)
        /\ g'.alignedFor = r.alignedFor
        /\ g'.buffered = g.buffered /\ g'.replay = q.replay
    <3>. DEFINE e == r.err \/ abort
    <3>1. e \in BOOLEAN /\ g' = [r EXCEPT !.err = e]
      BY <1>6, <2>1 DEF States, GateState
    <3>. HIDE DEF e
    <3>2. /\ g' \in States /\ SameInputs(r, g') /\ g'.out = r.out /\ g'.closed = r.closed
          /\ g'.pending = r.pending /\ g'.aligning = r.aligning /\ g'.barrier = r.barrier
          /\ g'.alignedFor = r.alignedFor
          /\ g'.buffered = r.buffered /\ g'.replay = r.replay
      BY <1>6, <3>1, OnlyErr
    <3>. QED
      BY <1>6, <3>2 DEF SameInputs
  <2>3. Counts' /\ Queued' /\ Held'
    BY <1>6, <2>2, QueuePassed
  <2>4. Aligned'
    <3>1. ASSUME NEW j \in Inputs, g'.alignedFor[j]
          PROVE  /\ ~g'.endOfStream[j] /\ passed'[j] >= 1
                 /\ stream'[j][passed'[j]] = [kind |-> "barrier", val |-> g'.barrier.val]
      <4>1. g.alignedFor[j] \/ j = i
        BY <1>6, <2>2, <3>1
      <4>2. /\ Stand[j] + 1 \in 1..Len(stream[j]) /\ passed'[j] = Stand[j] + 1
            /\ stream[j][Stand[j] + 1] = [kind |-> "barrier", val |-> k] /\ ~g.endOfStream[j]
        BY <1>5, <4>1
      <4>3. passed'[j] >= 1
        BY <4>2
      <4>4. g'.barrier.val = k
        BY <2>2 DEF Own
      <4>. QED
        BY <1>3, <2>2, <4>2, <4>3, <4>4 DEF SameInputs
    <3>2. g'.barrier = Own("barrier", g'.barrier.val)
      BY <2>2 DEF Own
    <3>3. \E j \in Inputs : g'.alignedFor[j]
      BY <1>3, <1>6, <2>2
    <3>4. \E j \in Inputs : ~g'.endOfStream[j] /\ ~g'.alignedFor[j]
      BY <1>6, <1>11, <2>2 DEF Complete, SameInputs
    <3>. QED
      BY <2>2, <3>1, <3>2, <3>3, <3>4 DEF Aligned
  <2>5. emitted' = emitted
    BY <1>3, <2>2 DEF emitted, Takes
  <2>6. MP!lastTime' = MP!lastTime
    BY <2>5, LastIs
  <2>7. Ends' /\ Clock'
    BY <1>9, <1>10, <2>2, <2>6
  <2>8. Stand' = Stand
    <3>1. Stand' = [j \in Inputs |-> IF r.alignedFor[j] THEN passed'[j] - 1 ELSE passed'[j]]
      BY <2>2 DEF Stand
    <3>2. ASSUME NEW j \in Inputs
          PROVE  (IF r.alignedFor[j] THEN passed'[j] - 1 ELSE passed'[j]) = Stand[j]
      <4>1. CASE r.alignedFor[j]
        <5>1. passed'[j] = Stand[j] + 1 /\ Stand[j] \in Nat
          BY <1>5, <1>6, <4>1, Standing
        <5>. QED
          BY <4>1, <5>1
      <4>2. CASE ~r.alignedFor[j]
        BY <1>3, <1>6, <4>2, Standing
      <4>. QED
        BY <4>1, <4>2
    <3>. QED
      BY <3>1, <3>2 DEF Stand
  <2>9. UNCHANGED MP!vars
    BY <1>3, <2>5, <2>8 DEF MP!vars
  <2>. QED
    BY <1>3, <2>2, <2>3, <2>4, <2>7, <2>9 DEF Simulated
<1>12. CASE Complete(r)
  <2>1. g' = completeAlignment(r)
    BY <1>4, <1>7, <1>12
  <2>2. /\ g' \in States /\ SameInputs(r, g') /\ g'.out = r.out /\ g'.closed = r.closed
        /\ g'.pending = Append(r.pending, r.barrier) /\ ~g'.aligning
        /\ g'.alignedFor = [j \in Inputs |-> FALSE]
        /\ g'.buffered = [j \in Inputs |-> << >>]
        /\ g'.replay = FlattenSeq(r.buffered) \o r.replay
    BY <1>6, <1>12, <2>1, CompleteAlignmentDoes, ZenonT(60)
  <2>3. SameInputs(g, g') /\ g'.out = g.out /\ g'.closed = g.closed
    BY <1>6, <2>2 DEF SameInputs
  <2>4. Counts' /\ Queued' /\ Held'
    BY <1>6, <2>2, QueueDrained, ZenonT(60)
  <2>5. Aligned'
    BY <2>2 DEF Aligned
  <2>6. emitted' = Append(emitted, Own("barrier", k)) /\ Own("barrier", k) \in Tagged(NumInputs)
    <3>1. Own("barrier", k) \in Tagged(NumInputs)
      BY <1>3, OwnTagged DEF Kinds
    <3>2. g'.pending = <<Own("barrier", k)>>
      BY <1>6, <2>2
    <3>3. emitted' = got \o <<Own("barrier", k)>>
      BY <1>3, <3>2 DEF emitted
    <3>. QED
      BY <1>3, <3>1, <3>3, ConcatOne
  <2>7. MP!lastTime' = MP!lastTime
    <3>1. Own("barrier", k).kind # "watermark"
      BY DEF Own
    <3>2. MP!lastOf(Append(emitted, Own("barrier", k))) = MP!lastOf(emitted)
      BY <1>3, <2>6, <3>1, LastIs, SameNames, MergeAssumes, MP!LastNext
    <3>. QED
      BY <2>6, <3>2, LastIs
  <2>8. Ends' /\ Clock'
    BY <1>9, <1>10, <2>2, <2>3, <2>7
  <2>9. \A j \in Inputs : j \in MP!Live(Stand) <=> ~g.endOfStream[j]
    BY Standing, SameNames DEF MP!Live
  <2>10. \A j \in Inputs : ~g.endOfStream[j] <=> g.alignedFor[j] \/ j = i
    BY <1>5, <1>6, <1>12 DEF Complete, SameInputs
  <2>11. Stand' = MP!Beyond(Stand)
    <3>1. Stand' = [j \in Inputs |-> IF FALSE THEN passed'[j] - 1 ELSE passed'[j]]
      BY <2>2 DEF Stand
    <3>2. ASSUME NEW j \in Inputs
          PROVE  passed'[j] = IF j \in MP!Live(Stand) THEN Stand[j] + 1 ELSE Stand[j]
      <4>1. CASE ~g.endOfStream[j]
        BY <1>5, <2>9, <2>10, <4>1
      <4>2. CASE g.endOfStream[j]
        <5>1. ~g.alignedFor[j] /\ j # i /\ j \notin MP!Live(Stand)
          BY <2>9, <2>10, <4>2
        <5>2. passed'[j] = passed[j] /\ Stand[j] = passed[j]
          BY <1>3, <5>1, Standing
        <5>. QED
          BY <5>1, <5>2
      <4>. QED
        BY <4>1, <4>2
    <3>3. MP!Beyond(Stand) = [j \in Inputs |-> IF j \in MP!Live(Stand) THEN Stand[j] + 1 ELSE Stand[j]]
      BY SameNames DEF MP!Beyond
    <3>. QED
      BY <3>1, <3>2, <3>3
  <2>12. MP!AtCut(Stand, k)
    <3>1. ASSUME NEW j \in MP!Live(Stand)
          PROVE  /\ Stand[j] < Len(stream[j])
                 /\ MP!next(j, Stand[j]).kind = "barrier" /\ MP!next(j, Stand[j]).val = k
      <4>1. j \in Inputs
        BY SameNames DEF MP!Live
      <4>2. /\ Stand[j] + 1 \in 1..Len(stream[j])
            /\ stream[j][Stand[j] + 1] = [kind |-> "barrier", val |-> k]
        BY <1>5, <2>9, <2>10, <4>1
      <4>3. Stand[j] \in Nat /\ Len(stream[j]) \in Nat
        BY <1>1, <4>1, Standing, StreamElements
      <4>. QED
        BY <4>2, <4>3 DEF MP!next
    <3>2. i \in MP!Live(Stand)
      BY <1>3, <2>9, <2>10
    <3>. QED
      BY <3>1, <3>2 DEF MP!AtCut
  <2>13. MP!Cut(k)
    BY <1>3, <2>6, <2>11, <2>12, SameNames DEF MP!Cut
  <2>14. MP!Next
    <3>1. /\ i \in Inputs /\ Stand[i] < Len(stream[i]) /\ stream[i][Stand[i] + 1].val = k
      <4>1. /\ Stand[i] + 1 \in 1..Len(stream[i])
            /\ stream[i][Stand[i] + 1] = [kind |-> "barrier", val |-> k]
        BY <1>3, <1>5
      <4>2. Stand[i] \in Nat /\ Len(stream[i]) \in Nat
        BY <1>1, <1>3, Standing, StreamElements
      <4>. QED
        BY <1>3, <4>1, <4>2
    <3>2. k \in {stream[j][Stand[j] + 1].val : j \in {h \in MP!Inputs : Stand[h] < Len(stream[h])}}
      BY <3>1, SameNames
    <3>. QED
      BY <2>13, <3>2 DEF MP!Next
  <2>. QED
    BY <1>3, <2>2, <2>4, <2>5, <2>8, <2>14 DEF Simulated
<1>. QED
  BY <1>11, <1>12

(* A repeated end-of-stream changes nothing. *)
LEMMA EndAgainStep ==
  ASSUME GInv, MP!Good(Stand, emitted), NEW t, NEW q, Takes(t, q), ~heldBack(g, t),
         t.kind = "eos", g.endOfStream[t.input], NEW abort, g' = handle(q, t, abort)
  PROVE  Simulated
<1>. DEFINE i == t.input
<1>1. /\ g \in States /\ q \in States /\ stream \in [Inputs -> Streams]
  BY DEF GInv, TypeOK, States, Takes
<1>2. /\ ~heldBack(q, t) /\ SameInputs(g, q) /\ q.out = g.out /\ q.closed = g.closed
      /\ q.pending = << >> /\ q.aligning = g.aligning /\ q.barrier = g.barrier
      /\ q.alignedFor = g.alignedFor /\ q.buffered = g.buffered
  BY TakesNext
<1>3. /\ i \in Inputs /\ Stand[i] = passed[i] /\ passed[i] + 1 \in 1..Len(stream[i])
      /\ passed[i] \in Nat
      /\ t.kind = stream[i][passed[i] + 1].kind /\ passed' \in [Inputs -> Nat]
      /\ stream' = stream /\ got' = got /\ emitted = got /\ got \in Seq(Tagged(NumInputs))
  BY PassingElement
<1>4. g' = q
  <2>1. q.endOfStream[t.input]
    BY <1>2 DEF SameInputs
  <2>. QED
    BY <1>2, <2>1 DEF handle, deliver, onEndOfStream
<1>5. /\ MP!After(i) \in [Inputs -> Nat]
      /\ \A j \in Inputs :
           /\ MP!After(i)[j] <= Len(stream[j])
           /\ MP!ended(j, MP!After(i)[j]) <=> g.endOfStream[j]
           /\ MP!timeOf(j, MP!After(i)[j]) = g.watermarks[j]
           /\ MP!ended(j, passed[j])' <=> g.endOfStream[j]
           /\ MP!timeOf(j, passed[j])' = g.watermarks[j]
  <2>1. t.kind # "watermark"
    OBVIOUS
  <2>. QED
    BY <2>1, PassingKnows
<1>6. Stand' = MP!After(i)
  BY <1>2, <1>4, StandsAfter
<1>. HIDE DEF i
<1>7. Counts' /\ Queued' /\ Held'
  BY <1>1, <1>2, <1>4, QueuePassed
<1>8. Aligned'
  BY <1>2, <1>4, AlignedKept DEF SameInputs, GInv, Aligned
<1>9. emitted' = emitted
  BY <1>2, <1>3, <1>4 DEF emitted, Takes
<1>10. Ends'
  <2>1. liveInputs' = liveInputs
    BY <1>2, <1>4 DEF liveInputs, SameInputs
  <2>. QED
    BY <1>2, <1>4, <1>5, <2>1 DEF GInv, Ends, SameInputs
<1>11. Clock'
  <2>1. minimum(q) = minimum(g)
    BY <1>1, <1>2, SameMinimum
  <2>2. MP!lastTime' = MP!lastTime
    BY <1>9, LastIs
  <2>. QED
    BY <1>2, <1>4, <1>5, <2>1, <2>2 DEF GInv, Clock, SameInputs
<1>12. MP!Output(i) = << >>
  <2>. DEFINE m == MP!low(MP!After(i))
              over == (\A j \in MP!Inputs : MP!ended(j, MP!After(i)[j])) /\ ~MP!ended(i, Stand[i])
  <2>1. m = minimum(g) /\ m \in Times
    <3>. DEFINE a == MP!After(i)
    <3>1. /\ a \in [Inputs -> Nat] /\ \A j \in Inputs : a[j] <= Len(stream[j])
          /\ \A j \in Inputs : g.endOfStream[j] <=> MP!ended(j, a[j])
          /\ \A j \in Inputs : g.watermarks[j] = MP!timeOf(j, a[j])
      BY <1>5
    <3>. HIDE DEF a
    <3>2. minimum(g) = MP!low(a) /\ minimum(g) \in Times
      BY <1>1, <3>1, MinimumIsLow
    <3>. QED
      BY <3>2 DEF a
  <2>. HIDE DEF m
  <2>2. ~(m > MP!lastTime)
    <3>1. minimum(g) <= g.out /\ g.out = MP!lastTime
      BY DEF GInv, Clock
    <3>2. g.out \in Int /\ m \in Int
      BY <1>1, <2>1, GateInputs, TimesAssumption DEF Times
    <3>. QED
      BY <2>1, <3>1, <3>2
  <2>3. ~over
    BY <1>3, Standing DEF i
  <2>4. MP!next(i, Stand[i]).kind # "record"
    BY <1>3 DEF MP!next
  <2>5. MP!Output(i) = (IF m > MP!lastTime THEN <<MP!Own("watermark", m)>> ELSE << >>)
                         \o (IF over THEN <<MP!Own("eos", 0)>> ELSE << >>)
    BY <2>4 DEF MP!Output, m
  <2>6. MP!Output(i) = << >> \o << >>
    BY <2>2, <2>3, <2>5
  <2>. QED
    BY <2>6
<1>13. MP!Pass(i)
  <2>1. emitted \o << >> = emitted
    BY <1>3
  <2>2. MP!next(i, Stand[i]).kind # "barrier" /\ Stand[i] < Len(stream[i])
    BY <1>3 DEF MP!next
  <2>. QED
    BY <1>3, <1>6, <1>9, <1>12, <2>1, <2>2 DEF MP!Pass
<1>14. MP!Next
  BY <1>3, <1>13, SameNames DEF MP!Next
<1>. QED
  BY <1>1, <1>3, <1>4, <1>7, <1>8, <1>10, <1>11, <1>14 DEF Simulated

(* One input fewer is live. *)
LEMMA OneFewer ==
  ASSUME GInv, NEW i \in Inputs, ~g.endOfStream[i], NEW S, S = liveInputs \ {i}
  PROVE  /\ g.remaining - 1 = Cardinality(S) /\ g.remaining - 1 \in 0..NumInputs /\ ~g.closed
         /\ g.remaining - 1 = 0 <=> S = {}
<1>1. g \in States /\ g.remaining = Cardinality(liveInputs) /\ (g.closed <=> g.remaining = 0)
  BY DEF GInv, TypeOK, States, Ends
<1>2. g.remaining \in 0..NumInputs
  BY <1>1 DEF States, GateState
<1>3. IsFiniteSet(liveInputs) /\ i \in liveInputs
  <2>1. IsFiniteSet(Inputs)
    BY FS_Interval, InputsAssumption DEF Inputs
  <2>. QED
    BY <2>1, FS_Subset DEF liveInputs
<1>4. IsFiniteSet(S) /\ Cardinality(S) = Cardinality(liveInputs) - 1
  BY <1>3, FS_RemoveElement
<1>5. Cardinality(S) \in Nat /\ (Cardinality(S) = 0 <=> S = {})
  BY <1>4, FS_CardinalityType, FS_EmptySet
<1>. QED
  BY <1>1, <1>2, <1>4, <1>5, InputsAssumption

(* What onEndOfStream has done by the time it completes an alignment: the  *)
(* input is over, the minimum is forwarded if it rose, and the gate's own  *)
(* end-of-stream if this input was the last.                               *)
LEMMA EndDoes ==
  ASSUME GInv, MP!Good(Stand, emitted), NEW t, NEW q, Takes(t, q), ~heldBack(g, t),
         t.kind = "eos", ~g.endOfStream[t.input], NEW abort, g' = handle(q, t, abort)
  PROVE  \E r \in States :
           /\ g' = completeAlignment(r)
           /\ \A j \in Inputs : r.endOfStream[j] <=> g.endOfStream[j] \/ j = t.input
           /\ r.watermarks = g.watermarks
           /\ r.remaining = Cardinality({j \in Inputs : ~r.endOfStream[j]})
           /\ r.closed <=> r.remaining = 0
           /\ SameAlignment(q, r)
           /\ minimum(r) <= r.out
           /\ r.pending = MP!Output(t.input)
           /\ emitted \o r.pending \in Seq(Tagged(NumInputs))
           /\ MP!Timed(emitted \o r.pending)
           /\ MP!lastOf(emitted \o r.pending) = r.out
<1>. DEFINE i == t.input
            q1 == [q EXCEPT !.endOfStream[i] = TRUE, !.remaining = @ - 1]
            q2 == advance(q1)
            q3 == closeGate(q2)
            m == minimum(q1)
            p == IF m > g.out THEN <<Own("watermark", m)>> ELSE << >>
            f == IF g.remaining - 1 = 0 THEN <<Own("eos", 0)>> ELSE << >>
            S == liveInputs \ {i}
<1>1. /\ g \in States /\ q \in States /\ stream \in [Inputs -> Streams]
  BY DEF GInv, TypeOK, States, Takes
<1>2. /\ ~heldBack(q, t) /\ SameInputs(g, q) /\ q.out = g.out /\ q.closed = g.closed
      /\ q.pending = << >>
  BY TakesNext
<1>3. /\ i \in Inputs /\ Stand[i] = passed[i] /\ t.kind = stream[i][passed[i] + 1].kind
  BY PassingElement
<1>4. g' = completeAlignment(q3)
  <2>1. ~q.endOfStream[t.input]
    BY <1>2 DEF SameInputs
  <2>. QED
    BY <1>2, <2>1 DEF handle, deliver, onEndOfStream
<1>5. /\ MP!After(i) \in [Inputs -> Nat]
      /\ \A j \in Inputs :
           /\ MP!After(i)[j] <= Len(stream[j])
           /\ MP!ended(j, MP!After(i)[j]) <=> g.endOfStream[j] \/ j = i
           /\ MP!timeOf(j, MP!After(i)[j]) = g.watermarks[j]
  <2>1. t.kind # "watermark"
    OBVIOUS
  <2>. QED
    BY <2>1, PassingKnows
<1>6. /\ g.remaining - 1 = Cardinality(S) /\ g.remaining - 1 \in 0..NumInputs /\ ~g.closed
      /\ g.remaining - 1 = 0 <=> S = {}
  BY <1>3, OneFewer
<1>. HIDE DEF i
<1>7. /\ q1 \in States /\ q1.watermarks = g.watermarks /\ q1.remaining = g.remaining - 1
      /\ \A j \in Inputs : q1.endOfStream[j] <=> g.endOfStream[j] \/ j = i
      /\ SameAlignment(q, q1) /\ q1.out = g.out /\ ~q1.closed /\ q1.pending = << >>
  <2>. DEFINE e == [g.endOfStream EXCEPT ![i] = TRUE]
              c == g.remaining - 1
  <2>1. /\ e \in [1..NumInputs -> BOOLEAN]
        /\ \A j \in Inputs : e[j] <=> g.endOfStream[j] \/ j = i
    BY <1>1, <1>3, GateInputs DEF Inputs
  <2>2. c \in 0..NumInputs
    BY <1>6
  <2>3. q1 = [q EXCEPT !.endOfStream = e, !.remaining = c]
    BY <1>1, <1>2 DEF States, GateState, SameInputs
  <2>. HIDE DEF e, c, q1
  <2>4. /\ q1 \in States /\ q1.endOfStream = e /\ q1.remaining = c
        /\ q1.watermarks = q.watermarks /\ SameAlignment(q, q1) /\ q1.out = q.out
        /\ q1.closed = q.closed /\ q1.pending = q.pending
    BY <1>1, <2>1, <2>2, <2>3 DEF States, GateState, SameAlignment
  <2>. QED
    BY <1>2, <1>6, <2>1, <2>4 DEF SameInputs, c
<1>. HIDE DEF q1
<1>8. m = MP!low(MP!After(i)) /\ m \in Times /\ m \in Int /\ g.out \in Int
  <2>. DEFINE a == MP!After(i)
  <2>1. /\ a \in [Inputs -> Nat] /\ \A j \in Inputs : a[j] <= Len(stream[j])
        /\ \A j \in Inputs : q1.endOfStream[j] <=> MP!ended(j, a[j])
        /\ \A j \in Inputs : q1.watermarks[j] = MP!timeOf(j, a[j])
    BY <1>5, <1>7
  <2>. HIDE DEF a
  <2>2. m = MP!low(a) /\ m \in Times
    BY <1>1, <1>7, <2>1, MinimumIsLow
  <2>. QED
    BY <1>1, <2>2, TimesAssumption, GateInputs DEF Times, a
<1>. HIDE DEF m
<1>9. /\ q2 \in States /\ SameInputs(q1, q2) /\ SameAlignment(q1, q2) /\ ~q2.closed
      /\ minimum(q2) <= q2.out
      /\ q2.out = (IF m > g.out THEN m ELSE g.out) /\ q2.pending = p
  <2>1. /\ q2 \in States /\ SameInputs(q1, q2) /\ SameAlignment(q1, q2) /\ q2.closed = q1.closed
        /\ minimum(q2) <= q2.out
        /\ m > g.out => q2.out = m /\ q2.pending = Append(q1.pending, Own("watermark", m))
        /\ ~(m > g.out) => q2 = q1
    BY <1>7, <1>8, AdvanceDoes DEF m
  <2>2. Append(<< >>, Own("watermark", m)) = <<Own("watermark", m)>>
    OBVIOUS
  <2>. QED
    BY <1>7, <2>1, <2>2
<1>. HIDE DEF q2, p
<1>10. p \in Seq(Tagged(NumInputs)) /\ Own("eos", 0) \in Tagged(NumInputs)
       /\ Own("eos", 0).kind = "eos"
  BY <1>9, GateInputs, OwnTagged DEF Kinds
<1>11. f \in Seq(Tagged(NumInputs))
  BY <1>10
<1>12. /\ q3 \in States /\ SameInputs(q2, q3) /\ SameAlignment(q2, q3) /\ q3.out = q2.out
       /\ q3.closed <=> q3.remaining = 0
       /\ q3.pending = p \o f
  <2>1. q2.remaining = g.remaining - 1
    BY <1>7, <1>9 DEF SameInputs
  <2>2. /\ q3 \in States /\ SameInputs(q2, q3) /\ SameAlignment(q2, q3) /\ q3.out = q2.out
        /\ q2.remaining = 0 => q3.closed /\ q3.pending = Append(q2.pending, Own("eos", 0))
        /\ ~(q2.remaining = 0) => q3 = q2
    BY <1>9, CloseGateDoes
  <2>3. CASE g.remaining - 1 = 0
    <3>1. p \o f = Append(p, Own("eos", 0))
      BY <1>10, <2>3, ConcatOne
    <3>. QED
      BY <1>9, <2>1, <2>2, <2>3, <3>1 DEF SameInputs
  <2>4. CASE g.remaining - 1 # 0
    <3>1. p \o f = p
      BY <1>10, <2>4
    <3>. QED
      BY <1>9, <2>1, <2>2, <2>4, <3>1 DEF SameInputs
  <2>. QED
    BY <2>3, <2>4
<1>. HIDE DEF q3
<1>13. /\ \A j \in Inputs : q3.endOfStream[j] <=> g.endOfStream[j] \/ j = i
       /\ q3.watermarks = g.watermarks /\ q3.remaining = g.remaining - 1
       /\ SameAlignment(q, q3)
  BY <1>7, <1>9, <1>12 DEF SameInputs, SameAlignment
<1>14. q3.remaining = Cardinality({j \in Inputs : ~q3.endOfStream[j]})
  <2>1. {j \in Inputs : ~q3.endOfStream[j]} = S
    BY <1>13 DEF liveInputs
  <2>. QED
    BY <1>6, <1>13, <2>1
<1>15. minimum(q3) <= q3.out
  BY <1>9, <1>12, SameMinimum
<1>16. MP!Output(i) = p \o f
  <2>. DEFINE over == (\A j \in MP!Inputs : MP!ended(j, MP!After(i)[j])) /\ ~MP!ended(i, Stand[i])
  <2>1. over <=> g.remaining - 1 = 0
    <3>1. ~MP!ended(i, Stand[i])
      BY <1>3, Standing DEF i
    <3>2. over <=> \A j \in Inputs : g.endOfStream[j] \/ j = i
      BY <1>5, <3>1, SameNames
    <3>3. S = {} <=> \A j \in Inputs : g.endOfStream[j] \/ j = i
      BY DEF liveInputs
    <3>. QED
      BY <1>6, <3>2, <3>3
  <2>2. MP!next(i, Stand[i]).kind # "record"
    BY <1>3 DEF MP!next
  <2>3. MP!Output(i) = (IF m > MP!lastTime THEN <<MP!Own("watermark", m)>> ELSE << >>)
                         \o (IF over THEN <<MP!Own("eos", 0)>> ELSE << >>)
    BY <1>8, <2>2 DEF MP!Output
  <2>. HIDE DEF over
  <2>4. g.out = MP!lastTime
    BY DEF GInv, Clock
  <2>. QED
    BY <2>1, <2>3, <2>4, SameNames DEF p
<1>17. /\ emitted \o (p \o f) \in Seq(Tagged(NumInputs))
       /\ MP!Timed(emitted \o (p \o f))
       /\ MP!lastOf(emitted \o (p \o f)) = q3.out
  <2>1. /\ emitted \in Seq(Tagged(NumInputs)) /\ emitted \o p \in Seq(Tagged(NumInputs))
        /\ MP!Timed(emitted \o p)
        /\ MP!lastOf(emitted \o p) = IF m > g.out THEN m ELSE g.out
    BY <1>8, <1>10, Rises DEF p
  <2>2. emitted \o (p \o f) = (emitted \o p) \o f
    <3>. DEFINE E == Tagged(NumInputs)
    <3>1. emitted \in Seq(E) /\ p \in Seq(E) /\ f \in Seq(E)
      BY <1>10, <1>11, <2>1
    <3>. HIDE DEF f, E
    <3>. QED
      BY <3>1, ConcatAssociative
  <2>. DEFINE l == emitted \o p
  <2>3. l \in Seq(Tagged(NumInputs)) /\ MP!Timed(l) /\ MP!lastOf(l) = q3.out
    BY <1>9, <1>12, <2>1
  <2>. HIDE DEF l
  <2>4. CASE g.remaining - 1 = 0
    <3>1. l \o f = Append(l, Own("eos", 0)) /\ Append(l, Own("eos", 0)) \in Seq(Tagged(NumInputs))
      BY <1>10, <2>3, <2>4, ConcatOne
    <3>2. Own("eos", 0).kind # "watermark"
      BY <1>10
    <3>3. MP!Timed(Append(l, Own("eos", 0))) /\ MP!lastOf(Append(l, Own("eos", 0))) = MP!lastOf(l)
      BY <1>10, <2>3, <3>2, SameNames, MergeAssumes, MP!LastNext
    <3>. QED
      BY <2>2, <2>3, <3>1, <3>3 DEF l
  <2>5. CASE g.remaining - 1 # 0
    <3>1. l \o f = l
      BY <2>3, <2>5
    <3>. QED
      BY <2>2, <2>3, <3>1 DEF l
  <2>. QED
    BY <2>4, <2>5
<1>. HIDE DEF f
<1>. QED
  BY <1>4, <1>12, <1>13, <1>14, <1>15, <1>16, <1>17 DEF i

(* An input's first end-of-stream passes, and if a checkpoint was waiting  *)
(* for that input alone the merge takes it in the same step.               *)
LEMMA EndFirstStep ==
  ASSUME GInv, MP!Good(Stand, emitted), NEW t, NEW q, Takes(t, q), ~heldBack(g, t),
         t.kind = "eos", ~g.endOfStream[t.input], NEW abort, g' = handle(q, t, abort)
  PROVE  Simulated
<1>. DEFINE i == t.input
            a == MP!After(i)
<1>1. /\ g \in States /\ q \in States /\ stream \in [Inputs -> Streams]
  BY DEF GInv, TypeOK, States, Takes
<1>2. /\ q.aligning = g.aligning /\ q.barrier = g.barrier
      /\ q.alignedFor = g.alignedFor /\ q.buffered = g.buffered
  BY TakesNext
<1>3. /\ i \in Inputs /\ ~g.alignedFor[i] /\ Stand[i] = passed[i] /\ passed[i] \in Nat
      /\ passed[i] + 1 \in 1..Len(stream[i]) /\ t.kind = stream[i][passed[i] + 1].kind
      /\ passed' \in [Inputs -> Nat] /\ passed'[i] = passed[i] + 1
      /\ \A j \in Inputs : j # i => passed'[j] = passed[j]
      /\ stream' = stream /\ got' = got /\ emitted = got /\ got \in Seq(Tagged(NumInputs))
  BY PassingElement
<1>4. /\ a \in [Inputs -> Nat] /\ a[i] = passed[i] + 1
      /\ \A j \in Inputs : j # i => a[j] = Stand[j]
      /\ \A j \in Inputs :
           /\ MP!ended(j, a[j]) <=> g.endOfStream[j] \/ j = i
           /\ MP!ended(j, passed[j])' <=> g.endOfStream[j] \/ j = i
           /\ MP!timeOf(j, passed[j])' = g.watermarks[j]
  <2>1. t.kind # "watermark"
    OBVIOUS
  <2>. QED
    BY <2>1, PassingKnows
<1>5. PICK r \in States :
           /\ g' = completeAlignment(r)
           /\ \A j \in Inputs : r.endOfStream[j] <=> g.endOfStream[j] \/ j = i
           /\ r.watermarks = g.watermarks
           /\ r.remaining = Cardinality({j \in Inputs : ~r.endOfStream[j]})
           /\ r.closed <=> r.remaining = 0
           /\ SameAlignment(q, r)
           /\ minimum(r) <= r.out
           /\ r.pending = MP!Output(i)
           /\ emitted \o r.pending \in Seq(Tagged(NumInputs))
           /\ MP!Timed(emitted \o r.pending)
           /\ MP!lastOf(emitted \o r.pending) = r.out
  BY EndDoes
<1>. HIDE DEF a
<1>6. /\ r.aligning = g.aligning /\ r.barrier = g.barrier /\ r.alignedFor = g.alignedFor
      /\ r.buffered = g.buffered /\ r.replay = q.replay
  BY <1>2, <1>5 DEF SameAlignment
<1>7. MP!next(i, Stand[i]).kind = "eos" /\ Stand[i] < Len(stream[i])
  <2>1. MP!next(i, Stand[i]).kind = "eos"
    BY <1>3 DEF MP!next
  <2>. QED
    BY <1>3, <2>1
<1>8. ASSUME g' \in States, SameInputs(r, g'), g'.closed = r.closed PROVE Ends'
  <2>1. g'.endOfStream = r.endOfStream /\ g'.remaining = r.remaining
    BY <1>8 DEF SameInputs
  <2>2. liveInputs' = {j \in Inputs : ~r.endOfStream[j]}
    BY <2>1 DEF liveInputs
  <2>. QED
    BY <1>4, <1>5, <1>8, <2>1, <2>2 DEF Ends
<1>9. ASSUME g' \in States, SameInputs(r, g'), g'.out = r.out, MP!lastTime' = r.out
      PROVE  Clock'
  <2>1. minimum(g') = minimum(r)
    BY <1>5, <1>9, SameMinimum
  <2>. QED
    BY <1>4, <1>5, <1>9, <2>1 DEF Clock, SameInputs
<1>10. CASE ~Complete(r)
  <2>1. g' = r
    BY <1>5, <1>10, CompleteAlignmentDoes
  <2>2. Counts' /\ Queued' /\ Held'
    BY <1>6, <2>1, QueuePassed
  <2>3. Aligned'
    <3>1. \A j \in Inputs : g'.endOfStream[j] => g.endOfStream[j] \/ j = i
      BY <1>5, <2>1
    <3>2. g'.aligning => \E j \in Inputs : ~g'.endOfStream[j] /\ ~g'.alignedFor[j]
      BY <1>10, <2>1 DEF Complete
    <3>. QED
      BY <1>6, <2>1, <3>1, <3>2, AlignedKept
  <2>4. emitted' = emitted \o MP!Output(i)
    BY <1>3, <1>5, <2>1 DEF emitted
  <2>5. MP!lastTime' = r.out
    BY <1>5, <2>4, LastIs
  <2>6. Ends' /\ Clock'
    BY <1>8, <1>9, <2>1, <2>5 DEF SameInputs
  <2>7. Stand' = MP!After(i)
    BY <1>6, <2>1, StandsAfter
  <2>8. MP!Pass(i)
    BY <1>3, <1>7, <2>4, <2>7 DEF MP!Pass
  <2>9. MP!Next
    BY <1>3, <2>8, SameNames DEF MP!Next
  <2>. QED
    BY <1>3, <2>1, <2>2, <2>3, <2>6, <2>9 DEF Simulated
<1>11. CASE Complete(r)
  <2>. DEFINE k == g.barrier.val
              l == emitted \o MP!Output(i)
              e == Own("barrier", k)
  <2>1. /\ g' \in States /\ SameInputs(r, g') /\ g'.out = r.out /\ g'.closed = r.closed
        /\ g'.pending = Append(r.pending, r.barrier) /\ ~g'.aligning
        /\ g'.alignedFor = [j \in Inputs |-> FALSE]
        /\ g'.buffered = [j \in Inputs |-> << >>]
        /\ g'.replay = FlattenSeq(r.buffered) \o r.replay
    BY <1>5, <1>11, CompleteAlignmentDoes, ZenonT(60)
  <2>2. Counts' /\ Queued' /\ Held'
    BY <1>6, <2>1, QueueDrained
  <2>3. Aligned'
    BY <2>1 DEF Aligned
  <2>4. g.aligning /\ g.barrier = e /\ e \in Tagged(NumInputs) /\ e.kind # "watermark"
    <3>1. g.aligning
      BY <1>6, <1>11 DEF Complete
    <3>2. g.barrier = e /\ g.barrier \in Tagged(NumInputs)
      BY <1>1, <3>1, GateInputs DEF GInv, Aligned
    <3>. QED
      BY <3>1, <3>2 DEF Own
  <2>5. l \in Seq(Tagged(NumInputs)) /\ MP!Timed(l) /\ MP!lastOf(l) = r.out
    BY <1>5
  <2>6. emitted' = Append(l, e)
    <3>. DEFINE E == Tagged(NumInputs)
    <3>1. got \in Seq(E) /\ r.pending \in Seq(E) /\ e \in E /\ l = got \o r.pending /\ l \in Seq(E)
      BY <1>3, <1>5, <2>4, <2>5, GateInputs
    <3>2. emitted' = got \o Append(r.pending, e)
      BY <1>3, <1>6, <2>1, <2>4 DEF emitted
    <3>. HIDE DEF E, e, l
    <3>3. got \o Append(r.pending, e) = Append(got \o r.pending, e)
      BY <3>1, ConcatAppend
    <3>. QED
      BY <3>1, <3>2, <3>3
  <2>. HIDE DEF l, e
  <2>7. MP!lastTime' = r.out
    <3>1. MP!lastOf(Append(l, e)) = MP!lastOf(l)
      BY <2>4, <2>5, SameNames, MergeAssumes, MP!LastNext
    <3>. QED
      BY <2>5, <2>6, <3>1, LastIs
  <2>8. Ends' /\ Clock'
    BY <1>8, <1>9, <2>1, <2>7
  <2>9. \A j \in Inputs : /\ j \in MP!Live(a) <=> ~g.endOfStream[j] /\ j # i
                          /\ j \in MP!Live(a) => g.alignedFor[j]
                          /\ g.alignedFor[j] => j \in MP!Live(a)
    <3>1. \A j \in Inputs : j \in MP!Live(a) <=> ~g.endOfStream[j] /\ j # i
      BY <1>4, SameNames DEF MP!Live
    <3>2. \A j \in Inputs : g.endOfStream[j] \/ j = i \/ g.alignedFor[j]
      BY <1>5, <1>6, <1>11 DEF Complete
    <3>3. \A j \in Inputs : g.alignedFor[j] => ~g.endOfStream[j] /\ j # i
      BY <1>3 DEF GInv, Aligned
    <3>. QED
      BY <3>1, <3>2, <3>3
  <2>10. ASSUME NEW j \in Inputs, g.alignedFor[j]
         PROVE  /\ j # i /\ a[j] = Stand[j] /\ Stand[j] + 1 = passed[j] /\ passed'[j] = passed[j]
                /\ Stand[j] \in Nat /\ Stand[j] < Len(stream[j])
                /\ stream[j][Stand[j] + 1].kind = "barrier" /\ stream[j][Stand[j] + 1].val = k
    <3>1. stream[j][passed[j]] = [kind |-> "barrier", val |-> k]
      BY <2>10 DEF GInv, Aligned
    <3>2. /\ Stand[j] + 1 = passed[j] /\ Stand[j] \in Nat /\ passed[j] <= Len(stream[j])
          /\ Len(stream[j]) \in Nat
      BY <1>1, <2>10, Standing, StreamElements
    <3>3. Stand[j] < Len(stream[j])
      BY <3>2
    <3>. QED
      BY <1>3, <1>4, <2>10, <3>1, <3>2, <3>3, SMTT(30)
  <2>11. Stand' = MP!Beyond(a)
    <3>1. Stand' = [j \in Inputs |-> IF FALSE THEN passed'[j] - 1 ELSE passed'[j]]
      BY <2>1 DEF Stand
    <3>2. ASSUME NEW j \in Inputs
          PROVE  passed'[j] = IF j \in MP!Live(a) THEN a[j] + 1 ELSE a[j]
      <4>1. CASE j = i
        <5>1. i \notin MP!Live(a) /\ passed'[i] = a[i]
          BY <1>3, <1>4, <2>9
        <5>. HIDE DEF i
        <5>. QED
          BY <4>1, <5>1
      <4>2. CASE j # i /\ g.alignedFor[j]
        BY <2>9, <2>10, <4>2
      <4>3. CASE j # i /\ ~g.alignedFor[j]
        <5>1. j \notin MP!Live(a)
          BY <2>9, <4>3
        <5>2. Stand[j] = passed[j]
          BY <4>3, Standing
        <5>3. passed'[j] = a[j]
          BY <1>3, <1>4, <4>3, <5>2
        <5>. QED
          BY <5>1, <5>3
      <4>. QED
        BY <4>1, <4>2, <4>3
    <3>3. MP!Beyond(a) = [j \in Inputs |-> IF j \in MP!Live(a) THEN a[j] + 1 ELSE a[j]]
      BY SameNames DEF MP!Beyond
    <3>. QED
      BY <3>1, <3>2, <3>3
  <2>12. PICK h \in Inputs : g.alignedFor[h]
    BY <2>4 DEF GInv, Aligned
  <2>13. MP!AtCut(a, k)
    <3>1. ASSUME NEW j \in MP!Live(a)
          PROVE  /\ a[j] < Len(stream[j])
                 /\ MP!next(j, a[j]).kind = "barrier" /\ MP!next(j, a[j]).val = k
      <4>1. j \in Inputs /\ g.alignedFor[j]
        <5>1. j \in Inputs
          BY SameNames DEF MP!Live
        <5>. QED
          BY <2>9, <5>1
      <4>. QED
        BY <2>10, <4>1 DEF MP!next
    <3>2. h \in MP!Live(a)
      BY <2>9, <2>12
    <3>. QED
      BY <3>1, <3>2 DEF MP!AtCut
  <2>14. MP!EndThenCut(i, k)
    BY <1>3, <1>7, <2>6, <2>11, <2>13, SameNames DEF MP!EndThenCut, a, l, e
  <2>15. MP!Next
    <3>1. h \in Inputs /\ Stand[h] < Len(stream[h]) /\ stream[h][Stand[h] + 1].val = k
      BY <2>10, <2>12
    <3>2. k \in {stream[j][Stand[j] + 1].val : j \in {n \in MP!Inputs : Stand[n] < Len(stream[n])}}
      BY <3>1, SameNames
    <3>3. i \in MP!Inputs
      BY <1>3, SameNames
    <3>. QED
      BY <2>14, <3>2, <3>3 DEF MP!Next
  <2>. QED
    BY <1>3, <2>1, <2>2, <2>3, <2>8, <2>15 DEF Simulated
<1>. QED
  BY <1>10, <1>11

(* Whatever Recv takes and handles, the merge does it too. *)
LEMMA HandleStep ==
  ASSUME GInv, MP!Good(Stand, emitted), NEW t, NEW q, Takes(t, q),
         NEW abort \in BOOLEAN, g' = handle(q, t, abort)
  PROVE  Simulated
<1>1. CASE heldBack(g, t)
  BY <1>1, HeldBackStep DEF Simulated
<1>2. CASE ~heldBack(g, t)
  <2>1. t.kind \in Kinds
    BY <1>2, PassingElement DEF Tagged
  <2>2. CASE t.kind = "record"
    BY <1>2, <2>2, RecordStep
  <2>3. CASE t.kind = "watermark"
    BY <1>2, <2>3, WatermarkStep
  <2>4. CASE t.kind = "barrier"
    BY <1>2, <2>4, BarrierStep
  <2>5. CASE t.kind = "eos" /\ g.endOfStream[t.input]
    BY <1>2, <2>5, EndAgainStep
  <2>6. CASE t.kind = "eos" /\ ~g.endOfStream[t.input]
    BY <1>2, <2>6, EndFirstStep
  <2>. QED
    BY <2>1, <2>2, <2>3, <2>4, <2>5, <2>6 DEF Kinds
<1>. QED
  BY <1>1, <1>2

-----------------------------------------------------------------------------
(* Every step of the gate.                                                 *)

Parts == Counts /\ Queued /\ Held /\ Aligned /\ Ends /\ Clock

(* Recv takes the head of replay if there is one, of merged otherwise. *)
LEMMA RecvReplayStep ==
  ASSUME GInv, MP!Good(Stand, emitted), RecvReplay
  PROVE  GInv' /\ [MP!Next]_(MP!vars)
<1>. DEFINE E == Tagged(NumInputs)
            t == Head(g.replay)
            q == [g EXCEPT !.replay = Tail(@)]
<1>1. g \in States /\ merged \in Seq(E) /\ TypeOK /\ SaidEnd
  BY DEF GInv, TypeOK, States
<1>2. g.replay \in Seq(E) /\ g.replay # << >> /\ g.pending = << >>
  BY <1>1, GateInputs DEF RecvReplay
<1>3. /\ stream' = stream /\ taken' = taken /\ got' = got /\ merged' = merged /\ phase' = phase
      /\ exited' = exited /\ mergedClosed' = mergedClosed /\ cancelled' = cancelled
      /\ passed' = countPassed(t)
  BY DEF RecvReplay
<1>4. PICK abort \in BOOLEAN : g' = handle(q, t, abort)
  BY DEF RecvReplay
<1>5. Tail(g.replay) \in Seq(E)
  BY <1>2
<1>6. q \in States /\ q.replay = Tail(g.replay) /\ q = [g EXCEPT !.replay = q.replay]
  <2>. DEFINE T == Tail(g.replay)
  <2>1. q = [g EXCEPT !.replay = T]
    BY <1>1
  <2>. HIDE DEF T, q
  <2>2. q \in States /\ q.replay = T
    BY <1>1, <1>5, <2>1 DEF States, GateState, T
  <2>. QED
    BY <2>1, <2>2 DEF T
<1>7. Queue # << >> /\ t = Head(Queue) /\ q.replay \o merged = Tail(Queue)
  <2>1. /\ g.replay \o merged # << >> /\ Head(g.replay \o merged) = Head(g.replay)
        /\ Tail(g.replay) \o merged = Tail(g.replay \o merged)
    <3>. HIDE DEF E
    <3>. QED
      BY <1>1, <1>2
  <2>. QED
    BY <1>6, <2>1 DEF Queue
<1>. HIDE DEF t, q
<1>8. Takes(t, q)
  BY <1>1, <1>2, <1>3, <1>6, <1>7 DEF Takes
<1>9. Simulated
  BY <1>4, <1>8, HandleStep
<1>10. TypeOK'
  BY <1>1, <1>3, <1>9 DEF TypeOK, Simulated, States
<1>11. SaidEnd'
  BY <1>1, <1>3 DEF SaidEnd
<1>. QED
  BY <1>9, <1>10, <1>11 DEF Simulated, GInv

LEMMA RecvMergedStep ==
  ASSUME GInv, MP!Good(Stand, emitted), RecvMerged
  PROVE  GInv' /\ [MP!Next]_(MP!vars)
<1>. DEFINE E == Tagged(NumInputs)
            t == Head(merged)
<1>1. g \in States /\ merged \in Seq(E) /\ TypeOK /\ SaidEnd
  BY DEF GInv, TypeOK, States
<1>2. g.replay = << >> /\ merged # << >> /\ g.pending = << >> /\ g.replay \in Seq(E)
  BY <1>1, GateInputs DEF RecvMerged
<1>3. /\ stream' = stream /\ taken' = taken /\ got' = got /\ merged' = Tail(merged) /\ phase' = phase
      /\ exited' = exited /\ mergedClosed' = mergedClosed /\ cancelled' = cancelled
      /\ passed' = countPassed(t)
  BY DEF RecvMerged
<1>4. PICK abort \in BOOLEAN : g' = handle(g, t, abort)
  BY DEF RecvMerged
<1>5. Tail(merged) \in Seq(E) /\ Len(Tail(merged)) <= Len(merged)
  BY <1>1, <1>2
<1>6. g = [g EXCEPT !.replay = g.replay]
  BY <1>1 DEF States, GateState
<1>7. Queue = merged /\ g.replay \o merged' = Tail(Queue)
  <2>1. << >> \o merged = merged
    BY <1>1
  <2>2. << >> \o Tail(merged) = Tail(merged)
    BY <1>5
  <2>. QED
    BY <1>2, <1>3, <2>1, <2>2 DEF Queue
<1>8. Takes(t, g)
  BY <1>1, <1>2, <1>3, <1>5, <1>6, <1>7 DEF Takes
<1>. HIDE DEF t
<1>9. Simulated
  BY <1>4, <1>8, HandleStep
<1>10. TypeOK'
  <2>1. Len(merged') <= NumInputs
    <3>1. Len(merged) <= NumInputs /\ Len(merged) \in Int /\ Len(Tail(merged)) \in Int
      BY <1>1, <1>5 DEF TypeOK
    <3>. QED
      BY <1>3, <1>5, <3>1, InputsAssumption
  <2>. QED
    BY <1>1, <1>3, <1>5, <1>9, <2>1 DEF TypeOK, Simulated, States
<1>11. SaidEnd'
  BY <1>1, <1>3 DEF SaidEnd
<1>. QED
  BY <1>9, <1>10, <1>11 DEF Simulated, GInv

(* What the gate knows does not depend on the forwarders' bookkeeping. *)
LEMMA PartsKept ==
  ASSUME GInv, stream' = stream, passed' = passed, g' \in States, SameInputs(g, g'),
         SameAlignment(g, g'), g'.closed = g.closed, g'.out = g.out, emitted' = emitted
  PROVE  /\ Held' /\ Aligned' /\ Ends' /\ Clock'
         /\ Handled' = Handled /\ UNCHANGED MP!vars
<1>1. Held' /\ Aligned'
  <2>1. Held'
    BY DEF GInv, Held, SameAlignment, tagged
  <2>2. Aligned'
    BY DEF GInv, Aligned, SameAlignment, SameInputs
  <2>. QED
    BY <2>1, <2>2
<1>2. \A j \in Inputs : /\ MP!ended(j, passed[j])' <=> MP!ended(j, passed[j])
                        /\ MP!timeOf(j, passed[j])' = MP!timeOf(j, passed[j])
  BY DEF MP!ended, MP!timeOf, MP!passedKind
<1>3. Ends'
  <2>1. liveInputs' = liveInputs
    BY DEF liveInputs, SameInputs
  <2>. QED
    BY <1>2, <2>1 DEF GInv, Ends, SameInputs
<1>4. Clock'
  <2>1. minimum(g') = minimum(g)
    BY SameMinimum DEF GInv, TypeOK, States
  <2>2. MP!lastTime' = MP!lastTime
    BY DEF MP!lastTime
  <2>. QED
    BY <1>2, <2>1, <2>2 DEF GInv, Clock, SameInputs
<1>5. Stand' = Stand /\ Handled' = Handled
  BY DEF Stand, Handled, SameAlignment
<1>. QED
  BY <1>1, <1>3, <1>4, <1>5 DEF MP!vars

(* A step that changes neither the gate's fields nor what is queued. *)
LEMMA QuietStep ==
  ASSUME GInv, UNCHANGED <<stream, taken, merged, g, got, passed>>
  PROVE  Parts' /\ UNCHANGED MP!vars
<1>1. g \in States /\ emitted' = emitted
  BY DEF GInv, TypeOK, States, emitted
<1>2. /\ Held' /\ Aligned' /\ Ends' /\ Clock'
      /\ Handled' = Handled /\ UNCHANGED MP!vars
  BY <1>1, PartsKept DEF SameInputs, SameAlignment
<1>3. Counts'
  BY <1>2 DEF GInv, Counts
<1>4. Queued'
  <2>1. Queue' = Queue
    BY DEF Queue
  <2>2. QueuedBy(Queue', Handled', taken')
    BY <1>2, <2>1 DEF GInv, Queued
  <2>. QED
    BY <2>2 DEF Queued, QueuedBy, tagged
<1>. QED
  BY <1>2, <1>3, <1>4 DEF Parts

LEMMA ForwardStep ==
  ASSUME GInv, NEW i \in Inputs, Forward(i)
  PROVE  GInv' /\ UNCHANGED MP!vars
<1>. DEFINE E == Tagged(NumInputs)
            e == tagged(i, taken[i] + 1)
            Q == Queue
<1>1. /\ g \in States /\ merged \in Seq(E) /\ TypeOK /\ SaidEnd
      /\ taken \in [Inputs -> Nat] /\ stream \in [Inputs -> Streams] /\ passed \in [Inputs -> Nat]
  BY DEF GInv, TypeOK, States
<1>2. /\ taken[i] < Len(stream[i]) /\ Len(merged) < NumInputs /\ merged' = Append(merged, e)
      /\ taken' = [taken EXCEPT ![i] = @ + 1]
      /\ stream' = stream /\ g' = g /\ got' = got /\ passed' = passed /\ phase' = phase
      /\ exited' = exited /\ mergedClosed' = mergedClosed /\ cancelled' = cancelled
  BY DEF Forward
<1>3. emitted' = emitted
  BY <1>2 DEF emitted
<1>4. /\ Held' /\ Aligned' /\ Ends' /\ Clock'
      /\ Handled' = Handled /\ UNCHANGED MP!vars
  BY <1>1, <1>2, <1>3, PartsKept DEF SameInputs, SameAlignment
<1>5. Len(stream[i]) \in Nat /\ taken[i] + 1 \in 1..Len(stream[i])
  BY <1>1, <1>2, StreamElements
<1>6. e \in E
  BY <1>1, <1>5, TaggedElement
<1>7. Handled \in [Inputs -> Nat] /\ Handled[i] <= taken[i]
  <2>1. \A j \in Inputs : Len(g.buffered[j]) \in Nat
    BY <1>1, GateInputs
  <2>2. Handled \in [Inputs -> Nat]
    BY <1>1, <2>1 DEF Handled
  <2>. QED
    BY <2>2 DEF GInv, Counts
<1>8. g.replay \in Seq(E)
  BY <1>1, GateInputs
<1>. HIDE DEF e, E
<1>9. Queue \in Seq(E) /\ Queue' = Append(Queue, e)
  <2>1. g.replay \o merged \in Seq(E)
    BY <1>1, <1>8, Concat DEF E
  <2>2. g.replay \o Append(merged, e) = Append(g.replay \o merged, e)
    <3>1. g.replay \in Seq(E) /\ merged \in Seq(E) /\ e \in E
      BY <1>1, <1>6, <1>8
    <3>2. \A b, c \in Seq(E) : b \o Append(c, e) = Append(b \o c, e)
      BY <3>1, ConcatAppend
    <3>. QED
      BY <3>1, <3>2, Zenon
  <2>. QED
    BY <1>2, <2>1, <2>2 DEF Queue
<1>10. QueuedBy(Append(Queue, e), Handled, [taken EXCEPT ![i] = @ + 1])
  <2>1. QueuedBy(Q, Handled, taken)
    BY DEF GInv, Queued
  <2>2. Q \in Seq(E)
    BY <1>9
  <2>. HIDE DEF Q
  <2>3. QueuedBy(Append(Q, e), Handled, [taken EXCEPT ![i] = @ + 1])
    BY <1>1, <1>6, <1>7, <2>1, <2>2, QueueAppend DEF e
  <2>. QED
    BY <2>3 DEF Q
<1>11. Queued'
  <2>1. QueuedBy(Queue', Handled', taken')
    BY <1>2, <1>4, <1>9, <1>10
  <2>. QED
    BY <1>2, <2>1 DEF Queued, QueuedBy, tagged
<1>12. Counts'
  <2>1. ASSUME NEW j \in Inputs PROVE Handled'[j] <= taken'[j] /\ taken'[j] <= Len(stream'[j])
    <3>1. Handled[j] <= taken[j] /\ taken[j] <= Len(stream[j])
      BY DEF GInv, Counts
    <3>2. CASE j = i
      <4>1. taken'[i] = taken[i] + 1 /\ taken[i] \in Nat /\ Handled[i] \in Nat
        BY <1>1, <1>2, <1>7
      <4>2. Handled[i] <= taken[i] + 1 /\ taken[i] + 1 <= Len(stream[i])
        BY <1>5, <1>7, <4>1
      <4>. QED
        BY <1>2, <1>4, <3>2, <4>1, <4>2
    <3>3. CASE j # i
      BY <1>1, <1>2, <1>4, <3>1, <3>3
    <3>. QED
      BY <3>2, <3>3
  <2>. QED
    BY <2>1 DEF Counts
<1>13. TypeOK'
  <2>1. merged' \in Seq(E) /\ Len(merged') = Len(merged) + 1 /\ Len(merged) \in Nat
    BY <1>1, <1>2, <1>6
  <2>2. Len(merged') <= NumInputs
    BY <1>2, <2>1, InputsAssumption
  <2>3. taken' \in [Inputs -> Nat]
    BY <1>1, <1>2
  <2>. QED
    BY <1>1, <1>2, <2>1, <2>2, <2>3 DEF TypeOK, E
<1>14. SaidEnd'
  BY <1>1, <1>2 DEF SaidEnd
<1>. QED
  BY <1>4, <1>11, <1>12, <1>13, <1>14 DEF GInv

(* Recv hands out what the gate had already decided to send. *)
LEMMA RecvPendingStep ==
  ASSUME GInv, RecvPending
  PROVE  GInv' /\ UNCHANGED MP!vars
<1>. DEFINE E == Tagged(NumInputs)
            p == g.pending
            e == Head(p)
<1>1. /\ g \in States /\ got \in Seq(E) /\ TypeOK /\ SaidEnd
  BY DEF GInv, TypeOK, States
<1>2. /\ p # << >> /\ got' = Append(got, e) /\ g' = [g EXCEPT !.pending = Tail(p)]
      /\ phase = "running" /\ phase' = IF e.kind = "eos" THEN "eos" ELSE phase
      /\ stream' = stream /\ taken' = taken /\ passed' = passed /\ merged' = merged
      /\ exited' = exited /\ mergedClosed' = mergedClosed /\ cancelled' = cancelled
  BY DEF RecvPending
<1>3. p \in Seq(E)
  BY <1>1, GateInputs
<1>. HIDE DEF p, E
<1>4. e \in E /\ Tail(p) \in Seq(E)
  BY <1>2, <1>3
<1>5. g' \in States /\ SameInputs(g, g') /\ SameAlignment(g, g') /\ g'.closed = g.closed
      /\ g'.out = g.out /\ g'.pending = Tail(p)
  <2>. DEFINE T == Tail(p)
  <2>1. T \in Seq(E) /\ g' = [g EXCEPT !.pending = T]
    BY <1>2, <1>4
  <2>. HIDE DEF T
  <2>2. g' \in States /\ SameInputs(g, g') /\ SameAlignment(g, g') /\ g'.closed = g.closed
        /\ g'.out = g.out /\ g'.pending = T
    BY <1>1, <2>1 DEF States, GateState, SameInputs, SameAlignment, E
  <2>. QED
    BY <2>2 DEF T
<1>6. emitted' = emitted
  <2>1. Append(got, e) \o Tail(p) = got \o p
    <3>1. \A b, c \in Seq(E) : c # << >> => Append(b, Head(c)) \o Tail(c) = b \o c
      OBVIOUS
    <3>. QED
      BY <1>1, <1>2, <1>3, <3>1
  <2>. QED
    BY <1>2, <1>5, <2>1 DEF emitted, p
<1>7. /\ Held' /\ Aligned' /\ Ends' /\ Clock'
      /\ Handled' = Handled /\ UNCHANGED MP!vars
  BY <1>1, <1>2, <1>5, <1>6, PartsKept
<1>8. Counts'
  BY <1>2, <1>7 DEF GInv, Counts
<1>9. Queued'
  <2>1. Queue' = Queue
    BY <1>2, <1>5 DEF Queue, SameAlignment
  <2>2. QueuedBy(Queue', Handled', taken')
    BY <1>2, <1>7, <2>1 DEF GInv, Queued
  <2>. QED
    BY <1>2, <2>2 DEF Queued, QueuedBy, tagged
<1>10. got' \in Seq(E) /\ Len(got') \in Nat /\ Len(got') \in 1..Len(got') /\ got'[Len(got')] = e
  BY <1>1, <1>2, <1>4
<1>11. TypeOK'
  BY <1>1, <1>2, <1>5, <1>10 DEF TypeOK, States, E
<1>12. SaidEnd'
  BY <1>2, <1>10 DEF SaidEnd
<1>. QED
  BY <1>7, <1>8, <1>9, <1>11, <1>12 DEF GInv

LEMMA GateStep ==
  ASSUME GInv, MP!Good(Stand, emitted), [Next]_vars
  PROVE  GInv' /\ [MP!Next]_(MP!vars)
<1>1. ASSUME NEW i \in Inputs, Forward(i) PROVE GInv' /\ [MP!Next]_(MP!vars)
  BY <1>1, ForwardStep
<1>2. ASSUME NEW i \in Inputs, ForwarderReturns(i) PROVE GInv' /\ [MP!Next]_(MP!vars)
  <2>1. Parts' /\ UNCHANGED MP!vars
    BY <1>2, QuietStep DEF ForwarderReturns
  <2>2. TypeOK' /\ SaidEnd'
    BY <1>2 DEF GInv, TypeOK, SaidEnd, ForwarderReturns
  <2>. QED
    BY <2>1, <2>2 DEF GInv, Parts
<1>3. CASE CloseMerged
  <2>1. Parts' /\ UNCHANGED MP!vars
    BY <1>3, QuietStep DEF CloseMerged
  <2>2. TypeOK' /\ SaidEnd'
    BY <1>3 DEF GInv, TypeOK, SaidEnd, CloseMerged
  <2>. QED
    BY <2>1, <2>2 DEF GInv, Parts
<1>4. CASE RecvPending
  BY <1>4, RecvPendingStep
<1>5. CASE RecvReplay
  BY <1>5, RecvReplayStep
<1>6. CASE RecvMerged
  BY <1>6, RecvMergedStep
<1>7. CASE RecvClosed
  <2>1. Parts' /\ UNCHANGED MP!vars
    BY <1>7, QuietStep DEF RecvClosed
  <2>2. TypeOK' /\ SaidEnd'
    BY <1>7 DEF GInv, TypeOK, SaidEnd, RecvClosed
  <2>. QED
    BY <2>1, <2>2 DEF GInv, Parts
<1>8. CASE CancelOnFault
  <2>1. Parts' /\ UNCHANGED MP!vars
    BY <1>8, QuietStep DEF CancelOnFault
  <2>2. TypeOK' /\ SaidEnd'
    BY <1>8 DEF GInv, TypeOK, SaidEnd, CancelOnFault
  <2>. QED
    BY <2>1, <2>2 DEF GInv, Parts
<1>9. CASE Finished \/ UNCHANGED vars
  <2>1. UNCHANGED vars
    BY <1>9 DEF Finished
  <2>2. Parts' /\ UNCHANGED MP!vars
    BY <2>1, QuietStep DEF vars
  <2>3. TypeOK' /\ SaidEnd'
    BY <2>1 DEF GInv, TypeOK, SaidEnd, vars
  <2>. QED
    BY <2>2, <2>3 DEF GInv, Parts
<1>. QED
  BY <1>1, <1>2, <1>3, <1>4, <1>5, <1>6, <1>7, <1>8, <1>9 DEF Next, Recv

LEMMA GateStarts ==
  ASSUME Init
  PROVE  GInv /\ MP!Init
<1>. DEFINE E == Tagged(NumInputs)
<1>1. /\ stream \in [Inputs -> Streams] /\ taken = [i \in Inputs |-> 0]
      /\ exited = [i \in Inputs |-> FALSE] /\ merged = << >> /\ got = << >>
      /\ ~mergedClosed /\ mergedClosed \in BOOLEAN /\ cancelled \in BOOLEAN
      /\ phase = "running" /\ passed = [i \in Inputs |-> 0] /\ g = NewGate(NumInputs)
  BY DEF Init
<1>2. NoElement \in E
  BY OwnTagged DEF NoElement, Kinds
<1>3. NumInputs \in 0..NumInputs /\ MinTime \in Int /\ MinTime \in Times
  BY InputsAssumption, TimesAssumption DEF Times
<1>4. /\ g \in States /\ g.replay = << >> /\ g.pending = << >> /\ ~g.aligning /\ ~g.closed
      /\ g.remaining = NumInputs /\ g.out = MinTime
      /\ \A i \in Inputs : /\ ~g.endOfStream[i] /\ ~g.alignedFor[i] /\ g.buffered[i] = << >>
                           /\ g.watermarks[i] = MinTime
  BY <1>1, <1>2, <1>3 DEF NewGate, States, GateState, Inputs
<1>5. TypeOK
  <2>1. << >> \in Seq(E) /\ Len(<< >>) = 0 /\ 0 <= NumInputs
    BY InputsAssumption
  <2>. QED
    BY <1>1, <1>4, <2>1 DEF TypeOK, States
<1>6. Counts
  <2>1. \A i \in Inputs : Len(stream[i]) \in Nat
    BY <1>1, StreamElements
  <2>. QED
    BY <1>1, <1>4, <2>1 DEF Counts, Handled
<1>7. Queued
  <2>1. Queue = << >>
    BY <1>1, <1>4 DEF Queue
  <2>2. \A i \in Inputs : Handled[i] = 0 /\ taken[i] = 0
    BY <1>1, <1>4 DEF Handled
  <2>. QED
    BY <2>1, <2>2 DEF Queued, QueuedBy
<1>8. Held /\ Aligned /\ SaidEnd
  BY <1>1, <1>4 DEF Held, Aligned, SaidEnd
<1>9. emitted = << >>
  BY <1>1, <1>4 DEF emitted
<1>10. \A i \in Inputs : ~MP!ended(i, 0) /\ MP!timeOf(i, 0) = MinTime
  <2>1. \A i, k : MP!passedKind(i, 0, k) = {}
    BY DEF MP!passedKind
  <2>2. ASSUME NEW i \in Inputs PROVE MP!timeOf(i, 0) = MinTime
    <3>1. 0 \in Nat /\ 0 <= Len(stream[i]) /\ 1..0 = {}
      BY <1>1, StreamElements
    <3>. QED
      BY <1>1, <3>1, SameNames, MergeAssumes, MP!TimeOfInput
  <2>. QED
    BY <2>1, <2>2 DEF MP!ended
<1>11. Ends
  <2>1. liveInputs = Inputs
    BY <1>4 DEF liveInputs
  <2>2. Cardinality(Inputs) = NumInputs
    BY FS_Interval, InputsAssumption DEF Inputs
  <2>3. NumInputs # 0
    BY InputsAssumption
  <2>. QED
    BY <1>1, <1>4, <1>10, <2>1, <2>2, <2>3 DEF Ends
<1>12. Clock
  <2>1. MP!lastTime = MinTime
    <3>1. MP!Timed(emitted)
      BY <1>9 DEF MP!Timed
    <3>2. MP!lastOf(emitted) = MinTime
      BY <1>9, <3>1, MergeAssumes, MP!LastOf
    <3>. QED
      BY <3>2 DEF MP!lastTime, MP!lastOf
  <2>2. minimum(g) <= g.out
    <3>1. minimum(g) = Min({g.watermarks[i] : i \in {j \in Inputs : ~g.endOfStream[j]}} \cup {MaxTime})
      BY <1>4, GateInputs DEF minimum, live
    <3>2. {g.watermarks[i] : i \in {j \in Inputs : ~g.endOfStream[j]}} = {MinTime}
      <4>1. 1 \in Inputs
        BY InputsAssumption DEF Inputs
      <4>. QED
        BY <1>4, <4>1
    <3>. DEFINE S == {MinTime} \cup {MaxTime}
    <3>3. S \in SUBSET Int /\ S # {} /\ MinTime \in S /\ \A x \in S : MinTime <= x
      BY TimesAssumption
    <3>. HIDE DEF S
    <3>4. Min(S) <= MinTime
      BY <3>3, TimesAssumption, MinIsLeast
    <3>. QED
      BY <1>4, <3>1, <3>2, <3>4 DEF S
  <2>. QED
    BY <1>1, <1>4, <1>10, <2>1, <2>2 DEF Clock
<1>13. MP!Init
  <2>1. Stand = [i \in MP!Inputs |-> 0]
    BY <1>1, <1>4, SameNames DEF Stand
  <2>. QED
    BY <1>1, <1>9, <2>1, SameNames DEF MP!Init
<1>. QED
  BY <1>5, <1>6, <1>7, <1>8, <1>11, <1>12, <1>13 DEF GInv

-----------------------------------------------------------------------------
(* What follows from the merge.                                            *)

Inv == GInv /\ MP!Good(Stand, emitted)

LEMMA InvHolds ==
  /\ Init => Inv /\ MP!Init
  /\ Inv /\ [Next]_vars => Inv' /\ [MP!Next]_(MP!vars)
<1>1. ASSUME Init PROVE Inv /\ MP!Init
  <2>1. GInv /\ MP!Init
    BY <1>1, GateStarts
  <2>2. MP!Good(Stand, emitted)
    BY <2>1, MergeAssumes, MP!StartsGood
  <2>. QED
    BY <2>1, <2>2 DEF Inv
<1>2. ASSUME Inv, [Next]_vars PROVE Inv' /\ [MP!Next]_(MP!vars)
  <2>1. GInv /\ MP!Good(Stand, emitted)
    BY <1>2 DEF Inv
  <2>2. GInv' /\ [MP!Next]_(MP!vars)
    BY <1>2, <2>1, GateStep
  <2>3. stream \in [MP!Inputs -> Streams]
    BY <2>1, SameNames DEF GInv, TypeOK
  <2>4. (MP!Good(Stand, emitted))'
    BY <2>1, <2>2, <2>3, MergeAssumes, MP!StaysGood
  <2>. QED
    BY <2>2, <2>4 DEF Inv
<1>. QED
  BY <1>1, <1>2

LEMMA SameRecords ==
  \A i, n : /\ recordsOf(i, n) = MP!recordsOf(emitted, i, n)
            /\ recordsBefore(i, n) = MP!recordsBefore(i, n)
BY DEF recordsOf, isRecordOf, MP!recordsOf, recordsBefore, MP!recordsBefore, MP!isAt

LEMMA InvOrder ==
  ASSUME Inv
  PROVE  PerInputOrder
BY SameRecords DEF Inv, MP!Good, MP!InOrder, PerInputOrder

LEMMA InvCut ==
  ASSUME Inv
  PROVE  ConsistentCut
<1>1. MP!Cuts(emitted)
  BY DEF Inv, MP!Good
<1>2. ASSUME NEW a \in 1..Len(emitted), emitted[a].kind = "barrier", NEW i \in Inputs
      PROVE  \/ \E n \in 1..Len(stream[i]) :
                  /\ stream[i][n].kind = "barrier"
                  /\ stream[i][n].val = emitted[a].val
                  /\ recordsOf(i, a) = recordsBefore(i, n)
             \/ /\ \A n \in 1..Len(stream[i]) :
                     stream[i][n].kind = "barrier" => stream[i][n].val # emitted[a].val
                /\ hasEndOfStream(i)
                /\ recordsOf(i, a) = recordsBefore(i, Len(stream[i]) + 1)
  <2>1. MP!CutAt(i, emitted[a].val, emitted, a)
    BY <1>1, <1>2, SameNames DEF MP!Cuts
  <2>. QED
    BY <2>1, SameRecords DEF MP!CutAt, MP!isAt, hasEndOfStream
<1>. QED
  BY <1>2 DEF ConsistentCut

LEMMA InvNotLate ==
  ASSUME Inv
  PROVE  NoRecordMadeLate
BY DEF Inv, MP!Good, MP!NotLate, MP!isAt, NoRecordMadeLate

LEMMA InvOutput ==
  ASSUME Inv
  PROVE  OutputContract
<1>1. /\ emitted \in Seq(Tagged(NumInputs)) /\ MP!Numbered(emitted)
      /\ MP!Timely(Stand, emitted) /\ MP!EndsLast(Stand, emitted)
  BY SameNames DEF Inv, MP!Good, MP!Well
<1>2. PICK k \in Nat : MP!UpTo(Stand, emitted, k)
  BY DEF Inv, MP!Good
<1>. DEFINE l == emitted
<1>3. /\ Len(l) \in Nat /\ \A n \in 1..Len(l) : l[n].val \in Int
      /\ \A n \in 1..Len(l) : \A m \in 1..n-1 : m \in 1..Len(l)
  <2>1. Len(l) \in Nat /\ \A n \in 1..Len(l) : l[n] \in Tagged(NumInputs)
    BY <1>1
  <2>. QED
    BY <2>1 DEF Tagged
<1>4. ASSUME NEW n \in 1..Len(l), l[n].kind = "watermark"
      PROVE  l[n].val \in Times /\ \A m \in 1..n-1 : l[m].kind = "watermark" => l[m].val < l[n].val
  BY <1>1, <1>4, SameNames DEF MP!Timely
<1>5. ASSUME NEW n \in 1..Len(l), l[n].kind = "barrier"
      PROVE  /\ l[n].val > RestoredID
             /\ \A m \in 1..n-1 : l[m].kind = "barrier" => l[m].val < l[n].val
             /\ \A v \in RestoredID+1..l[n].val-1 : \E m \in 1..n-1 : l[m].kind = "barrier" /\ l[m].val = v
  BY <1>1, <1>2, <1>5 DEF MP!Numbered, MP!UpTo
<1>6. ASSUME NEW n \in 1..Len(l), NEW m \in 1..n-1, l[m].kind = "eos" PROVE FALSE
  <2>1. m = Len(l)
    BY <1>1, <1>3, <1>6 DEF MP!EndsLast
  <2>. QED
    BY <1>3, <2>1
<1>7. ASSUME NEW n \in 1..Len(l), l[n].kind = "eos"
      PROVE  \E m \in 1..n-1 : l[m] = Own("watermark", MaxTime)
  BY <1>1, <1>7, SameNames DEF MP!EndsLast
<1>. HIDE DEF l
<1>8. WellFormed(l)
  <2>1. \A n \in 1..Len(l) : \A m \in 1..n-1 : l[m].val < l[n].val => l[m].val <= l[n].val
    BY <1>3
  <2>. QED
    BY <1>4, <1>5, <1>6, <2>1 DEF WellFormed
<1>9. ASSUME NEW a \in 1..Len(l), NEW b \in 1..Len(l), a < b, l[a].kind = l[b].kind
      PROVE  l[a].kind # "eos" /\ (l[a].kind = "watermark" => l[a].val < l[b].val)
  <2>1. a \in 1..b-1
    BY <1>3, <1>9
  <2>. QED
    BY <1>4, <1>6, <1>9, <2>1
<1>. QED
  BY <1>7, <1>8, <1>9 DEF OutputContract, l

LEMMA InvEnd ==
  ASSUME Inv
  PROVE  NothingLeftBehind
<1>. SUFFICES ASSUME phase = "eos", NEW i \in Inputs
              PROVE  /\ hasEndOfStream(i)
                     /\ recordsOf(i, Len(emitted)) = recordsBefore(i, Len(stream[i]) + 1)
                     /\ \A n \in 1..Len(stream[i]) :
                          stream[i][n].kind = "barrier" =>
                            \E a \in 1..Len(got) : got[a] = Own("barrier", stream[i][n].val)
  BY DEF NothingLeftBehind
<1>1. /\ GInv /\ MP!Well(Stand, emitted) /\ MP!InOrder(Stand, emitted)
      /\ MP!EndsLast(Stand, emitted) /\ MP!Numbered(emitted)
  BY DEF Inv, MP!Good
<1>2. PICK k \in Nat : MP!UpTo(Stand, emitted, k)
  BY DEF Inv, MP!Good
<1>3. /\ stream \in [Inputs -> Streams] /\ got \in Seq(Tagged(NumInputs)) /\ g \in States
      /\ \E n \in 1..Len(got) : got[n].kind = "eos"
  BY <1>1 DEF GInv, TypeOK, States, SaidEnd
<1>4. g.pending \in Seq(Tagged(NumInputs))
  BY <1>3, GateInputs
<1>5. PICK h \in 1..Len(got) : got[h].kind = "eos"
  BY <1>3
<1>6. /\ Len(got) \in Nat /\ Len(emitted) = Len(got) + Len(g.pending) /\ Len(g.pending) \in Nat
      /\ \A n \in 1..Len(got) : n \in 1..Len(emitted) /\ emitted[n] = got[n]
  BY <1>3, <1>4 DEF emitted
<1>7. h = Len(emitted) /\ \A j \in Inputs : MP!ended(j, Stand[j])
  BY <1>1, <1>5, <1>6, SameNames DEF MP!EndsLast
<1>8. Len(emitted) = Len(got)
  BY <1>5, <1>6, <1>7
<1>9. Stand[i] \in Nat /\ Stand[i] <= Len(stream[i]) /\ Len(stream[i]) \in Nat
  BY <1>1, <1>3, Standing, StreamElements
<1>10. ASSUME NEW m \in 1..Len(stream[i]), stream[i][m].kind # "eos"
       PROVE  m \in 1..Stand[i]
  <2>1. CASE m > Stand[i]
    <3>1. MP!isAt(i, m, "eos")
      BY <1>3, <1>7, <1>9, <2>1, SameNames, MergeAssumes, MP!NothingAfterEnd
    <3>. QED
      BY <1>10, <3>1 DEF MP!isAt
  <2>. QED
    BY <1>9, <2>1
<1>11. hasEndOfStream(i)
  <2>1. \E m \in 1..Stand[i] : MP!isAt(i, m, "eos")
    BY <1>7, MergeAssumes, MP!EndedIff
  <2>. QED
    BY <1>9, <2>1 DEF MP!isAt, hasEndOfStream
<1>12. recordsOf(i, Len(emitted)) = recordsBefore(i, Len(stream[i]) + 1)
  <2>1. recordsOf(i, Len(emitted)) = recordsBefore(i, Stand[i] + 1)
    BY <1>1, SameNames, SameRecords DEF MP!InOrder
  <2>2. recordsBefore(i, Stand[i] + 1) = recordsBefore(i, Len(stream[i]) + 1)
    <3>1. \A m : m \in 1..(Stand[i] + 1)-1 => m \in 1..(Len(stream[i]) + 1)-1
      BY <1>9
    <3>2. \A m : m \in 1..(Len(stream[i]) + 1)-1 /\ stream[i][m].kind = "record"
            => m \in 1..(Stand[i] + 1)-1
      <4>1. SUFFICES ASSUME NEW m \in 1..(Len(stream[i]) + 1)-1, stream[i][m].kind = "record"
                     PROVE  m \in 1..(Stand[i] + 1)-1
        OBVIOUS
      <4>2. m \in 1..Len(stream[i])
        BY <1>9
      <4>3. m \in 1..Stand[i]
        BY <1>10, <4>1, <4>2
      <4>. QED
        BY <1>9, <4>3
    <3>. QED
      BY <3>1, <3>2 DEF recordsBefore
  <2>. QED
    BY <2>1, <2>2
<1>13. ASSUME NEW n \in 1..Len(stream[i]), stream[i][n].kind = "barrier"
       PROVE  \E a \in 1..Len(got) : got[a] = Own("barrier", stream[i][n].val)
  <2>. DEFINE v == stream[i][n].val
  <2>1. n \in 1..Stand[i]
    BY <1>10, <1>13
  <2>2. v <= k /\ v > RestoredID /\ v \in Int
    <3>1. stream[i][n] \in Element /\ WellFormed(stream[i])
      BY <1>3, StreamElements
    <3>2. v > RestoredID /\ v \in Int
      BY <1>13, <3>1 DEF WellFormed, Element
    <3>3. v <= k
      BY <1>2, <1>13, <2>1, SameNames DEF MP!UpTo, MP!isAt
    <3>. QED
      BY <3>2, <3>3
  <2>3. v \in RestoredID+1..k
    BY <2>2, InputsAssumption
  <2>. HIDE DEF v
  <2>4. PICK a \in 1..Len(emitted) : emitted[a].kind = "barrier" /\ emitted[a].val = v
    BY <1>2, <2>3 DEF MP!UpTo
  <2>5. emitted[a] = Own("barrier", v)
    BY <1>1, <2>4, SameNames DEF MP!Well
  <2>. QED
    BY <1>6, <1>8, <2>4, <2>5 DEF v
<1>. QED
  BY <1>11, <1>12, <1>13

(* Gate's own instance of the merge is the one these proofs reason about. *)
LEMMA SameMerge ==
  /\ MP!Init => Merge!Init
  /\ [MP!Next]_(MP!vars) => [Merge!Next]_(Merge!vars)
<1>. DEFINE at == [i \in Inputs |-> IF g.alignedFor[i] THEN passed[i] - 1 ELSE passed[i]]
<1>1. at = Stand /\ at' = Stand'
  BY DEF Stand
<1>2. /\ Merge!Inputs = MP!Inputs
      /\ \A i, n : Merge!ended(i, n) = MP!ended(i, n)
      /\ \A i, n : Merge!next(i, n) = MP!next(i, n)
      /\ \A k, v : Merge!Own(k, v) = MP!Own(k, v)
      /\ \A S : Merge!Max(S) = MP!Max(S)
      /\ \A S : Merge!Min(S) = MP!Min(S)
  BY DEF Merge!Inputs, MP!Inputs, Merge!ended, MP!ended, Merge!passedKind, MP!passedKind,
         Merge!next, MP!next, Merge!Own, MP!Own, Merge!Max, MP!Max, Merge!Min, MP!Min
<1>3. \A i, n : Merge!timeOf(i, n) = MP!timeOf(i, n)
  BY <1>2 DEF Merge!timeOf, MP!timeOf, Merge!passedKind, MP!passedKind
<1>4. /\ \A a : Merge!low(a) = MP!low(a)
      /\ \A a : Merge!Live(a) = MP!Live(a)
      /\ Merge!lastTime = MP!lastTime
  BY <1>2, <1>3 DEF Merge!low, MP!low, Merge!Live, MP!Live, Merge!lastTime, MP!lastTime
<1>5. /\ \A a, k : Merge!AtCut(a, k) <=> MP!AtCut(a, k)
      /\ \A a : Merge!Beyond(a) = MP!Beyond(a)
      /\ \A i : Merge!After(i) = MP!After(i)
  BY <1>1, <1>2, <1>4 DEF Merge!AtCut, MP!AtCut, Merge!Beyond, MP!Beyond, Merge!After, MP!After
<1>6. \A i : Merge!Output(i) = MP!Output(i)
  BY <1>1, <1>2, <1>4, <1>5 DEF Merge!Output, MP!Output
<1>7. /\ \A i : MP!Pass(i) => Merge!Pass(i)
      /\ \A k : MP!Cut(k) => Merge!Cut(k)
      /\ \A i, k : MP!EndThenCut(i, k) => Merge!EndThenCut(i, k)
  BY <1>1, <1>2, <1>5, <1>6 DEF MP!Pass, Merge!Pass, MP!Cut, Merge!Cut, MP!EndThenCut, Merge!EndThenCut
<1>8. MP!Next => Merge!Next
  BY <1>1, <1>2, <1>7 DEF MP!Next, Merge!Next
<1>9. UNCHANGED MP!vars => UNCHANGED Merge!vars
  BY <1>1 DEF MP!vars, Merge!vars
<1>10. MP!Init => Merge!Init
  BY <1>1, <1>2 DEF MP!Init, Merge!Init
<1>. QED
  BY <1>8, <1>9, <1>10

-----------------------------------------------------------------------------
(* Every field of the gate keeps its type and merged never holds more      *)
(* elements than there are inputs (NewGate, Recv, handle), for any number  *)
(* of inputs and any well-formed streams.                                  *)
THEOREM TypeCorrect == Spec => []TypeOK
<1>1. Inv => TypeOK
  BY DEF Inv, GInv
<1>. QED
  BY <1>1, InvHolds, PTL DEF Spec

(* The gate of gate.go, with its forwarders, its buffers, its replay and   *)
(* its bounded channel, implements the merge that takes every barrier on   *)
(* all live inputs at once: every step it takes is one of the merge or     *)
(* cannot be seen.                                                         *)
THEOREM Refinement == Spec => ImplementsAlignedMerge
<1>1. Init => Merge!Init
  BY InvHolds, SameMerge
<1>2. Inv /\ [Next]_vars => [Merge!Next]_(Merge!vars)
  BY InvHolds, SameMerge
<1>. QED
  BY <1>1, <1>2, InvHolds, PTL DEF Spec, ImplementsAlignedMerge, Merge!Spec

(* Holding an input back and replaying it (handle, drainBuffers) keeps the *)
(* order of that input: its records go out as they were sent, none twice   *)
(* and none skipped.                                                       *)
THEOREM OrderKept == Spec => []PerInputOrder
BY InvHolds, InvOrder, PTL DEF Spec

(* Every barrier the gate sends on cuts every input where that input sent  *)
(* its own, or at its end if it ended without one (onBarrier,              *)
(* onEndOfStream, completeAlignment).                                      *)
THEOREM CutsAreConsistent == Spec => []ConsistentCut
BY InvHolds, InvCut, PTL DEF Spec

(* No watermark the gate forwards (minimum, advance) makes a record late   *)
(* that its own input had not made late.                                   *)
THEOREM NeverMadeLate == Spec => []NoRecordMadeLate
BY InvHolds, InvNotLate, PTL DEF Spec

(* What the gate sends on is again a stream that a gate may rely on: the   *)
(* contract is kept along any chain of subtasks.                           *)
THEOREM ContractKept == Spec => []OutputContract
BY InvHolds, InvOutput, PTL DEF Spec

(* When Recv has said end-of-stream (closeGate) nothing is left behind in  *)
(* buffered, replay or merged: all that any input sent has gone out.       *)
THEOREM EndIsTheEnd == Spec => []NothingLeftBehind
BY InvHolds, InvEnd, PTL DEF Spec
=============================================================================
