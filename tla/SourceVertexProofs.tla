------------------------- MODULE SourceVertexProofs -------------------------
(***************************************************************************)
(* Proofs about SourceVertex: for every number of records, of subtasks and *)
(* of crashes and every barrier interval.                                  *)
(***************************************************************************)
EXTENDS SourceVertex, DataLemmas, FiniteSetTheorems

start(i) == range(i).start
finish(i) == range(i).end

(* Where the barrier k of subtask i belongs. *)
place(i, k) == start(i) + k * vertex.interval

Shapes == [count : 0..MaxCount, parallelism : 1..MaxParallelism, interval : 0..MaxInterval]

Types ==
  /\ vertex \in Shapes
  /\ position \in [Subtasks -> Int]
  /\ gen \in [Subtasks -> [sinceLast : Nat, injected : Nat]]
  /\ DOMAIN cuts = Subtasks /\ DOMAIN read = Subtasks /\ DOMAIN readAt = Subtasks
  /\ \A i \in Subtasks : DOMAIN readAt[i] = DOMAIN cuts[i]

(* Within the budget the position is a multiple of the interval and what   *)
(* has been counted since, from the start of the range; the budget is used *)
(* up only where its last barrier belongs or beyond.                       *)
Placed ==
  \A i \in Subtasks :
    /\ start(i) <= position[i] /\ position[i] <= finish(i)
    /\ gen[i].injected <= budget
    /\ gen[i].injected < budget =>
         /\ gen[i].sinceLast < vertex.interval
         /\ position[i] = place(i, gen[i].injected) + gen[i].sinceLast
    /\ gen[i].injected = budget => position[i] >= place(i, budget)

(* Every checkpoint on the disk is where it belongs, whichever run took    *)
(* it, and so are all the ones before it.                                  *)
CutsPlaced ==
  \A i \in Subtasks :
    /\ 1 .. gen[i].injected \subseteq DOMAIN cuts[i]
    /\ DOMAIN cuts[i] \subseteq 1..budget
    /\ \A k \in DOMAIN cuts[i] : /\ cuts[i][k] = place(i, k)
                                 /\ readAt[i][k] = start(i) .. place(i, k) - 1
                                 /\ 1..k \subseteq DOMAIN cuts[i]

ReadSoFar == \A i \in Subtasks : read[i] = start(i) .. position[i] - 1

IInv == Types /\ Placed /\ CutsPlaced /\ ReadSoFar /\ OneCutPerID

-----------------------------------------------------------------------------
(* The ranges: in order, one after the other, each long enough for the     *)
(* whole budget.                                                           *)
LEMMA Ranges ==
  ASSUME vertex \in Shapes, NEW i \in Subtasks
  PROVE  /\ i \in Nat /\ budget \in Nat /\ vertex.interval \in Nat
         /\ start(i) \in Nat /\ finish(i) \in Nat
         /\ finish(i) <= vertex.count
         /\ place(i, budget) <= finish(i) /\ start(i) <= finish(i)
<1>. DEFINE c == vertex.count
            p == vertex.parallelism
            v == vertex.interval
<1>1. c \in Nat /\ p \in Nat \ {0} /\ v \in Nat /\ i \in Nat /\ i + 1 <= p
  BY VertexAssumption DEF Shapes, Subtasks
<1>. HIDE DEF c, p, v
<1>2. i * c \in Nat /\ (i + 1) * c = i * c + c /\ (i + 1) * c \in Nat /\ (i + 1) * c <= p * c
  <2>1. PICK e \in Nat : p = i + 1 + e
    <3>1. p - i - 1 \in Nat
      BY <1>1
    <3>. QED
      BY <1>1, <3>1
  <2>2. e * c \in Nat /\ p * c = (i + 1) * c + e * c
    BY <1>1, <2>1
  <2>. QED
    BY <1>1, <2>2
<1>3. start(i) = (i * c) \div p /\ finish(i) = ((i + 1) * c) \div p
  BY DEF start, finish, range, sourceRange, c, p
<1>4. start(i) \in Nat /\ finish(i) \in Nat /\ c \div p \in Nat
  BY <1>1, <1>2, <1>3, DivFits
<1>5. start(i) + (c \div p) <= finish(i)
  BY <1>1, <1>2, <1>3, DivSum
<1>6. finish(i) <= c
  <2>1. p * c \in Nat /\ finish(i) <= (p * c) \div p
    BY <1>1, <1>2, <1>3, DivMonotonic
  <2>2. (p * c) \div p = c
    <3>1. c <= (p * c) \div p
      BY <1>1, <2>1, DivGreatest
    <3>2. (p * c) \div p \in Nat /\ ((p * c) \div p) * p <= p * c
      BY <1>1, <2>1, DivFits
    <3>. QED
      BY <1>1, <3>1, <3>2
  <2>. QED
    BY <2>1, <2>2
<1>7. budget \in Nat /\ budget * v <= c \div p /\ budget * v \in Nat
  <2>1. CASE v = 0
    BY <1>1, <1>4, <2>1 DEF budget, maxBarriers, v
  <2>2. CASE v > 0
    <3>1. budget = (c \div p) \div v
      BY <1>1, <2>2 DEF budget, maxBarriers, v, c, p
    <3>. QED
      BY <1>1, <1>4, <2>2, <3>1, DivFits
  <2>. QED
    BY <1>1, <2>1, <2>2
<1>8. place(i, budget) = start(i) + budget * v
  BY DEF place, v
<1>. QED
  BY <1>1, <1>4, <1>5, <1>6, <1>7, <1>8 DEF c, v

(* The barriers of one subtask are an interval apart. *)
LEMMA Places ==
  ASSUME vertex \in Shapes, NEW i \in Subtasks, NEW k \in Nat
  PROVE  /\ place(i, k) \in Nat
         /\ place(i, k + 1) = place(i, k) + vertex.interval
         /\ \A m \in Nat : k <= m => place(i, k) <= place(i, m)
<1>1. vertex.interval \in Nat /\ start(i) \in Nat
  BY Ranges
<1>2. ASSUME NEW m \in Nat, k <= m
      PROVE  k * vertex.interval <= m * vertex.interval
  <2>1. PICK e \in Nat : m = k + e
    <3>1. m - k \in Nat
      BY <1>2
    <3>. QED
      BY <3>1
  <2>2. e * vertex.interval \in Nat /\ m * vertex.interval = k * vertex.interval + e * vertex.interval
    BY <1>1, <2>1
  <2>. QED
    BY <1>1, <2>2
<1>. QED
  BY <1>1, <1>2 DEF place

(* No subtask begins before the one below it ends. *)
LEMMA RangesInOrder ==
  ASSUME vertex \in Shapes, NEW h \in Subtasks, NEW i \in Subtasks, h < i
  PROVE  finish(h) <= start(i)
<1>. DEFINE c == vertex.count
            p == vertex.parallelism
<1>1. c \in Nat /\ p \in Nat \ {0} /\ h \in Nat /\ i \in Nat /\ h + 1 <= i
  BY VertexAssumption DEF Shapes, Subtasks
<1>2. finish(h) = ((h + 1) * c) \div p /\ start(i) = (i * c) \div p
  BY DEF start, finish, range, sourceRange
<1>. HIDE DEF c, p
<1>3. PICK e \in Nat : i = h + 1 + e
  <2>1. i - h - 1 \in Nat
    BY <1>1
  <2>. QED
    BY <1>1, <2>1
<1>4. (h + 1) * c \in Nat /\ i * c \in Nat /\ e * c \in Nat /\ i * c = (h + 1) * c + e * c
  BY <1>1, <1>3
<1>. QED
  BY <1>1, <1>2, <1>4, DivMonotonic

(* Every offset is in the range of some subtask. *)
LEMMA RangesCover ==
  ASSUME vertex \in Shapes, NEW n \in 0 .. vertex.count - 1
  PROVE  \E i \in Subtasks : start(i) <= n /\ n < finish(i)
<1>. DEFINE c == vertex.count
            p == vertex.parallelism
            T == {j \in 0..p-1 : n < finish(j)}
<1>1. c \in Nat /\ p \in Nat \ {0} /\ n \in Nat /\ n < c /\ T \subseteq Nat
  BY VertexAssumption DEF Shapes
<1>2. p - 1 \in T
  <2>1. p - 1 \in Subtasks /\ p - 1 + 1 = p
    BY <1>1 DEF Subtasks
  <2>2. finish(p - 1) = (p * c) \div p
    BY <2>1 DEF finish, range, sourceRange
  <2>3. c <= (p * c) \div p
    BY <1>1, DivGreatest
  <2>4. finish(p - 1) \in Nat
    BY <2>1, Ranges
  <2>. QED
    BY <1>1, <2>1, <2>2, <2>3, <2>4 DEF Subtasks
<1>3. PICK i \in T : \A j \in T : i <= j
  BY <1>1, <1>2, LeastNat
<1>4. i \in Subtasks /\ i \in Nat /\ n < finish(i)
  BY <1>1, <1>3 DEF Subtasks
<1>5. CASE i = 0
  <2>1. start(i) = 0
    <3>1. start(i) = (0 * c) \div p /\ 0 * c = 0
      BY <1>1, <1>5 DEF start, range, sourceRange
    <3>2. (0 \div p) * p <= 0 /\ 0 \div p \in Nat
      BY <1>1, DivFits
    <3>. QED
      BY <1>1, <3>1, <3>2
  <2>. QED
    BY <1>1, <1>4, <2>1
<1>6. CASE i # 0
  <2>1. i - 1 \in Subtasks /\ i - 1 \in 0..p-1 /\ i - 1 \notin T /\ i - 1 + 1 = i
    BY <1>1, <1>3, <1>4, <1>6 DEF Subtasks
  <2>2. finish(i - 1) = start(i)
    BY <2>1 DEF start, finish, range, sourceRange
  <2>3. finish(i - 1) \in Nat
    BY <2>1, Ranges
  <2>. QED
    BY <1>1, <1>4, <2>1, <2>2, <2>3
<1>. QED
  BY <1>5, <1>6

-----------------------------------------------------------------------------
LEMMA InitHolds == Init => IInv
<1>. SUFFICES ASSUME Init PROVE IInv
  OBVIOUS
<1>1. vertex \in Shapes /\ \A i \in Subtasks : start(i) \in Nat
  BY Ranges DEF Init, Shapes
<1>2. Types
  BY <1>1 DEF Init, Types, newBarrierGenerator, start
<1>3. ASSUME NEW i \in Subtasks
      PROVE  /\ start(i) <= position[i] /\ position[i] <= finish(i)
             /\ gen[i].injected <= budget
             /\ gen[i].injected < budget =>
                  /\ gen[i].sinceLast < vertex.interval
                  /\ position[i] = place(i, gen[i].injected) + gen[i].sinceLast
             /\ gen[i].injected = budget => position[i] >= place(i, budget)
  <2>1. position[i] = start(i) /\ gen[i].injected = 0 /\ gen[i].sinceLast = 0
    BY DEF Init, newBarrierGenerator, start
  <2>2. place(i, 0) = start(i)
    BY <1>1, Ranges DEF place
  <2>3. budget > 0 => vertex.interval > 0
    BY <1>1, Ranges DEF budget, maxBarriers
  <2>. QED
    BY <1>1, <2>1, <2>2, <2>3, Ranges
<1>4. CutsPlaced /\ ReadSoFar /\ OneCutPerID
  <2>1. ASSUME NEW i \in Subtasks
        PROVE  /\ gen[i].injected = 0 /\ DOMAIN cuts[i] = {}
               /\ read[i] = {} /\ position[i] = start(i)
    BY DEF Init, newBarrierGenerator, start
  <2>2. \A i \in Subtasks : start(i) .. start(i) - 1 = {}
    BY <1>1
  <2>. QED
    BY <2>1, <2>2 DEF CutsPlaced, ReadSoFar, OneCutPerID, Init
<1>. QED
  BY <1>2, <1>3, <1>4 DEF IInv, Placed

(* What a record does to the barrier generator: the three cases of         *)
(* barrierGenerator.onRecord, seen from the position.                      *)
LEMMA Counting ==
  ASSUME IInv, NEW i \in Subtasks, Emit(i)
  PROVE  LET id == barrierAfter(gen[i], vertex.interval, budget)
             g == barrierOnRecord(gen[i], vertex.interval, budget)
         IN /\ id \in Nat /\ g \in [sinceLast : Nat, injected : Nat]
            /\ g.injected <= budget
            /\ g.injected < budget =>
                 /\ g.sinceLast < vertex.interval
                 /\ position[i] + 1 = place(i, g.injected) + g.sinceLast
            /\ g.injected = budget => position[i] + 1 >= place(i, budget)
            /\ id = 0 => g.injected = gen[i].injected
            /\ id > 0 => /\ id = gen[i].injected + 1 /\ g.injected = id /\ id <= budget
                         /\ position[i] + 1 = place(i, id)
<1>. DEFINE old == gen[i]
            v == vertex.interval
            id == barrierAfter(old, v, budget)
            g == barrierOnRecord(old, v, budget)
<1>1. /\ vertex \in Shapes /\ position[i] \in Int
      /\ old \in [sinceLast : Nat, injected : Nat]
  BY DEF IInv, Types
<1>2. /\ old.injected <= budget
      /\ old.injected < budget => /\ old.sinceLast < v
                                  /\ position[i] = place(i, old.injected) + old.sinceLast
      /\ old.injected = budget => position[i] >= place(i, budget)
  BY DEF IInv, Placed
<1>3. v \in Nat /\ budget \in Nat /\ place(i, budget) \in Nat
  BY <1>1, Ranges, Places
<1>4. /\ place(i, old.injected) \in Nat
      /\ place(i, old.injected + 1) = place(i, old.injected) + v
  BY <1>1, Places
<1>5. v = 0 => budget = 0
  BY DEF budget, maxBarriers
<1>. HIDE DEF v, old
<1>6. CASE ~countsBarrier(old, v, budget)
  <2>1. id = 0 /\ g = old
    BY <1>6 DEF barrierAfter, barrierOnRecord
  <2>2. old.injected = budget
    BY <1>1, <1>2, <1>3, <1>5, <1>6 DEF countsBarrier
  <2>. QED
    BY <1>1, <1>2, <1>3, <2>1, <2>2 DEF v, old
<1>7. CASE countsBarrier(old, v, budget) /\ old.sinceLast + 1 >= v
  <2>1. id = old.injected + 1 /\ old.injected < budget
    BY <1>7 DEF barrierAfter, countsBarrier
  <2>2. id > 0
    BY <1>1, <2>1
  <2>3. g = [sinceLast |-> 0, injected |-> id]
    BY <1>7, <2>1, <2>2 DEF barrierOnRecord
  <2>4. position[i] + 1 = place(i, id) /\ v > 0
    BY <1>1, <1>2, <1>3, <1>4, <1>7, <2>1 DEF countsBarrier
  <2>5. g \in [sinceLast : Nat, injected : Nat] /\ g.sinceLast = 0 /\ g.injected = id
    BY <1>1, <2>1, <2>3
  <2>6. place(i, id) \in Nat /\ id \in Nat /\ id <= budget
    BY <1>1, <1>3, <1>4, <2>1
  <2>. QED
    BY <2>1, <2>2, <2>4, <2>5, <2>6 DEF v, old
<1>8. CASE countsBarrier(old, v, budget) /\ ~(old.sinceLast + 1 >= v)
  <2>1. id = 0 /\ old.injected < budget
    BY <1>8 DEF barrierAfter, countsBarrier
  <2>2. g = [old EXCEPT !.sinceLast = @ + 1]
    BY <1>8, <2>1 DEF barrierOnRecord
  <2>3. /\ g \in [sinceLast : Nat, injected : Nat]
        /\ g.sinceLast = old.sinceLast + 1 /\ g.injected = old.injected
    BY <1>1, <2>2
  <2>. QED
    BY <1>1, <1>2, <1>3, <1>4, <1>8, <2>1, <2>3 DEF v, old
<1>. QED
  BY <1>6, <1>7, <1>8

(* Emitting a record, and the barrier that is due after it. *)
LEMMA EmitKeeps ==
  ASSUME IInv, NEW i \in Subtasks, Emit(i)
  PROVE  IInv'
<1>. DEFINE id == barrierAfter(gen[i], vertex.interval, budget)
            g == barrierOnRecord(gen[i], vertex.interval, budget)
<1>1. /\ vertex' = vertex /\ position[i] < finish(i)
      /\ position' = [position EXCEPT ![i] = position[i] + 1]
      /\ gen' = [gen EXCEPT ![i] = g]
      /\ read' = [read EXCEPT ![i] = read[i] \cup {position[i]}]
  BY DEF Emit, finish
<1>2. \/ id = 0 /\ cuts' = cuts /\ readAt' = readAt /\ moved' = moved
      \/ /\ id > 0
         /\ cuts' = [cuts EXCEPT ![i] = with(cuts[i], id, position'[i])]
         /\ readAt' = [readAt EXCEPT ![i] = with(readAt[i], id, read[i] \cup {position[i]})]
         /\ moved' = (moved \/ (id \in DOMAIN cuts[i] /\ cuts[i][id] # position'[i]))
  BY DEF Emit
<1>3. /\ Subtasks' = Subtasks /\ budget' = budget
      /\ \A j : start(j)' = start(j) /\ finish(j)' = finish(j)
      /\ \A j, k : place(j, k)' = place(j, k)
  BY <1>1 DEF Subtasks, budget, start, finish, range, place
<1>4. /\ vertex \in Shapes /\ position \in [Subtasks -> Int]
      /\ gen \in [Subtasks -> [sinceLast : Nat, injected : Nat]]
      /\ DOMAIN cuts = Subtasks /\ DOMAIN read = Subtasks /\ DOMAIN readAt = Subtasks
      /\ \A j \in Subtasks : DOMAIN readAt[j] = DOMAIN cuts[j]
  BY DEF IInv, Types
<1>5. /\ id \in Nat /\ g \in [sinceLast : Nat, injected : Nat]
      /\ g.injected <= budget
      /\ g.injected < budget =>
           /\ g.sinceLast < vertex.interval
           /\ position[i] + 1 = place(i, g.injected) + g.sinceLast
      /\ g.injected = budget => position[i] + 1 >= place(i, budget)
      /\ id = 0 => g.injected = gen[i].injected
      /\ id > 0 => /\ id = gen[i].injected + 1 /\ g.injected = id /\ id <= budget
                   /\ position[i] + 1 = place(i, id)
  BY Counting
<1>. HIDE DEF id, g
<1>6. position'[i] = position[i] + 1 /\ gen'[i] = g
  BY <1>1, <1>4
<1>7. ASSUME NEW j \in Subtasks, j # i
      PROVE  /\ position'[j] = position[j] /\ gen'[j] = gen[j] /\ read'[j] = read[j]
             /\ cuts'[j] = cuts[j] /\ readAt'[j] = readAt[j]
  BY <1>1, <1>2, <1>4, <1>7
<1>8. start(i) \in Nat /\ finish(i) \in Nat /\ start(i) <= position[i]
  BY <1>4, Ranges DEF IInv, Placed
<1>9. Types'
  <2>1. CASE id = 0
    BY <1>1, <1>2, <1>3, <1>4, <1>5, <2>1 DEF Types
  <2>2. CASE id > 0
    <3>1. DOMAIN cuts'[i] = DOMAIN cuts[i] \cup {id} /\ DOMAIN readAt'[i] = DOMAIN readAt[i] \cup {id}
      BY <1>2, <1>4, <1>5, <2>2 DEF with
    <3>2. DOMAIN cuts' = Subtasks /\ DOMAIN readAt' = Subtasks
      BY <1>2, <1>4, <1>5, <2>2
    <3>3. \A j \in Subtasks : DOMAIN readAt'[j] = DOMAIN cuts'[j]
      BY <1>4, <1>7, <3>1
    <3>4. /\ position' \in [Subtasks -> Int] /\ DOMAIN read' = Subtasks
          /\ gen' \in [Subtasks -> [sinceLast : Nat, injected : Nat]]
      BY <1>1, <1>4, <1>5
    <3>. QED
      BY <1>1, <1>3, <1>4, <3>2, <3>3, <3>4 DEF Types
  <2>. QED
    BY <1>5, <2>1, <2>2
<1>10. Placed'
  <2>. SUFFICES ASSUME NEW j \in Subtasks
                PROVE  /\ start(j) <= position'[j] /\ position'[j] <= finish(j)
                       /\ gen'[j].injected <= budget
                       /\ gen'[j].injected < budget =>
                            /\ gen'[j].sinceLast < vertex.interval
                            /\ position'[j] = place(j, gen'[j].injected) + gen'[j].sinceLast
                       /\ gen'[j].injected = budget => position'[j] >= place(j, budget)
    BY <1>1, <1>3 DEF Placed
  <2>1. CASE j = i
    BY <1>1, <1>4, <1>5, <1>6, <1>8, <2>1
  <2>2. CASE j # i
    BY <1>7, <2>2 DEF IInv, Placed
  <2>. QED
    BY <2>1, <2>2
<1>11. CutsPlaced' /\ OneCutPerID'
  <2>1. CASE id = 0
    <3>1. \A j \in Subtasks : gen'[j].injected = gen[j].injected
      BY <1>5, <1>6, <1>7, <2>1
    <3>. QED
      BY <1>2, <1>3, <1>5, <2>1, <3>1 DEF IInv, CutsPlaced, OneCutPerID
  <2>2. CASE id > 0
    <3>1. /\ cuts'[i] = with(cuts[i], id, place(i, id))
          /\ readAt'[i] = with(readAt[i], id, read[i] \cup {position[i]})
          /\ gen'[i].injected = id /\ id \in 1..budget /\ id = gen[i].injected + 1
      BY <1>2, <1>4, <1>5, <1>6, <2>2, Ranges
    <3>2. read[i] \cup {position[i]} = start(i) .. place(i, id) - 1
      <4>1. read[i] = start(i) .. position[i] - 1 /\ position[i] = place(i, id) - 1
        BY <1>4, <1>5, <1>8, <2>2, <3>1, Places DEF IInv, ReadSoFar
      <4>. QED
        BY <1>4, <1>8, <4>1
    <3>3. /\ 1 .. gen[i].injected \subseteq DOMAIN cuts[i]
          /\ DOMAIN cuts[i] \subseteq 1..budget
          /\ \A k \in DOMAIN cuts[i] : /\ cuts[i][k] = place(i, k)
                                       /\ readAt[i][k] = start(i) .. place(i, k) - 1
                                       /\ 1..k \subseteq DOMAIN cuts[i]
                                       /\ 1..k \subseteq DOMAIN cuts[i]
                                       /\ 1..k \subseteq DOMAIN cuts[i]
      BY DEF IInv, CutsPlaced
    <3>4. /\ 1 .. gen'[i].injected \subseteq DOMAIN cuts'[i]
          /\ DOMAIN cuts'[i] \subseteq 1..budget
          /\ \A k \in DOMAIN cuts'[i] : /\ cuts'[i][k] = place(i, k)
                                        /\ readAt'[i][k] = start(i) .. place(i, k) - 1
                                        /\ 1..k \subseteq DOMAIN cuts'[i]
                                        /\ 1..k \subseteq DOMAIN cuts'[i]
                                        /\ 1..k \subseteq DOMAIN cuts'[i]
      <4>1. DOMAIN cuts'[i] = DOMAIN cuts[i] \cup {id} /\ gen[i].injected \in Nat
        BY <1>4, <3>1 DEF with
      <4>2. 1 .. id = 1 .. gen[i].injected \cup {id}
        BY <3>1, <4>1
      <4>3. \A k \in DOMAIN cuts'[i] :
              /\ cuts'[i][k] = IF k = id THEN place(i, id) ELSE cuts[i][k]
              /\ readAt'[i][k] = IF k = id THEN read[i] \cup {position[i]} ELSE readAt[i][k]
        BY <1>4, <3>1, <4>1 DEF with
      <4>. QED
        BY <3>1, <3>2, <3>3, <4>1, <4>2, <4>3
    <3>5. OneCutPerID'
      BY <1>2, <1>5, <1>6, <2>2, <3>3 DEF IInv, OneCutPerID
    <3>6. \A j \in Subtasks : j # i =>
            /\ 1 .. gen'[j].injected \subseteq DOMAIN cuts'[j]
            /\ DOMAIN cuts'[j] \subseteq 1..budget
            /\ \A k \in DOMAIN cuts'[j] : /\ cuts'[j][k] = place(j, k)
                                          /\ readAt'[j][k] = start(j) .. place(j, k) - 1
                                          /\ 1..k \subseteq DOMAIN cuts'[j]
                                          /\ 1..k \subseteq DOMAIN cuts'[j]
                                          /\ 1..k \subseteq DOMAIN cuts'[j]
      BY <1>7 DEF IInv, CutsPlaced
    <3>. QED
      BY <1>3, <3>4, <3>5, <3>6 DEF CutsPlaced
  <2>. QED
    BY <1>5, <2>1, <2>2
<1>12. ReadSoFar'
  <2>1. read'[i] = start(i) .. position'[i] - 1
    <3>1. read'[i] = read[i] \cup {position[i]} /\ read[i] = start(i) .. position[i] - 1
      BY <1>1, <1>4 DEF IInv, ReadSoFar
    <3>. QED
      BY <1>4, <1>6, <1>8, <3>1
  <2>. QED
    BY <1>3, <1>7, <2>1 DEF IInv, ReadSoFar
<1>. QED
  BY <1>9, <1>10, <1>11, <1>12 DEF IInv

(* A crash, and the job run again from checkpoint k or from the start. *)
LEMMA ResumeKeeps ==
  ASSUME IInv, NEW k \in 0..MaxCount, Resume(k)
  PROVE  IInv'
<1>1. /\ k = 0 \/ complete(k)
      /\ position' = [i \in Subtasks |-> IF k = 0 THEN start(i) ELSE cuts[i][k]]
      /\ gen' = [i \in Subtasks |-> [sinceLast |-> 0, injected |-> k]]
      /\ read' = [i \in Subtasks |-> IF k = 0 THEN {} ELSE readAt[i][k]]
      /\ vertex' = vertex /\ cuts' = cuts /\ readAt' = readAt /\ moved' = moved
  BY DEF Resume, resumed, start
<1>2. /\ Subtasks' = Subtasks /\ budget' = budget
      /\ \A j : start(j)' = start(j) /\ finish(j)' = finish(j)
      /\ \A j, m : place(j, m)' = place(j, m)
  BY <1>1 DEF Subtasks, budget, start, finish, range, place
<1>3. /\ vertex \in Shapes /\ k \in Nat
      /\ DOMAIN cuts = Subtasks /\ DOMAIN readAt = Subtasks
      /\ \A j \in Subtasks : DOMAIN readAt[j] = DOMAIN cuts[j]
  BY VertexAssumption DEF IInv, Types
<1>4. ASSUME NEW i \in Subtasks
      PROVE  /\ position'[i] = place(i, k) /\ k <= budget
             /\ read'[i] = start(i) .. place(i, k) - 1
             /\ 1..k \subseteq DOMAIN cuts[i]
  <2>1. CASE k = 0
    <3>1. place(i, 0) = start(i) /\ start(i) .. start(i) - 1 = {} /\ 1..0 = {} /\ budget \in Nat
      BY <1>3, Ranges DEF place
    <3>. QED
      BY <1>1, <2>1, <3>1
  <2>2. CASE k # 0
    <3>1. k \in DOMAIN cuts[i]
      BY <1>1, <2>2 DEF complete
    <3>2. cuts[i][k] = place(i, k) /\ readAt[i][k] = start(i) .. place(i, k) - 1
      BY <3>1 DEF IInv, CutsPlaced
    <3>3. 1..k \subseteq DOMAIN cuts[i] /\ k \in 1..budget
      BY <3>1 DEF IInv, CutsPlaced
    <3>. QED
      BY <1>1, <1>3, <2>2, <3>2, <3>3, Ranges
  <2>. QED
    BY <2>1, <2>2
<1>5. ASSUME NEW i \in Subtasks
      PROVE  /\ place(i, k) \in Nat /\ start(i) <= place(i, k) /\ place(i, k) <= finish(i)
             /\ k < budget => 0 < vertex.interval
             /\ k = budget => place(i, k) >= place(i, budget)
  <2>1. /\ budget \in Nat /\ vertex.interval \in Nat
        /\ place(i, budget) <= finish(i) /\ finish(i) \in Nat
    BY <1>3, Ranges
  <2>2. place(i, k) \in Nat /\ place(i, k) <= place(i, budget) /\ place(i, budget) \in Nat
    BY <1>3, <1>4, <2>1, Places
  <2>3. place(i, 0) = start(i) /\ place(i, 0) <= place(i, k)
    BY <1>3, Places, Ranges DEF place
  <2>4. budget > 0 => vertex.interval > 0
    BY <2>1 DEF budget, maxBarriers
  <2>. QED
    BY <1>3, <2>1, <2>2, <2>3, <2>4
<1>6. Types'
  <2>1. /\ position' \in [Subtasks -> Int] /\ DOMAIN read' = Subtasks
        /\ gen' \in [Subtasks -> [sinceLast : Nat, injected : Nat]]
    BY <1>1, <1>3, <1>4, <1>5
  <2>. QED
    BY <1>1, <1>2, <1>3, <2>1 DEF Types
<1>7. \A i \in Subtasks : gen'[i].injected = k /\ gen'[i].sinceLast = 0
  BY <1>1
<1>8. Placed'
  <2>. SUFFICES ASSUME NEW i \in Subtasks
                PROVE  /\ start(i) <= position'[i] /\ position'[i] <= finish(i)
                       /\ gen'[i].injected <= budget
                       /\ gen'[i].injected < budget =>
                            /\ gen'[i].sinceLast < vertex.interval
                            /\ position'[i] = place(i, gen'[i].injected) + gen'[i].sinceLast
                       /\ gen'[i].injected = budget => position'[i] >= place(i, budget)
    BY <1>1, <1>2 DEF Placed
  <2>. QED
    BY <1>4, <1>5, <1>7
<1>9. CutsPlaced' /\ OneCutPerID'
  BY <1>1, <1>2, <1>4, <1>7 DEF IInv, CutsPlaced, OneCutPerID
<1>10. ReadSoFar'
  BY <1>2, <1>4 DEF ReadSoFar
<1>. QED
  BY <1>6, <1>8, <1>9, <1>10 DEF IInv

LEMMA Invariance == Spec => []IInv
<1>1. IInv /\ [Next]_vars => IInv'
  <2>1. ASSUME IInv, UNCHANGED vars PROVE IInv'
    BY <2>1 DEF vars, IInv, Types, Placed, CutsPlaced, ReadSoFar, OneCutPerID, Subtasks, budget,
       start, finish, range, place
  <2>. QED
    BY <2>1, EmitKeeps, ResumeKeeps DEF Next
<1>. QED
  BY InitHolds, <1>1, PTL DEF Spec

-----------------------------------------------------------------------------
(* No subtask leaves its range or its budget, however often it is resumed. *)
THEOREM TypeCorrect == Spec => []TypeOK
<1>1. IInv => TypeOK
  <2>. SUFFICES ASSUME IInv, NEW i \in Subtasks
                PROVE  /\ position[i] \in range(i).start .. range(i).end
                       /\ gen[i].injected \in 0..budget /\ gen[i].sinceLast >= 0
    BY DEF TypeOK
  <2>1. position[i] \in Int /\ gen[i] \in [sinceLast : Nat, injected : Nat]
    BY DEF IInv, Types
  <2>2. start(i) \in Nat /\ finish(i) \in Nat /\ budget \in Nat
    BY Ranges DEF IInv, Types
  <2>. QED
    BY <2>1, <2>2 DEF IInv, Placed, start, finish
<1>. QED
  BY Invariance, <1>1, PTL

(* At the end of its range every subtask has injected the whole budget, so *)
(* the subtasks of a vertex inject the same barriers and none downstream   *)
(* aligns on one that never comes.                                         *)
THEOREM SameBarriersEverywhere == Spec => []SameBarriers
<1>1. IInv => SameBarriers
  <2>. SUFFICES ASSUME IInv, NEW i \in Subtasks, position[i] = range(i).end
                PROVE  gen[i].injected = budget /\ DOMAIN cuts[i] = 1..budget
    BY DEF SameBarriers
  <2>1. /\ vertex \in Shapes /\ gen[i].injected \in Nat /\ gen[i].sinceLast \in Nat
    BY DEF IInv, Types
  <2>2. /\ budget \in Nat /\ finish(i) \in Nat /\ vertex.interval \in Nat
        /\ place(i, budget) <= finish(i) /\ position[i] = finish(i)
    BY <2>1, Ranges DEF finish
  <2>3. ASSUME gen[i].injected < budget PROVE FALSE
    <3>1. /\ place(i, gen[i].injected) \in Nat
          /\ place(i, gen[i].injected + 1) = place(i, gen[i].injected) + vertex.interval
          /\ place(i, gen[i].injected + 1) <= place(i, budget) /\ place(i, budget) \in Nat
      BY <2>1, <2>2, <2>3, Places
    <3>2. /\ gen[i].sinceLast < vertex.interval
          /\ position[i] = place(i, gen[i].injected) + gen[i].sinceLast
      BY <2>3 DEF IInv, Placed
    <3>. QED
      BY <2>1, <2>2, <3>1, <3>2
  <2>4. gen[i].injected = budget
    BY <2>1, <2>2, <2>3 DEF IInv, Placed
  <2>. QED
    BY <2>4 DEF IInv, CutsPlaced
<1>. QED
  BY Invariance, <1>1, PTL

(* A checkpoint ID names one position of each subtask, in whatever run it  *)
(* is taken.                                                               *)
THEOREM CutsNeverMove == Spec => []OneCutPerID
BY Invariance, PTL DEF IInv

(* Between them the subtasks read every offset once, over any crashes. *)
THEOREM RecordsOnce == Spec => []EachRecordOnce
<1>1. IInv => EachRecordOnce
  <2>. SUFFICES ASSUME IInv PROVE EachRecordOnce
    OBVIOUS
  <2>1. /\ vertex \in Shapes
        /\ \A i \in Subtasks : /\ read[i] = start(i) .. position[i] - 1
                               /\ position[i] \in Int /\ start(i) <= position[i]
                               /\ position[i] <= finish(i)
    BY DEF IInv, Types, ReadSoFar, Placed
  <2>2. \A i \in Subtasks : /\ start(i) \in Nat /\ finish(i) \in Nat /\ i \in Nat
                            /\ finish(i) <= vertex.count
    BY <2>1, Ranges
  <2>3. ASSUME NEW i \in Subtasks
        PROVE  Cardinality(read[i]) = position[i] - range(i).start
    <3>1. Cardinality(start(i) .. position[i] - 1) =
            IF start(i) > position[i] - 1 THEN 0 ELSE position[i] - 1 - start(i) + 1
      <4>1. start(i) \in Int /\ position[i] - 1 \in Int
        BY <2>1, <2>2
      <4>. QED
        BY <4>1, FS_Interval
    <3>. QED
      BY <2>1, <2>2, <3>1 DEF start
  <2>4. ASSUME NEW h \in Subtasks, NEW i \in Subtasks, h < i
        PROVE  read[h] \cap read[i] = {}
    <3>1. finish(h) <= start(i)
      BY <2>1, <2>4, RangesInOrder
    <3>2. ASSUME NEW n \in read[h], n \in read[i] PROVE FALSE
      <4>1. n \in start(h) .. position[h] - 1 /\ n \in start(i) .. position[i] - 1
        BY <2>1, <3>2
      <4>. QED
        BY <2>1, <2>2, <3>1, <4>1
    <3>. QED
      BY <3>2
  <2>5. ASSUME NEW h \in Subtasks, NEW i \in Subtasks, h # i
        PROVE  read[h] \cap read[i] = {}
    <3>1. h < i \/ i < h
      BY <2>2, <2>5
    <3>. QED
      BY <2>4, <3>1
  <2>6. ASSUME finished
        PROVE  UNION {read[i] : i \in Subtasks} = 0 .. vertex.count - 1
    <3>1. \A i \in Subtasks : read[i] = start(i) .. finish(i) - 1
      BY <2>1, <2>6 DEF finished, finish
    <3>2. vertex.count \in Nat
      BY <2>1, VertexAssumption DEF Shapes
    <3>3. ASSUME NEW n \in 0 .. vertex.count - 1
          PROVE  \E i \in Subtasks : n \in read[i]
      <4>1. PICK i \in Subtasks : start(i) <= n /\ n < finish(i)
        BY <2>1, RangesCover
      <4>. QED
        BY <2>2, <3>1, <3>2, <4>1
    <3>4. ASSUME NEW i \in Subtasks PROVE read[i] \subseteq 0 .. vertex.count - 1
      BY <2>2, <3>1, <3>2
    <3>. QED
      BY <3>3, <3>4
  <2>. QED
    BY <2>3, <2>5, <2>6 DEF EachRecordOnce
<1>. QED
  BY Invariance, <1>1, PTL
=============================================================================
