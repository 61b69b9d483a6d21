-------------------------------- MODULE MCJob --------------------------------
(***************************************************************************)
(* Three jobs.  Join: sources a and b, of different lengths, into one      *)
(* operator j and a sink of one subtask.  Chain: source a alone, through j *)
(* to a sink of two subtasks.  Map: source a goes through an operator m of *)
(* its own before it meets b at j, and the sink has one subtask.           *)
(***************************************************************************)
EXTENDS Job

CONSTANTS a, b, j, m, s1, s2

JoinUp == (a :> {}) @@ (b :> {}) @@ (j :> {a, b}) @@ (s1 :> {j})

JoinDest(u, r) == IF u # j THEN {j} ELSE {s1}

(* The sink's two subtasks share the records by a hash of the key. *)
ChainDest(u, r) == IF u # j THEN {j} ELSE IF r[2] # 2 THEN {s1} ELSE {s2}

ChainUp == (a :> {}) @@ (j :> {a}) @@ (s1 :> {j}) @@ (s2 :> {j})

MapUp == (a :> {}) @@ (b :> {}) @@ (m :> {a}) @@ (j :> {m, b}) @@ (s1 :> {j})

MapDest(u, r) == CASE u = a -> {m} [] u \in {b, m} -> {j} [] u = j -> {s1}

RecordsOf(count) == UNION {{<<s, n>> : n \in 1..count[s]} : s \in DOMAIN count}

OneAndTwo == (a :> 1) @@ (b :> 2)
One       == (a :> 1) @@ (b :> 1)
TwoAlone  == (a :> 2)

OneAndTwoRecords == RecordsOf(OneAndTwo)
TwoAloneRecords  == RecordsOf(TwoAlone)
=============================================================================
