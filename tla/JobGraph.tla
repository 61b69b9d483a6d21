------------------------------ MODULE JobGraph ------------------------------
(***************************************************************************)
(* The graph a job is built as: pkg/graph/graph.go.  A vertex is declared  *)
(* with its kind, its parallelism, the factories that are set and, for a   *)
(* source, its intervals.  IDs are numbers, which keep the one thing the   *)
(* code uses of the strings: their lexicographic order.                    *)
(***************************************************************************)
EXTENDS Integers, Sequences, FiniteSets, SequencesExt

CONSTANTS Declarations,   \* the vertices a program may try to add
          MaxParallelism, \* maxParallelism
          MaxEdges        \* bound: edges in one graph

ASSUME GraphAssumption ==
  /\ \A d \in Declarations :
       /\ d.id \in Nat \ {0} /\ d.parallelism \in Nat
       /\ d.factories \subseteq {"source", "operator", "sink"}
       /\ d.watermarkInterval \in Int /\ d.barrierInterval \in Int
       /\ d.outOfOrderness \in Int
  /\ MaxParallelism \in Nat /\ MaxEdges \in Nat

VARIABLES vertices, \* Graph.byID: the declarations added
          edges     \* Graph.out and Graph.in: pairs of IDs

ids == {d.id : d \in vertices}
vertex(v) == CHOOSE d \in vertices : d.id = v
in(v)  == {u \in ids : <<u, v>> \in edges}
out(v) == {w \in ids : <<v, w>> \in edges}

(* Downstream: the far ends of v's edges, in ID order. *)
Downstream(v) == SetToSortSeq(out(v), LAMBDA a, b : a < b)

New == vertices = {} /\ edges = {}

AddVertex(d) ==
  /\ d.id \notin ids
  /\ vertices' = vertices \cup {d}
  /\ UNCHANGED edges

Connect(u, v) ==
  /\ u \in ids /\ v \in ids
  /\ <<u, v>> \notin edges
  /\ Cardinality(edges) < MaxEdges
  /\ edges' = edges \cup {<<u, v>>}
  /\ UNCHANGED vertices

-----------------------------------------------------------------------------
checkFactories(d) == d.factories = {d.kind}

checkSourceSettings(d) ==
  /\ d.outOfOrderness >= 0
  /\ IF d.kind = "source"
     THEN d.watermarkInterval >= 1 /\ d.barrierInterval >= 1
     ELSE d.watermarkInterval = 0 /\ d.outOfOrderness = 0 /\ d.barrierInterval = 0

(* Mutant: only operators are asked for edges on both sides. *)
BadWellConnectedIfAlone(d) ==
  CASE d.kind = "source"   -> in(d.id) = {}
    [] d.kind = "sink"     -> out(d.id) = {}
    [] d.kind = "operator" -> in(d.id) # {} /\ out(d.id) # {}

(* With errDisconnected, a source or a sink has an edge on its open side. *)
wellConnected(d) ==
  CASE d.kind = "source"   -> in(d.id) = {} /\ out(d.id) # {}
    [] d.kind = "sink"     -> out(d.id) = {} /\ in(d.id) # {}
    [] d.kind = "operator" -> in(d.id) # {} /\ out(d.id) # {}

(* Mutant: a vertex is taken once one of its predecessors has been. *)
BadReadyAfterOne(order) ==
  {v \in ids \ ToSet(order) : in(v) = {} \/ in(v) \cap ToSet(order) # {}}

(* The vertices whose in-degree the algorithm has counted down to zero. *)
ready(order) == {v \in ids \ ToSet(order) : in(v) \subseteq ToSet(order)}

(* Kahn's algorithm, the smallest ready ID first; shorter than the graph   *)
(* when a cycle remains.                                                   *)
kahn ==
  LET taken[n \in 0..Cardinality(ids)] ==
        IF n = 0 THEN << >>
        ELSE LET o == taken[n - 1]
             IN IF ready(o) = {} THEN o ELSE Append(o, Min(ready(o)))
  IN taken[Cardinality(ids)]

Validate ==
  /\ \A d \in vertices : /\ d.parallelism \in 1..MaxParallelism
                         /\ checkFactories(d) /\ checkSourceSettings(d)
                         /\ wellConnected(d)
  /\ \E d \in vertices : d.kind = "source"
  /\ \E d \in vertices : d.kind = "sink"
  /\ Len(kahn) = Cardinality(ids)
=============================================================================
