------------------------------ MODULE GraphShape ------------------------------
(***************************************************************************)
(* Workflow graphs, and what compiler.py, graph_analysis.py and the gate   *)
(* of node_executor.py ask about their shape.                              *)
(*                                                                         *)
(* Graph[w] is the graph of workflow w, a record:                          *)
(*   kind   node -> "python", "condition" or "wait"; every node type that  *)
(*          is neither of the last two behaves like "python" here          *)
(*   edges  records [from, to, handle, weight]; handle is "true", "false"  *)
(*          or "none", weight is in tenths                                 *)
(*   entry  entry nodes; in a cyclic graph they depend on the order in     *)
(*          which the depth-first search meets the nodes                   *)
(***************************************************************************)
EXTENDS Naturals, FiniteSets

CONSTANTS Nodes, Graph

Workflows == DOMAIN Graph

Kinds == {"python", "condition", "wait"}

Edge == [from : Nodes, to : Nodes, handle : {"true", "false", "none"},
         weight : 0..10]

OutEdges(w, n) == {e \in Graph[w].edges : e.from = n}

Sources(w, n) == {e.from : e \in {d \in Graph[w].edges : d.to = n}}

Preds(w, n) == Sources(w, n) \ {n}

\* Every set of nodes that holds u and is closed under the edges holds v.
Closed(w, S) == \A e \in Graph[w].edges : e.from \in S => e.to \in S

Reach ==
  {t \in Workflows \X Nodes \X Nodes :
     \A S \in SUBSET Nodes : t[2] \in S /\ Closed(t[1], S) => t[3] \in S}

\* The breadth-first search _downstream_node_ids; a node reaches itself.
Reaches(w, u, v) == <<w, u, v>> \in Reach

\* compute_sccs.
SameScc(w, u, v) == Reaches(w, u, v) /\ Reaches(w, v, u)

\* has_cycle.
Loops == {w \in Workflows : \E e \in Graph[w].edges : Reaches(w, e.to, e.from)}

Cyclic(w) == w \in Loops

\* A condition node with labelled out-edges is routed by its verdict.
IsRouter(w, n) ==
  Graph[w].kind[n] = "condition" /\ \E e \in OutEdges(w, n) : e.handle # "none"

\* Predecessors the AND-join gate waits for: not the ones that close a loop
\* from a condition node.
ForwardPreds(w, n) ==
  {p \in Preds(w, n) : ~(SameScc(w, p, n) /\ Graph[w].kind[p] = "condition")}

ASSUME NodesAssumption == IsFiniteSet(Nodes)

ASSUME GraphsAssumption ==
  \A w \in Workflows :
    /\ Graph[w].kind \in [Nodes -> Kinds]
    /\ Graph[w].edges \subseteq Edge
    /\ Graph[w].entry \subseteq Nodes
    /\ Graph[w].entry # {}
    /\ ~Cyclic(w) => Graph[w].entry = {n \in Nodes : Sources(w, n) = {}}
=============================================================================
