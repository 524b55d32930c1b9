---------------------------- MODULE MCGraphEngine ----------------------------
(* GraphEngine on small workflows, whose nodes are numbered.               *)
EXTENDS GraphEngineProperties, Sequences

CONSTANT LastNode

MCNodes == 1..LastNode

Step(n, to) == [from |-> n, to |-> to, handle |-> "none", weight |-> 10]

Plain(pairs) == {Step(p[1], p[2]) : p \in pairs}

\* The two branches of condition node n.
If(n, then, else) ==
  {[from |-> n, to |-> t, handle |-> "true", weight |-> 10] : t \in then}
  \cup {[from |-> n, to |-> t, handle |-> "false", weight |-> 10] : t \in else}

Kind(waits, conditions) ==
  [n \in MCNodes |-> CASE n \in waits -> "wait"
                       [] n \in conditions -> "condition"
                       [] OTHER -> "python"]

Workflow(waits, conditions, edges, entry) ==
  [kind |-> Kind(waits, conditions), edges |-> edges, entry |-> entry]

-----------------------------------------------------------------------------
(* Acyclic graphs of four nodes.                                           *)

Upward == <<<<1, 2>>, <<1, 3>>, <<1, 4>>, <<2, 3>>, <<2, 4>>, <<3, 4>>>>

\* The i-th set of edges that lead from a node to a higher one.
Pairs(i) == {Upward[k] : k \in {j \in 1..6 : (i \div 2^(j - 1)) % 2 = 1}}

\* All unconditional graphs in which these are the wait nodes.
Joins(waits) ==
  [i \in 1..64 |->
     Workflow(waits, {}, Plain(Pairs(i)), MCNodes \ {p[2] : p \in Pairs(i)})]

Branches == <<
  Workflow({}, {1}, If(1, {2}, {3}) \cup Plain({<<2, 4>>, <<3, 4>>}), {1}),
  Workflow({}, {1}, If(1, {2}, {4}) \cup Plain({<<2, 3>>, <<3, 4>>}), {1}),
  Workflow({}, {2}, If(2, {3}, {4}) \cup Plain({<<1, 2>>, <<1, 4>>}), {1}),
  Workflow({}, {2}, If(2, {3, 4}, {3}) \cup Plain({<<1, 4>>, <<3, 4>>}), {1, 2})>>

\* Node 1 fans out with weights v and w.
FanOut(waits, v, w) ==
  Workflow(waits, {},
           {[Step(1, 2) EXCEPT !.weight = v], [Step(1, 3) EXCEPT !.weight = w]}
           \cup Plain({<<2, 4>>, <<3, 4>>}), {1})

FanOuts ==
  <<FanOut({}, 0, 0), FanOut({}, 0, 10), FanOut({}, 3, 5), FanOut({}, 8, 5),
    FanOut({}, 8, 7), FanOut({1}, 8, 5)>>

Waits == <<
  Workflow({2}, {}, Plain({<<1, 2>>, <<1, 3>>, <<2, 4>>, <<3, 4>>}), {1}),
  Workflow({2, 3}, {}, Plain({<<1, 2>>, <<1, 3>>, <<2, 4>>, <<3, 4>>}), {1}),
  Workflow({1}, {}, Plain({<<1, 2>>, <<2, 3>>, <<1, 3>>, <<3, 4>>}), {1}),
  Workflow({1, 3}, {}, Plain({<<1, 2>>, <<2, 3>>, <<3, 4>>}), {1}),
  Workflow({1}, {2}, Plain({<<1, 2>>}) \cup If(2, {3}, {4}), {1}),
  Workflow({2}, {1}, If(1, {2}, {3}) \cup Plain({<<2, 4>>, <<3, 4>>}), {1})>>

AcyclicGraphs ==
  Waits \o FanOuts \o Branches \o Joins({}) \o Joins({2}) \o Joins({3})

-----------------------------------------------------------------------------
(* Loops.                                                                  *)

\* 1 -> 2 -> 3, back to 2 on true, on to 4 on false; and the search may
\* take another edge for the one that closes the loop.
Loop(waits, entry) ==
  Workflow(waits, {3}, Plain({<<1, 2>>, <<2, 3>>}) \cup If(3, {2}, {4}), entry)

\* A wait node between two conditions, the second of which repeats itself or
\* goes back to the start: once suspended it stays so, its own output being
\* one of its inputs.
SuspendedLoop ==
  Workflow({3}, {2, 4},
           Plain({<<1, 2>>, <<3, 4>>}) \cup If(2, {}, {3}) \cup If(4, {1}, {4}), {1})

LoopGraphs ==
  <<Loop({}, {1}), Loop({}, {1, 3}), Loop({1}, {1}), Loop({2}, {1}), SuspendedLoop>>

-----------------------------------------------------------------------------
AllGraphs == LoopGraphs \o AcyclicGraphs

\* TLC evaluates AllGraphs once, and what replaces a constant at every use.
MCGraph == AllGraphs

MCFaulty == 1..48

MCErrorProne == 21..153
=============================================================================
