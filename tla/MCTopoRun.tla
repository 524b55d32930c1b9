------------------------------ MODULE MCTopoRun ------------------------------
(* Three nodes: a plain one (1), an iterator (2) and a workflow node (3).  The *)
(* graphs are those in which the walk differs: a node with two parents of      *)
(* different depth, both orders of iterator and workflow node, a cycle below   *)
(* an entry, and no entry at all.                                              *)
EXTENDS TopoRun
ShapeGraphs == {
    {<<1, 2>>, <<1, 3>>, <<2, 3>>},
    {<<3, 2>>, <<2, 1>>},
    {<<3, 1>>, <<2, 1>>},
    {<<1, 3>>, <<3, 2>>, <<2, 3>>},
    {<<1, 2>>, <<2, 3>>, <<3, 1>>}}
=============================================================================
