------------------------------- MODULE TopoRun -------------------------------
(***************************************************************************)
(* The executor a graph activity falls back to when the graph cannot be    *)
(* compiled, _execute_manual_topo, with the two kinds of node whose body   *)
(* is a run of its own: iterator nodes (_process_with_iterator) and        *)
(* workflow nodes, which execute another workflow's graph inside the same  *)
(* activity and keep a run_history row for it (_run_subworkflow,           *)
(* _update_child_run_results).  All of it is in                            *)
(* services/temporal/activities/node_executor.py.                          *)
(*                                                                         *)
(* The walk is sequential.  What interleaves with it, at the awaits of     *)
(* node bodies, are the cancellation of the activity, the death of its     *)
(* worker, after which Temporal starts the activity afresh, and a user who *)
(* cancels the child run on its own.  A run that did not succeed may be    *)
(* resumed: a new run starts with the outputs of its last snapshot.        *)
(*                                                                         *)
(* Values are abstracted to "an output" and "an output with an error".     *)
(* MaxItems bounds the iterator's array, MaxFaults the failing writes to   *)
(* child rows, MaxCrashes and MaxResumes the attempts and runs.            *)
(***************************************************************************)
EXTENDS Naturals, Sequences, FiniteSets, Functions

CONSTANTS
    N,           \* nodes of the graph: 1 .. N
    Graphs,      \* the sets of edges considered
    IterNodes,   \* nodes with iterator.enabled
    SubNodes,    \* nodes of type "workflow_node"
    MaxItems, MaxFaults, MaxCrashes, MaxResumes

Nodes == 1 .. N

\* A child row per visit of a workflow node in each attempt at most.
Children == 1 .. (MaxCrashes + MaxResumes + 1) * Cardinality(SubNodes)

ASSUME TopoAssumption ==
    /\ N \in Nat
    /\ \A g \in Graphs : g \subseteq Nodes \X Nodes
    /\ IterNodes \subseteq Nodes /\ SubNodes \subseteq Nodes
    /\ {MaxItems, MaxFaults, MaxCrashes, MaxResumes} \subseteq Nat

VARIABLES
    edges,     \* the graph's edges
    strategy,  \* iterator.error_strategy: "continue" | "stop"
    initial,   \* node_outputs of initial_state
    act,       \* the activity: "idle" | "walk" | "body" | "iter" | "child" |
               \* "ended" | "raised" | "cancelled" | "crashed"
    cur,       \* the node being executed, or 0
    indeg, queue, outs,          \* in_degree, queue, state["node_outputs"]
    snap,      \* node_outputs of the snapshot last written
    item,      \* items of the iterator processed
    row,       \* per child row: its status ("none" before it is created)
    kept,      \* per child row: its snapshot holds outputs
    truth,     \* per child row: how the child's graph came out
    child,     \* the row of the child being executed, or 0
    of,        \* per node: the child_run_id in its output, or 0
    faults, crashes, resumes

graphVars == <<edges, strategy>>
walkVars  == <<cur, indeg, queue, outs>>
rowVars   == <<row, kept, truth, child>>
budget    == <<faults, crashes, resumes>>
vars == <<graphVars, initial, act, walkVars, snap, item, rowVars, of, budget>>

Preds(n) == {p \in Nodes : <<p, n>> \in edges}
Succs(n) == {s \in Nodes : <<n, s>> \in edges}
Entries  == {n \in Nodes : Preds(n) = {}}

\* The sequences in which nodes may be queued together: the entries come from
\* a set, the children of a node in the order in which the edges are listed.
Orders(S) == Bijection(1 .. Cardinality(S), S)

Blank(v) == [n \in Nodes |-> v]

Init ==
    /\ edges \in Graphs /\ strategy \in {"continue", "stop"}
    /\ initial = Blank("none")
    /\ act = "idle" /\ cur = 0 /\ queue = <<>> /\ indeg = Blank(0)
    /\ outs = Blank("none") /\ snap = Blank("none")
    /\ item = 0
    /\ row = [c \in Children |-> "none"] /\ kept = [c \in Children |-> FALSE]
    /\ truth = [c \in Children |-> "none"] /\ child = 0 /\ of = Blank(0)
    /\ faults = 0 /\ crashes = 0 /\ resumes = 0

-----------------------------------------------------------------------------
\* The walk.

\* An attempt begins.  Without an entry node the activity fails.
Begin ==
    /\ act = "idle"
    /\ indeg' = [n \in Nodes |-> Cardinality(Preds(n))]
    /\ queue' \in Orders(Entries)
    /\ outs' = initial
    /\ act' = IF Entries = {} THEN "raised" ELSE "walk"
    /\ UNCHANGED <<graphVars, initial, cur, snap, item, rowVars, of, budget>>

\* Mutant: a child is queued when the first of its parents is done.
ReleaseAtOnce(n, q) ==
    /\ indeg' = [s \in Nodes |-> IF s \in Succs(n) THEN 0 ELSE indeg[s]]
    /\ \E new \in Orders({s \in Succs(n) : indeg[s] > 0}) : queue' = q \o new

\* Mutant: every child is queued, whatever its in-degree.
ReleaseAgain(n, q) ==
    /\ indeg' = [s \in Nodes |-> IF s \in Succs(n) THEN 0 ELSE indeg[s]]
    /\ \E new \in Orders(Succs(n)) : queue' = q \o new

\* Mutant: the in-degree is compared before it is decremented.
ReleaseLate(n, q) ==
    /\ indeg' = [s \in Nodes |-> IF s \in Succs(n) THEN indeg[s] - 1 ELSE indeg[s]]
    /\ \E new \in Orders({s \in Succs(n) : indeg[s] = 0}) : queue' = q \o new

\* The children of n are released; those that wait for nothing else are queued.
Release(n, q) ==
    /\ indeg' = [s \in Nodes |-> IF s \in Succs(n) THEN indeg[s] - 1 ELSE indeg[s]]
    /\ \E new \in Orders({s \in Succs(n) : indeg[s] = 1}) : queue' = q \o new

\* A node with an output and no error is not executed again.
Skip ==
    /\ act = "walk" /\ queue # <<>> /\ outs[Head(queue)] = "ok"
    /\ Release(Head(queue), Tail(queue))
    /\ UNCHANGED <<graphVars, initial, act, cur, outs, snap, item, rowVars, of, budget>>

Execute ==
    /\ act = "walk" /\ queue # <<>> /\ outs[Head(queue)] # "ok"
    /\ cur' = Head(queue) /\ queue' = Tail(queue)
    /\ act' = IF cur' \in IterNodes THEN "iter"
              ELSE IF cur' \in SubNodes THEN "child" ELSE "body"
    /\ item' = 0
    /\ UNCHANGED <<graphVars, initial, indeg, outs, snap, rowVars, of, budget>>

\* The current node's output is stored, its children are released and a partial
\* snapshot is written.
Store(o) ==
    /\ outs' = [outs EXCEPT ![cur] = o]
    /\ snap' = outs'
    /\ Release(cur, queue)
    /\ cur' = 0 /\ act' = "walk"

\* Any other node: its activity function returns or raises (for types the walk
\* does not know, a wait node's for one, always); an error is an output too.
Body ==
    /\ act = "body"
    /\ \E o \in {"ok", "error"} : Store(o)
    /\ UNCHANGED <<graphVars, initial, item, rowVars, of, budget>>

\* The queue is empty: the final state is returned and persisted.
EndWalk ==
    /\ act = "walk" /\ queue = <<>>
    /\ act' = "ended" /\ snap' = outs
    /\ UNCHANGED <<graphVars, initial, walkVars, item, rowVars, of, budget>>

-----------------------------------------------------------------------------
\* The iterator.

\* The source has no array: the exception leaves the walk.
NoArray ==
    /\ act = "iter" /\ item = 0
    /\ act' = "raised" /\ cur' = 0
    /\ UNCHANGED <<graphVars, initial, indeg, queue, outs, snap, item, rowVars, of, budget>>

\* An item is processed.  A Python item whose script fails returns normally too.
ItemOk ==
    /\ act = "iter" /\ item < MaxItems
    /\ item' = item + 1
    /\ UNCHANGED <<graphVars, initial, act, walkVars, snap, rowVars, of, budget>>

\* An item raises: it is recorded among the results, or the exception leaves
\* the walk.
ItemRaises ==
    /\ act = "iter" /\ item < MaxItems
    /\ IF strategy = "stop"
       THEN act' = "raised" /\ cur' = 0 /\ UNCHANGED item
       ELSE item' = item + 1 /\ UNCHANGED <<act, cur>>
    /\ UNCHANGED <<graphVars, initial, indeg, queue, outs, snap, rowVars, of, budget>>

\* The array is through (it may be shorter); failed items do not make the
\* node's output an error.
IterEnds ==
    /\ act = "iter"
    /\ Store("ok")
    /\ UNCHANGED <<graphVars, initial, item, rowVars, of, budget>>

-----------------------------------------------------------------------------
\* The workflow node.

\* The node names no workflow: the exception leaves the walk.
ChildUnset ==
    /\ act = "child" /\ child = 0
    /\ act' = "raised" /\ cur' = 0
    /\ UNCHANGED <<graphVars, initial, indeg, queue, outs, snap, item, rowVars, of, budget>>

\* The child workflow has no nodes: no row is made.
ChildEmpty ==
    /\ act = "child" /\ child = 0
    /\ Store("ok")
    /\ of' = [of EXCEPT ![cur] = 0]
    /\ UNCHANGED <<graphVars, initial, item, rowVars, budget>>

ChildCreate ==
    /\ act = "child" /\ child = 0
    /\ \/ /\ \E c \in Children :
                /\ row[c] = "none" /\ (c > 1 => row[c - 1] # "none")
                /\ row' = [row EXCEPT ![c] = "running"] /\ child' = c
          /\ UNCHANGED <<walkVars, act, snap, faults>>
       \/ /\ faults < MaxFaults /\ faults' = faults + 1
          /\ Store("error")
          /\ UNCHANGED <<row, child>>
    /\ UNCHANGED <<graphVars, initial, item, kept, truth, of, crashes, resumes>>

\* A superstep of the child is over; its snapshot is written if it is running.
ChildChunk ==
    /\ act = "child" /\ child # 0 /\ row[child] = "running" /\ ~kept[child]
    /\ kept' = [kept EXCEPT ![child] = TRUE]
    /\ UNCHANGED <<graphVars, initial, act, walkVars, snap, item, row, truth,
                   child, of, budget>>

\* Mutant: a row that is no longer running is left as it is.
UpdateRunningOnly(c, s) ==
    /\ row' = [row EXCEPT ![c] = IF @ = "running" THEN s ELSE @]
    /\ UNCHANGED kept

\* _update_child_run_results; an error that brings no outputs keeps those that
\* are there, and the run counts as cancelled.
Update(c, s) ==
    /\ row' = [row EXCEPT ![c] = IF s = "error" /\ kept[c] THEN "cancelled" ELSE s]
    /\ UNCHANGED kept

ChildOver(c, t) == truth' = [truth EXCEPT ![c] = t] /\ child' = 0

\* The child's graph comes to its end, suspends at a wait node, or fails, which
\* _execute_with_langgraph reports in the state it returns: the row is a success
\* in each case.
ChildReturns(t) ==
    /\ act = "child" /\ child # 0
    /\ ChildOver(child, t)
    /\ Update(child, "success")
    /\ of' = [of EXCEPT ![cur] = child]
    /\ Store("ok")
    /\ UNCHANGED <<graphVars, initial, item, budget>>

\* It cannot be compiled: the exception is recorded in the row and in the node.
ChildRaises ==
    /\ act = "child" /\ child # 0 /\ ~kept[child]
    /\ ChildOver(child, "raised")
    /\ Update(child, "error")
    /\ Store("error")
    /\ UNCHANGED <<graphVars, initial, item, of, budget>>

\* The row's update fails; the handler tries once more, with an error.
ChildUnsaved(t, again) ==
    /\ act = "child" /\ child # 0
    /\ faults' = faults + (IF again THEN 2 ELSE 1) /\ faults' <= MaxFaults
    /\ ChildOver(child, t)
    /\ IF again THEN UNCHANGED <<row, kept>> ELSE Update(child, "error")
    /\ Store("error")
    /\ UNCHANGED <<graphVars, initial, item, of, crashes, resumes>>

\* cancel_run on the child: it has no Temporal workflow to cancel.
UserCancelsChild ==
    /\ act = "child" /\ child # 0 /\ row[child] = "running"
    /\ row' = [row EXCEPT ![child] = "cancelled"]
    /\ UNCHANGED <<graphVars, initial, act, walkVars, snap, item, kept, truth,
                   child, of, budget>>

-----------------------------------------------------------------------------
\* The activity.

Awaits == {"body", "iter", "child"}

\* Mutant: the row of the child is forgotten.
CancelForgetsChild ==
    /\ act \in Awaits
    /\ act' = "cancelled" /\ cur' = 0 /\ child' = 0
    /\ UNCHANGED <<graphVars, initial, indeg, queue, outs, snap, item, row, kept,
                   truth, of, budget>>

\* CancelledError leaves the walk; a child that has a row persists it first.
Cancel ==
    /\ act \in Awaits
    /\ act' = "cancelled" /\ cur' = 0 /\ child' = 0
    /\ row' = IF child = 0 THEN row ELSE [row EXCEPT ![child] = "cancelled"]
    /\ UNCHANGED <<graphVars, initial, indeg, queue, outs, snap, item, kept,
                   truth, of, budget>>

\* If that fails, the database's exception takes the place of the cancellation:
\* the node has an error and the walk goes on.  The child's own activity code may
\* have marked the row before.
CancelLost ==
    /\ act = "child" /\ child # 0
    /\ faults < MaxFaults /\ faults' = faults + 1
    /\ row' \in {row, [row EXCEPT ![child] = "cancelled"]}
    /\ ChildOver(child, "raised")
    /\ Store("error")
    /\ UNCHANGED <<graphVars, initial, item, kept, of, crashes, resumes>>

\* CancelledError while the outcome of a child that is over is published.
CancelPublish(s) ==
    /\ act = "child" /\ child # 0
    /\ s = "error" => ~kept[child]
    /\ ChildOver(child, IF s = "error" THEN "raised" ELSE "finished")
    /\ Update(child, s)
    /\ act' = "cancelled" /\ cur' = 0
    /\ UNCHANGED <<graphVars, initial, indeg, queue, outs, snap, item, of, budget>>

Crash ==
    /\ act \in Awaits /\ crashes < MaxCrashes
    /\ act' = "crashed" /\ cur' = 0 /\ child' = 0 /\ crashes' = crashes + 1
    /\ UNCHANGED <<graphVars, initial, indeg, queue, outs, snap, item, row,
                   kept, truth, of, faults, resumes>>

\* Temporal starts the activity again, with the same arguments.
Retry ==
    /\ act = "crashed"
    /\ act' = "idle"
    /\ UNCHANGED <<graphVars, initial, walkVars, snap, item, rowVars, of, budget>>

\* create_run_resume_from: a new run with the outputs of the snapshot, if any.
Resume ==
    /\ act \in {"raised", "cancelled"} \/ (act = "ended" /\ \E n \in Nodes : outs[n] = "error")
    /\ (\E n \in Nodes : snap[n] # "none") /\ resumes < MaxResumes
    /\ resumes' = resumes + 1
    /\ initial' = snap /\ act' = "idle"
    /\ UNCHANGED <<graphVars, walkVars, snap, item, rowVars, of, faults, crashes>>

Walk ==
    \/ Begin \/ Skip \/ Execute \/ Body \/ EndWalk
    \/ NoArray \/ ItemOk \/ ItemRaises \/ IterEnds
    \/ ChildUnset \/ ChildEmpty \/ ChildCreate \/ ChildChunk \/ ChildRaises
    \/ \E t \in {"finished", "suspended", "failed"} :
          ChildReturns(t) \/ \E again \in BOOLEAN : ChildUnsaved(t, again)

Stopped == act \in {"ended", "raised", "cancelled"} /\ UNCHANGED vars

Next ==
    \/ Walk \/ UserCancelsChild \/ Crash \/ Retry \/ Resume \/ Stopped
    \/ Cancel \/ CancelLost \/ \E s \in {"success", "error"} : CancelPublish(s)

\* Node bodies return, and Temporal retries.
Spec == Init /\ [][Next]_vars /\ WF_vars(Walk) /\ WF_vars(Retry)

-----------------------------------------------------------------------------
\* The nodes upstream of n: in every set that holds its predecessors, and with
\* a node those of the node.
Above(n) ==
    {p \in Nodes : \A S \in SUBSET Nodes :
        Preds(n) \subseteq S /\ (\A s \in S : Preds(s) \subseteq S) => p \in S}

\* A node is executed when every node upstream of it has an output, and, in a
\* run that was not resumed, one that this attempt has produced.
UpstreamFirst ==
    [][cur' # cur /\ cur' # 0 =>
          \A p \in Above(cur') : outs[p] # "none" /\ p # cur']_vars

\* A walk that ends has an output for exactly the nodes no cycle is upstream of:
\* the others are passed over without a word (the fallback is meant for acyclic
\* graphs).
WalkIsComplete ==
    act = "ended" =>
        {n \in Nodes : outs[n] # "none"} =
            {n \in Nodes : \A m \in Above(n) \union {n} : m \notin Above(m)}

\* A child row that is still running has an activity at work on it, except for
\* those left by a worker that died and by a database that failed, twice in a row
\* or while the child was being cancelled.
ChildRowsEnd ==
    Cardinality({c \in Children : row[c] = "running" /\ c # child})
        <= crashes + faults

\* A workflow node with an output names a child run whose row is a success, or
\* none because the child has no nodes; also when a user has cancelled the child
\* meanwhile, and in every later attempt and resumed run.
OutputNamesSuccess ==
    \A n \in SubNodes : (outs[n] = "ok" /\ of[n] # 0) => row[of[n]] = "success"

\* Every activity comes to an end.
WalkEnds == (act = "idle") ~> (act \in {"ended", "raised", "cancelled"})
=============================================================================
