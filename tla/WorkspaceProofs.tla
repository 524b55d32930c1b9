---------------------------- MODULE WorkspaceProofs ----------------------------
(***************************************************************************)
(* Integrity of the workspace tables, for any sets of workflows, nodes and *)
(* templates and any number of requests.                                   *)
(*                                                                         *)
(* Integrity is inductive as it stands.  RowsInv is the part of it about   *)
(* node and edge rows, TemplatesInv the part about templates: a request    *)
(* either adds rows (Insert, InsertCopy), takes some away, or changes      *)
(* templates, and there is a lemma for each.  The last section is about    *)
(* the search for cycles of references between workflows.                  *)
(***************************************************************************)
EXTENDS Workspace, TLAPS

RowsInv ==
    /\ home \in [Nodes -> Workflows \union {None}]
    /\ alive \subseteq {n \in Nodes : home[n] # None}
    /\ ref \in [Nodes -> Workflows \union {None}]
    /\ edges \subseteq Workflows \X Nodes \X Nodes
    /\ EdgesJoinLiveNodes

WorkflowsInv == wf \in [Workflows -> {"none", "live", "deleted"}]

TemplatesInv == tpl \in [Templates -> Template] /\ SnapshotsAreClosed

\* Integrity is the conjunction of these.
LEMMA IntegrityParts ==
    Integrity <=> RowsInv /\ WorkflowsInv /\ TemplatesInv /\ saved \in BOOLEAN
BY DEF Integrity, TypeOK, RowsInv, WorkflowsInv, TemplatesInv

\* The same of the state a step leads to.
LEMMA IntegrityRestored ==
    ASSUME RowsInv', WorkflowsInv', TemplatesInv', saved' \in BOOLEAN
    PROVE  Integrity'
BY DEF Integrity, TypeOK, RowsInv, WorkflowsInv, TemplatesInv

-----------------------------------------------------------------------------
\* Rows.

\* Edges may be deleted, and references changed, at any time.
LEMMA EdgesTaken ==
    ASSUME RowsInv, home' = home, alive' = alive, edges' \subseteq edges,
           ref' \in [Nodes -> Workflows \union {None}]
    PROVE  RowsInv'
BY DEF RowsInv, EdgesJoinLiveNodes, NodesOf

\* New nodes are none of those that edges join.
LEMMA RowInserted ==
    ASSUME RowsInv, NEW w \in Workflows, NEW n \in Nodes,
           NEW r \in Workflows \union {None}, Insert(n, w, r), edges' = edges
    PROVE  RowsInv'
<1>1. /\ home' \in [Nodes -> Workflows \union {None}]
      /\ ref' \in [Nodes -> Workflows \union {None}]
      /\ edges' \subseteq Workflows \X Nodes \X Nodes
  BY DEF RowsInv, Insert
<1>2. alive' \subseteq {m \in Nodes : home'[m] # None}
  BY NoneAssumption DEF RowsInv, Insert
<1>3. \A x \in Workflows : NodesOf(x) \subseteq NodesOf(x)'
  BY NoneAssumption DEF RowsInv, Insert, NodesOf
<1>4. EdgesJoinLiveNodes'
  BY <1>3 DEF RowsInv, Insert, EdgesJoinLiveNodes
<1> QED BY <1>1, <1>2, <1>4 DEF RowsInv

\* What deletion of a node takes away is every edge it is an end of.
LEMMA RowDeleted ==
    ASSUME RowsInv, NEW n \in Nodes, DeleteNode(n)
    PROVE  RowsInv'
<1>1. /\ home' = home /\ ref' = ref /\ alive' = alive \ {n} /\ edges' \subseteq edges
  BY DEF DeleteNode
<1>2. ASSUME NEW e \in edges'
      PROVE  e[2] \in NodesOf(e[1])' /\ e[3] \in NodesOf(e[1])'
  <2>1. e \in edges /\ ~(e[1] = home[n] /\ (e[2] = n \/ e[3] = n))
    BY <1>2 DEF DeleteNode
  <2>2. e[2] \in NodesOf(e[1]) /\ e[3] \in NodesOf(e[1])
    BY <2>1 DEF RowsInv, EdgesJoinLiveNodes
  <2> QED BY <1>1, <2>1, <2>2 DEF NodesOf
<1> QED BY <1>1, <1>2 DEF RowsInv, EdgesJoinLiveNodes

\* The ends of an edge of a copied graph.
LEMMA CopiedEnds ==
    ASSUME NEW S \in Graph, NEW f, NEW w, DOMAIN f = S.nodes,
           NEW e \in CopiedEdges(S, f, w)
    PROVE  /\ e = <<w, e[2], e[3]>>
           /\ e[2] \in Range(f) /\ e[3] \in Range(f)
BY DEF CopiedEdges, Range

\* The references of copied nodes are those of the graph they are copied from.
LEMMA CopiedReference ==
    ASSUME NEW S \in Graph, NEW f, DOMAIN f = S.nodes, NEW n \in Range(f)
    PROVE  S.ref[CHOOSE s \in S.nodes : f[s] = n] \in Workflows \union {None}
<1>1. \E s \in S.nodes : f[s] = n
  BY DEF Range
<1>2. (CHOOSE s \in S.nodes : f[s] = n) \in S.nodes
  BY <1>1
<1>3. S.nodes \subseteq Nodes /\ S.ref \in [Nodes -> Workflows \union {None}]
  BY DEF Graph
<1> QED BY <1>2, <1>3

\* A graph is copied into a workflow, and its edges or none of them.
LEMMA GraphCopied ==
    ASSUME RowsInv, NEW S \in Graph, NEW w \in Workflows,
           NEW f \in [S.nodes -> Free], InsertCopy(S, f, w),
           edges' \subseteq edges \union CopiedEdges(S, f, w)
    PROVE  RowsInv'
<1>1. Range(f) \subseteq Free
  BY DEF Range
<1>2. /\ home' = [n \in Nodes |-> IF n \in Range(f) THEN w ELSE home[n]]
      /\ alive' = alive \union Range(f)
  BY DEF InsertCopy
<1>3. ref' \in [Nodes -> Workflows \union {None}]
  <2>1. ref' = [n \in Nodes |-> IF n \in Range(f)
                   THEN S.ref[CHOOSE s \in S.nodes : f[s] = n] ELSE ref[n]]
    BY DEF InsertCopy
  <2>2. \A n \in Range(f) :
           S.ref[CHOOSE s \in S.nodes : f[s] = n] \in Workflows \union {None}
    BY CopiedReference
  <2> QED BY <2>1, <2>2 DEF RowsInv
<1>4. /\ home' \in [Nodes -> Workflows \union {None}]
      /\ alive' \subseteq {n \in Nodes : home'[n] # None}
  BY <1>1, <1>2, NoneAssumption DEF RowsInv, Free
<1>5. \A x \in Workflows : NodesOf(x) \subseteq NodesOf(x)'
  BY <1>1, <1>2, NoneAssumption DEF RowsInv, Free, NodesOf
<1>6. Range(f) \subseteq NodesOf(w)'
  BY <1>1, <1>2 DEF Free, NodesOf
<1>7. ASSUME NEW e \in edges'
      PROVE  /\ e \in Workflows \X Nodes \X Nodes
             /\ e[2] \in NodesOf(e[1])' /\ e[3] \in NodesOf(e[1])'
  <2>1. CASE e \in edges
    BY <2>1, <1>5 DEF RowsInv, EdgesJoinLiveNodes
  <2>2. CASE e \in CopiedEdges(S, f, w)
    <3>1. e = <<w, e[2], e[3]>> /\ e[2] \in Range(f) /\ e[3] \in Range(f)
      BY <2>2, CopiedEnds
    <3> QED BY <3>1, <1>1, <1>6 DEF Free
  <2> QED BY <2>1, <2>2
<1> QED BY <1>3, <1>4, <1>7 DEF RowsInv, EdgesJoinLiveNodes

\* A copy into a new workflow, broken off after any of its commits.
LEMMA CopyPreserves ==
    ASSUME RowsInv, WorkflowsInv, NEW S \in Graph, NEW x \in Workflows,
           NEW f \in [S.nodes -> Free], NEW commits \in 1 .. 4, CopyTo(S, f, x, commits)
    PROVE  RowsInv' /\ WorkflowsInv'
<1>1. WorkflowsInv'
  BY DEF CopyTo, WorkflowsInv
<1>2. CASE commits >= 2
  <2>1. InsertCopy(S, f, x) /\ edges' \subseteq edges \union CopiedEdges(S, f, x)
    BY <1>2 DEF CopyTo
  <2> QED BY <1>1, <2>1, GraphCopied
<1>3. CASE ~(commits >= 2)
  <2>1. commits < 3
    BY <1>3
  <2>2. UNCHANGED <<home, ref, alive>> /\ edges' = edges
    BY <1>3, <2>1 DEF CopyTo
  <2> QED BY <1>1, <2>2, EdgesTaken DEF RowsInv
<1> QED BY <1>2, <1>3

\* A workflow node comes with a copy of its own: the copy, and then the node.
LEMMA SubWorkflowPreserves ==
    ASSUME RowsInv, WorkflowsInv, NEW S \in Graph, NEW x \in Workflows,
           NEW w \in Workflows, NEW n \in Nodes, NEW f \in [S.nodes -> Free],
           home[n] = None, n \notin Range(f),
           home' = [m \in Nodes |-> IF m \in Range(f) THEN x
                                    ELSE IF m = n THEN w ELSE home[m]],
           ref' = [m \in Nodes |-> IF m \in Range(f)
                      THEN S.ref[CHOOSE s \in S.nodes : f[s] = m]
                      ELSE IF m = n THEN x ELSE ref[m]],
           alive' = alive \union Range(f) \union {n},
           edges' = edges \union CopiedEdges(S, f, x)
    PROVE  RowsInv'
<1>1. Range(f) \subseteq Free
  BY DEF Range
<1>2. ref' \in [Nodes -> Workflows \union {None}]
  <2>1. \A m \in Range(f) :
           S.ref[CHOOSE s \in S.nodes : f[s] = m] \in Workflows \union {None}
    BY CopiedReference
  <2> QED BY <2>1 DEF RowsInv
<1>3. /\ home' \in [Nodes -> Workflows \union {None}]
      /\ alive' \subseteq {m \in Nodes : home'[m] # None}
  BY <1>1, NoneAssumption DEF RowsInv, Free
<1>4. \A y \in Workflows : NodesOf(y) \subseteq NodesOf(y)'
  BY <1>1, NoneAssumption DEF RowsInv, Free, NodesOf
<1>5. Range(f) \subseteq NodesOf(x)'
  BY <1>1 DEF Free, NodesOf
<1>6. ASSUME NEW e \in edges'
      PROVE  /\ e \in Workflows \X Nodes \X Nodes
             /\ e[2] \in NodesOf(e[1])' /\ e[3] \in NodesOf(e[1])'
  <2>1. CASE e \in edges
    BY <2>1, <1>4 DEF RowsInv, EdgesJoinLiveNodes
  <2>2. CASE e \in CopiedEdges(S, f, x)
    <3>1. e = <<x, e[2], e[3]>> /\ e[2] \in Range(f) /\ e[3] \in Range(f)
      BY <2>2, CopiedEnds
    <3> QED BY <3>1, <1>1, <1>5 DEF Free
  <2> QED BY <2>1, <2>2
<1> QED BY <1>2, <1>3, <1>6 DEF RowsInv, EdgesJoinLiveNodes

-----------------------------------------------------------------------------
\* Templates.

\* The graph of a workflow is closed because its edges join its own live nodes.
LEMMA LiveIsClosed ==
    ASSUME RowsInv, NEW w \in Workflows
    PROVE  Live(w) \in Graph /\ Closed(Live(w))
<1>1. NodesOf(w) \subseteq Nodes
  BY DEF RowsInv, NodesOf
<1>2. Live(w) \in Graph
  BY <1>1 DEF RowsInv, Live, Graph
<1>3. ASSUME NEW e \in Live(w).edges
      PROVE  e[1] \in NodesOf(w) /\ e[2] \in NodesOf(w)
  <2>1. <<w, e[1], e[2]>> \in edges
    BY <1>3 DEF Live
  <2> QED BY <2>1 DEF RowsInv, EdgesJoinLiveNodes
<1> QED BY <1>2, <1>3 DEF Closed, Live

\* The snapshot of a template that exists, or is about to, is a graph.
LEMMA SnapshotIsGraph ==
    ASSUME TemplatesInv, NEW t \in Templates, NEW f \in Maps(t)
    PROVE  tpl[t].snap \in Graph /\ f \in [tpl[t].snap.nodes -> Free]
BY DEF TemplatesInv, Template, Maps, Injection

\* A template takes a new snapshot.
LEMMA SnapshotTaken ==
    ASSUME RowsInv, TemplatesInv, NEW w \in Workflows, NEW t \in Templates,
           SaveWorkflowAsTemplate(w, t) \/ SaveTemplateFromWorkflow(w, t)
    PROVE  TemplatesInv'
<1> DEFINE S == Live(w)
<1>1. S \in Graph /\ Closed(S)
  BY LiveIsClosed
<1>2. CASE SaveWorkflowAsTemplate(w, t)
  <2>1. tpl' = [tpl EXCEPT ![t] = [state |-> "active", origin |-> w, snap |-> S]]
    BY <1>2 DEF SaveWorkflowAsTemplate, SnapshotOf
  <2> HIDE DEF S
  <2>2. [state |-> "active", origin |-> w, snap |-> S] \in Template
    BY <1>1 DEF Template
  <2>3. tpl' \in [Templates -> Template]
    BY <2>1, <2>2 DEF TemplatesInv
  <2>4. \A u \in Templates : Closed(tpl'[u].snap)
    BY <2>1, <1>1 DEF TemplatesInv, SnapshotsAreClosed
  <2> QED BY <2>3, <2>4 DEF TemplatesInv, SnapshotsAreClosed, Closed
<1>3. CASE SaveTemplateFromWorkflow(w, t)
  <2>1. tpl' = [tpl EXCEPT ![t].snap = S]
    BY <1>3 DEF SaveTemplateFromWorkflow, SnapshotOf
  <2> HIDE DEF S
  <2>2. tpl' \in [Templates -> Template]
    BY <2>1, <1>1 DEF TemplatesInv, Template
  <2>3. \A u \in Templates : Closed(tpl'[u].snap)
    BY <2>1, <1>1 DEF TemplatesInv, SnapshotsAreClosed, Template
  <2> QED BY <2>2, <2>3 DEF TemplatesInv, SnapshotsAreClosed, Closed
<1> QED BY <1>2, <1>3

-----------------------------------------------------------------------------
\* Steps.

LEMMA Initially == Init => Integrity
<1> SUFFICES ASSUME Init PROVE Integrity
  OBVIOUS
<1>1. Empty \in Graph /\ Closed(Empty)
  BY DEF Empty, Graph, Closed
<1>2. TemplatesInv
  <2> DEFINE blank == [state |-> "none", origin |-> None, snap |-> Empty]
  <2>1. tpl = [t \in Templates |-> blank]
    BY DEF Init
  <2>2. blank \in Template
    BY <1>1 DEF Template
  <2>3. blank.snap = Empty
    OBVIOUS
  <2> HIDE DEF blank
  <2>4. tpl \in [Templates -> Template] /\ \A t \in Templates : tpl[t].snap = Empty
    BY <2>1, <2>2, <2>3
  <2> QED BY <2>4, <1>1 DEF TemplatesInv, SnapshotsAreClosed
<1>3. RowsInv /\ WorkflowsInv /\ saved \in BOOLEAN
  BY DEF Init, RowsInv, WorkflowsInv, EdgesJoinLiveNodes
<1> QED BY <1>2, <1>3, IntegrityParts

\* A template's snapshot is copied into an existing workflow.
LEMMA ExpandPreserves ==
    ASSUME RowsInv, WorkflowsInv, TemplatesInv, NEW w \in Workflows,
           NEW t \in Templates, NEW f \in Maps(t), Expand(w, t, f)
    PROVE  RowsInv' /\ WorkflowsInv'
<1> DEFINE S == tpl[t].snap
<1>1. S \in Graph /\ f \in [S.nodes -> Free]
  BY SnapshotIsGraph
<1>2. InsertCopy(S, f, w) /\ edges' = edges \union CopiedEdges(S, f, w) /\ wf' = wf
  BY DEF Expand
<1> HIDE DEF S
<1> QED BY <1>1, <1>2, GraphCopied DEF WorkflowsInv

\* A workflow node and the workflow it refers to, or a part of the latter.
LEMMA CreateSubWorkflowPreserves ==
    ASSUME RowsInv, WorkflowsInv, TemplatesInv, NEW w \in Workflows, NEW x \in Workflows,
           NEW t \in Templates, NEW n \in Nodes, NEW f \in Maps(t),
           NEW commits \in 1 .. 4, CreateSubWorkflow(w, t, f, x, n, commits)
    PROVE  RowsInv' /\ WorkflowsInv'
<1> DEFINE S == tpl[t].snap
<1>1. S \in Graph /\ f \in [S.nodes -> Free]
  BY SnapshotIsGraph
<1>2. CASE commits # 4
  <2>1. CopyTo(S, f, x, commits)
    BY <1>2 DEF CreateSubWorkflow
  <2> HIDE DEF S
  <2> QED BY <1>1, <2>1, CopyPreserves
<1>3. CASE commits = 4
  <2>1. /\ wf' = [wf EXCEPT ![x] = "live"]
        /\ home[n] = None /\ n \notin Range(f)
        /\ home' = [m \in Nodes |-> IF m \in Range(f) THEN x
                                    ELSE IF m = n THEN w ELSE home[m]]
        /\ ref' = [m \in Nodes |-> IF m \in Range(f)
                      THEN S.ref[CHOOSE s \in S.nodes : f[s] = m]
                      ELSE IF m = n THEN x ELSE ref[m]]
        /\ alive' = alive \union Range(f) \union {n}
        /\ edges' = edges \union CopiedEdges(S, f, x)
    BY <1>3 DEF CreateSubWorkflow
  <2> HIDE DEF S
  <2>2. RowsInv'
    BY <1>1, <2>1, SubWorkflowPreserves
  <2> QED BY <2>1, <2>2 DEF WorkflowsInv
<1> QED BY <1>2, <1>3

\* An import copies the graph of a workflow.
LEMMA ImportPreserves ==
    ASSUME RowsInv, WorkflowsInv, NEW w \in Workflows, NEW x \in Workflows,
           NEW f \in Injection(NodesOf(w), Free), NEW commits \in 1 .. 3,
           Import(w, f, x, commits)
    PROVE  RowsInv' /\ WorkflowsInv'
<1>1. Live(w) \in Graph /\ Live(w).nodes = NodesOf(w)
  BY LiveIsClosed DEF Live
<1>2. f \in [Live(w).nodes -> Free]
  BY <1>1 DEF Injection
<1>3. CopyTo(Live(w), f, x, commits) /\ commits \in 1 .. 4
  BY DEF Import
<1> QED BY <1>1, <1>2, <1>3, CopyPreserves

\* Most requests leave the templates alone.
LEMMA TemplatesKept ==
    ASSUME TemplatesInv, tpl' = tpl
    PROVE  TemplatesInv'
BY DEF TemplatesInv, SnapshotsAreClosed, Closed

\* Every request keeps the tables sound.
LEMMA Requests ==
    ASSUME Integrity, Next
    PROVE  Integrity'
<1>1. RowsInv /\ WorkflowsInv /\ TemplatesInv /\ saved \in BOOLEAN
  BY IntegrityParts
<1>2. ASSUME NEW w \in Workflows,
             CreateWorkspace(w) \/ DeleteWorkspace(w) \/ RestoreWorkspace(w)
      PROVE  Integrity'
  <2>1. UNCHANGED <<home, alive, ref, edges, tpl, saved>>
    BY <1>2 DEF CreateWorkspace, DeleteWorkspace, RestoreWorkspace
  <2>2. WorkflowsInv'
    BY <1>1, <1>2 DEF CreateWorkspace, DeleteWorkspace, RestoreWorkspace, WorkflowsInv
  <2>3. RowsInv'
    BY <1>1, <2>1, EdgesTaken DEF RowsInv
  <2> QED BY <1>1, <2>1, <2>2, <2>3, TemplatesKept, IntegrityRestored
<1>3. ASSUME NEW w \in Workflows, NEW s \in Nodes, NEW t \in Nodes, CreateEdge(w, s, t)
      PROVE  Integrity'
  <2>1. UNCHANGED <<wf, home, alive, ref, tpl, saved>>
    BY <1>3 DEF CreateEdge
  <2>2. edges' = edges \union {<<w, s, t>>} /\ s \in NodesOf(w) /\ t \in NodesOf(w)
    BY <1>3 DEF CreateEdge
  <2>3. RowsInv'
    BY <1>1, <2>1, <2>2 DEF RowsInv, EdgesJoinLiveNodes, NodesOf
  <2> QED BY <1>1, <2>1, <2>3, TemplatesKept, IntegrityRestored DEF WorkflowsInv
<1>4. ASSUME NEW e \in edges, DeleteEdge(e)
      PROVE  Integrity'
  <2>1. UNCHANGED <<wf, home, alive, ref, tpl, saved>> /\ edges' \subseteq edges
    BY <1>4 DEF DeleteEdge
  <2>2. RowsInv'
    BY <1>1, <2>1, EdgesTaken DEF RowsInv
  <2> QED BY <1>1, <2>1, <2>2, TemplatesKept, IntegrityRestored DEF WorkflowsInv
<1>5. ASSUME NEW n \in Nodes, DeleteNode(n)
      PROVE  Integrity'
  <2>1. UNCHANGED <<wf, tpl, saved>> /\ RowsInv'
    BY <1>1, <1>5, RowDeleted DEF DeleteNode
  <2> QED BY <1>1, <2>1, TemplatesKept, IntegrityRestored DEF WorkflowsInv
<1>6. ASSUME NEW n \in Nodes, SaveNodeAsTemplate(n)
      PROVE  Integrity'
  <2>1. UNCHANGED <<wf, home, alive, ref, edges, tpl>> /\ saved' \in BOOLEAN
    BY <1>6 DEF SaveNodeAsTemplate
  <2>2. RowsInv'
    BY <1>1, <2>1, EdgesTaken DEF RowsInv
  <2> QED BY <1>1, <2>1, <2>2, TemplatesKept, IntegrityRestored DEF WorkflowsInv
<1>7. ASSUME NEW w \in Workflows, NEW n \in Nodes, UpdateNode(n, w)
      PROVE  Integrity'
  <2>1. /\ UNCHANGED <<wf, home, alive, edges, tpl, saved>>
        /\ ref' \in [Nodes -> Workflows \union {None}]
    BY <1>1, <1>7 DEF UpdateNode, RowsInv
  <2>2. RowsInv'
    BY <1>1, <2>1, EdgesTaken
  <2> QED BY <1>1, <2>1, <2>2, TemplatesKept, IntegrityRestored DEF WorkflowsInv
<1>8. ASSUME NEW w \in Workflows, NEW r \in Workflows, NEW n \in Nodes,
             AddNode(w, n) \/ AddFromNodeTemplate(w, n, r) \/ CreateReference(w, n, r)
      PROVE  Integrity'
  <2>1. UNCHANGED <<wf, edges, tpl, saved>>
    BY <1>8 DEF AddNode, AddFromNodeTemplate, CreateReference
  <2>2. PICK v \in Workflows \union {None} : Insert(n, w, v)
    BY <1>8 DEF AddNode, AddFromNodeTemplate, CreateReference
  <2>3. RowsInv'
    BY <1>1, <2>1, <2>2, RowInserted
  <2> QED BY <1>1, <2>1, <2>3, TemplatesKept, IntegrityRestored DEF WorkflowsInv
<1>9. ASSUME NEW w \in Workflows, NEW t \in Templates, NEW f \in Maps(t), Expand(w, t, f)
      PROVE  Integrity'
  <2>1. RowsInv' /\ WorkflowsInv'
    BY <1>1, <1>9, ExpandPreserves
  <2>2. UNCHANGED <<tpl, saved>>
    BY <1>9 DEF Expand
  <2> QED BY <1>1, <2>1, <2>2, TemplatesKept, IntegrityRestored
<1>10. ASSUME NEW w \in Workflows, NEW x \in Workflows, NEW t \in Templates, NEW n \in Nodes,
              NEW commits \in 1 .. 4, NEW f \in Maps(t),
              CreateSubWorkflow(w, t, f, x, n, commits)
       PROVE  Integrity'
  <2>1. RowsInv' /\ WorkflowsInv'
    BY <1>1, <1>10, CreateSubWorkflowPreserves
  <2>2. UNCHANGED <<tpl, saved>>
    BY <1>10 DEF CreateSubWorkflow
  <2> QED BY <1>1, <2>1, <2>2, TemplatesKept, IntegrityRestored
<1>11. ASSUME NEW x \in Workflows, NEW t \in Templates, NEW commits \in 1 .. 3,
              NEW f \in Maps(t),
              CreateFromTemplate(t, f, x, commits) \/ CreateEditCopy(t, f, x, commits)
       PROVE  Integrity'
  <2>1. CopyTo(tpl[t].snap, f, x, commits) /\ UNCHANGED <<tpl, saved>>
    BY <1>11 DEF CreateFromTemplate, CreateEditCopy
  <2>2. tpl[t].snap \in Graph /\ f \in [tpl[t].snap.nodes -> Free] /\ commits \in 1 .. 4
    BY <1>1, SnapshotIsGraph
  <2>3. RowsInv' /\ WorkflowsInv'
    BY <1>1, <2>1, <2>2, CopyPreserves
  <2> QED BY <1>1, <2>1, <2>3, TemplatesKept, IntegrityRestored
<1>12. ASSUME NEW w \in Workflows, NEW x \in Workflows, NEW commits \in 1 .. 3,
              NEW f \in Injection(NodesOf(w), Free), Import(w, f, x, commits)
       PROVE  Integrity'
  <2>1. RowsInv' /\ WorkflowsInv'
    BY <1>1, <1>12, ImportPreserves
  <2>2. UNCHANGED <<tpl, saved>>
    BY <1>12 DEF Import
  <2> QED BY <1>1, <2>1, <2>2, TemplatesKept, IntegrityRestored
<1>13. ASSUME NEW w \in Workflows, NEW t \in Templates,
              SaveWorkflowAsTemplate(w, t) \/ SaveTemplateFromWorkflow(w, t)
       PROVE  Integrity'
  <2>1. UNCHANGED <<wf, home, alive, ref, edges, saved>>
    BY <1>13 DEF SaveWorkflowAsTemplate, SaveTemplateFromWorkflow
  <2>2. RowsInv' /\ WorkflowsInv'
    BY <1>1, <2>1, EdgesTaken DEF RowsInv, WorkflowsInv
  <2>3. TemplatesInv'
    BY <1>1, <1>13, SnapshotTaken
  <2> QED BY <1>1, <2>1, <2>2, <2>3, IntegrityRestored
<1>14. ASSUME NEW t \in Templates, SyncTemplate(t)
       PROVE  Integrity'
  <2>1. tpl[t].origin \in Workflows /\ SaveTemplateFromWorkflow(tpl[t].origin, t)
    BY <1>1, <1>14 DEF SyncTemplate, TemplatesInv, Template
  <2> QED BY <2>1, <1>13
<1>15. ASSUME NEW t \in Templates, DeleteTemplate(t)
       PROVE  Integrity'
  <2>1. /\ UNCHANGED <<wf, home, alive, ref, edges, saved>>
        /\ tpl' = [tpl EXCEPT ![t].state = "inactive"]
    BY <1>15 DEF DeleteTemplate
  <2>2. RowsInv' /\ WorkflowsInv'
    BY <1>1, <2>1, EdgesTaken DEF RowsInv, WorkflowsInv
  <2>3. tpl' \in [Templates -> Template] /\ \A u \in Templates : tpl'[u].snap = tpl[u].snap
    BY <1>1, <2>1 DEF TemplatesInv, Template
  <2>4. TemplatesInv'
    BY <1>1, <2>3 DEF TemplatesInv, SnapshotsAreClosed, Closed
  <2> QED BY <1>1, <2>1, <2>2, <2>4, IntegrityRestored
<1> QED
  BY <1>2, <1>3, <1>4, <1>5, <1>6, <1>7, <1>8, <1>9, <1>10, <1>11, <1>12, <1>13,
     <1>14, <1>15 DEF Next

\* A step that changes nothing.
LEMMA Stuttering ==
    ASSUME Integrity, UNCHANGED vars
    PROVE  Integrity'
BY DEF vars, Integrity, TypeOK, EdgesJoinLiveNodes, NodesOf, SnapshotsAreClosed, Closed

\* Whatever requests users make, in whatever order and broken off wherever, no
\* edge loses an end and no template a part of its graph: the soft deletion of
\* api/nodes.py, the copies of api/workspaces.py and workflow_from_template.py,
\* and the snapshots of api/node_types.py fit together.
THEOREM WorkspaceIntegrity == Spec => []Integrity
<1>1. Integrity /\ [Next]_vars => Integrity'
  BY Requests, Stuttering
<1> QED BY Initially, <1>1, PTL DEF Spec
-----------------------------------------------------------------------------
\* References between workflows.  Detect is defined by recursion, of which the
\* provers know only that Detect is the value of some function that satisfies
\* its equation, if there is one.  There is one, and the calls that return
\* false are, for any such function, closed under references.

\* The calls of the search: a workflow, and those on the path down to it.
Calls == Workflows \X SUBSET Workflows

\* What a call returns when Z is the set of calls that return true.
Meets(w, s, Z) ==
    \/ s[1] \in s[2] \/ s[1] = w
    \/ \E y \in Referred(s[1]) : <<y, s[2] \union {s[1]}>> \in Z

\* The calls that meet w or themselves: the least set closed under Meets.
Meeting(w) ==
    {s \in Calls : \A Z \in SUBSET Calls :
        (\A p \in Calls : Meets(w, p, Z) => p \in Z) => s \in Z}

\* f is the function that detect_circular_dependency computes by recursion.
Solves(f, w) ==
    f = [s \in Calls |->
            \/ s[1] \in s[2] \/ s[1] = w
            \/ \E y \in Referred(s[1]) : f[<<y, s[2] \union {s[1]}>>]]

\* More calls that return true make more calls return true.
LEMMA MeetsGrows ==
    ASSUME NEW w, NEW s, NEW Y, NEW Z, Y \subseteq Z, Meets(w, s, Y)
    PROVE  Meets(w, s, Z)
BY DEF Meets

\* The least set is a fixpoint: this is what Knaster and Tarski's theorem says.
LEMMA MeetingIsFixed ==
    ASSUME NEW w, NEW s \in Calls
    PROVE  s \in Meeting(w) <=> Meets(w, s, Meeting(w))
<1>1. ASSUME NEW p \in Calls, Meets(w, p, Meeting(w))
      PROVE  p \in Meeting(w)
  <2>1. SUFFICES ASSUME NEW Z \in SUBSET Calls, \A q \in Calls : Meets(w, q, Z) => q \in Z
                 PROVE  p \in Z
    BY DEF Meeting
  <2>2. Meeting(w) \subseteq Z
    BY <2>1 DEF Meeting
  <2>3. Meets(w, p, Z)
    BY <1>1, <2>2, MeetsGrows
  <2> QED BY <2>1, <2>3
<1>2. ASSUME s \in Meeting(w)
      PROVE  Meets(w, s, Meeting(w))
  <2> DEFINE Z == {p \in Calls : Meets(w, p, Meeting(w))}
  <2>1. Z \subseteq Meeting(w) /\ Z \in SUBSET Calls
    BY <1>1
  <2>2. ASSUME NEW q \in Calls, Meets(w, q, Z)
        PROVE  q \in Z
    <3> HIDE DEF Z
    <3>1. Meets(w, q, Meeting(w))
      BY <2>1, <2>2, MeetsGrows
    <3> QED BY <3>1 DEF Z
  <2> HIDE DEF Z
  <2>3. s \in Z
    BY <1>2, <2>1, <2>2 DEF Meeting
  <2> QED BY <2>3 DEF Z
<1> QED BY <1>1, <1>2

\* The search stays among workflow rows.
LEMMA ReferredAreWorkflows ==
    ASSUME RowsInv, NEW x
    PROVE  Referred(x) \subseteq Workflows
BY DEF RowsInv, Referred

\* So the recursion has a solution.
LEMMA SearchExists ==
    ASSUME RowsInv, NEW w
    PROVE  \E f : Solves(f, w)
<1> DEFINE f == [s \in Calls |-> s \in Meeting(w)]
           Returns(s) == \/ s[1] \in s[2] \/ s[1] = w
                         \/ \E y \in Referred(s[1]) : f[<<y, s[2] \union {s[1]}>>]
<1>1. ASSUME NEW s \in Calls
      PROVE  (s \in Meeting(w)) = Returns(s)
  <2>1. \A y \in Referred(s[1]) : <<y, s[2] \union {s[1]}>> \in Calls
    BY ReferredAreWorkflows DEF Calls
  <2>2. \A y \in Referred(s[1]) :
           f[<<y, s[2] \union {s[1]}>>] = (<<y, s[2] \union {s[1]}>> \in Meeting(w))
    BY <2>1
  <2> HIDE DEF f
  <2>3. Meets(w, s, Meeting(w)) <=> Returns(s)
    BY <2>2, Zenon DEF Meets
  <2>4. Returns(s) \in BOOLEAN
    OBVIOUS
  <2> HIDE DEF Returns
  <2> QED BY <2>3, <2>4, MeetingIsFixed
<1>2. f = [s \in Calls |-> Returns(s)]
  <2> HIDE DEF Returns
  <2> QED BY <1>1
<1> HIDE DEF f
<1> QED BY <1>2, Zenon DEF Solves

\* Detect is the value of a solution; no matter which one.
LEMMA DetectSearches ==
    ASSUME RowsInv, NEW w, NEW r \in Workflows, ~Detect(w, r)
    PROVE  \E f : Solves(f, w) /\ ~f[<<r, {}>>]
<1> DEFINE g == CHOOSE f : Solves(f, w)
<1>1. Solves(g, w)
  BY SearchExists
<1>2. Detect(w, r) = g[<<r, {}>>]
  BY DEF Detect, Solves, Calls
<1> QED BY <1>1, <1>2

\* A call that returns false is not about w, and all its calls return false.
LEMMA SearchStep ==
    ASSUME NEW f, NEW w, Solves(f, w), NEW x \in Workflows, NEW v \in SUBSET Workflows,
           ~f[<<x, v>>]
    PROVE  x # w /\ \A y \in Referred(x) : ~f[<<y, v \union {x}>>]
<1>1. f[<<x, v>>] = (x \in v \/ x = w \/ \E y \in Referred(x) : f[<<y, v \union {x}>>])
  BY DEF Solves, Calls
<1> QED BY <1>1

\* So w is outside of a set that holds r and is closed under references.
LEMMA NotDetected ==
    ASSUME RowsInv, NEW w, NEW r \in Workflows, ~Detect(w, r)
    PROVE  \E C \in SUBSET Workflows :
              r \in C /\ w \notin C /\ \A x \in C : References(x) \subseteq C
<1>1. PICK f : Solves(f, w) /\ ~f[<<r, {}>>]
  BY DetectSearches
<1> DEFINE C == {x \in Workflows : \E v \in SUBSET Workflows : ~f[<<x, v>>]}
<1>2. C \in SUBSET Workflows /\ r \in C
  BY <1>1
<1>3. w \notin C
  BY <1>1, SearchStep
<1>4. ASSUME NEW x \in C, NEW y \in References(x)
      PROVE  y \in C
  <2>1. PICK v \in SUBSET Workflows : ~f[<<x, v>>]
    OBVIOUS
  <2>2. y \in Referred(x)
    BY DEF References, Referred, NodesOf, RowsInv
  <2>3. ~f[<<y, v \union {x}>>] /\ v \union {x} \in SUBSET Workflows
    BY <1>1, <2>1, <2>2, SearchStep
  <2> QED BY <2>2, <2>3, ReferredAreWorkflows
<1> QED BY <1>2, <1>3, <1>4
-----------------------------------------------------------------------------
\* What is reached from x is one of the sets that are closed under references.
LEMMA ReachedIsClosed ==
    ASSUME RowsInv, NEW x
    PROVE  /\ References(x) \subseteq Reached(x)
           /\ \A z \in Reached(x) : References(z) \subseteq Reached(x)
<1>1. \A z : References(z) \subseteq Workflows
  BY DEF RowsInv, References, NodesOf
<1> HIDE DEF References
<1> QED BY <1>1 DEF Reached

\* The least of them.
LEMMA ReachedIsLeast ==
    ASSUME NEW x, NEW C \in SUBSET Workflows, References(x) \subseteq C,
           \A z \in C : References(z) \subseteq C
    PROVE  Reached(x) \subseteq C
BY DEF Reached

\* The same, of the state after a step.
LEMMA ReachedNext ==
    ASSUME NEW x \in Workflows, NEW C \in SUBSET Workflows, References(x)' \subseteq C,
           \A z \in C : References(z)' \subseteq C, x \notin C
    PROVE  x \notin Reached(x)'
BY DEF Reached

\* An insertion adds one reference.
LEMMA ReferenceAdded ==
    ASSUME RowsInv, NEW w \in Workflows, NEW n \in Nodes, NEW r \in Workflows,
           Insert(n, w, r), NEW x \in Workflows
    PROVE  /\ References(x)' \subseteq References(x) \union {r}
           /\ x # w => References(x)' \subseteq References(x)
BY NoneAssumption DEF RowsInv, Insert, References, NodesOf

\* A reference from w to r closes no cycle: for a workflow x that does not reach
\* w nothing changes, and one that does reaches at most D more, which x is not in.
LEMMA NoCycle ==
    ASSUME RowsInv, NEW w \in Workflows, NEW r \in Workflows, NEW n \in Nodes,
           CreateReference(w, n, r), Acyclic
    PROVE  Acyclic'
<1>1. PICK D \in SUBSET Workflows :
         r \in D /\ w \notin D /\ \A x \in D : References(x) \subseteq D
  BY NotDetected DEF CreateReference
<1>2. \A x \in Workflows : /\ References(x)' \subseteq References(x) \union {r}
                           /\ x # w => References(x)' \subseteq References(x)
  BY ReferenceAdded DEF CreateReference
<1> SUFFICES ASSUME NEW x \in Workflows PROVE x \notin Reached(x)'
  BY DEF Acyclic
<1>3. x \notin Reached(x) /\ Reached(x) \in SUBSET Workflows
  BY DEF Acyclic, Reached
<1>4. CASE x # w /\ w \notin Reached(x)
  <2>1. References(x)' \subseteq Reached(x)
    BY <1>2, <1>4, ReachedIsClosed
  <2>2. \A z \in Reached(x) : References(z)' \subseteq Reached(x)
    BY <1>2, <1>3, <1>4, ReachedIsClosed
  <2> QED BY <1>3, <2>1, <2>2, ReachedNext
<1>5. CASE x = w \/ w \in Reached(x)
  <2>1. x \notin D
    BY <1>1, <1>5, ReachedIsLeast
  <2>2. \A z \in Reached(x) \union D : References(z)' \subseteq Reached(x) \union D
    BY <1>1, <1>2, <1>3, ReachedIsClosed
  <2>3. References(x)' \subseteq Reached(x) \union D
    BY <1>1, <1>2, ReachedIsClosed
  <2> QED BY <1>3, <2>1, <2>2, <2>3, ReachedNext
<1> QED BY <1>4, <1>5

\* A reference that create_workflow_reference_node accepts closes no cycle of
\* references, however many workflows there are: the search of
\* detect_circular_dependency in utils/template_helpers.py, which stops at a
\* workflow it has seen, misses none of the workflows below the one referred to.
THEOREM ReferencesStayAcyclic == Spec => ReferenceClosesNoCycle
<1>1. ASSUME Integrity
      PROVE  \A w, r \in Workflows, n \in Nodes :
                CreateReference(w, n, r) /\ Acyclic => Acyclic'
  BY <1>1, IntegrityParts, NoCycle
<1> QED BY <1>1, WorkspaceIntegrity, PTL DEF ReferenceClosesNoCycle
=============================================================================
