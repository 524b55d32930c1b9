------------------------------- MODULE Workspace -------------------------------
(***************************************************************************)
(* The editor's side of the database: workflows, their nodes and edges,    *)
(* workflow templates (snapshots of a workflow) and the nodes that refer   *)
(* to another workflow (api/nodes.py, api/edges.py, api/workspaces.py,     *)
(* api/node_types.py, utils/workflow_from_template.py,                     *)
(* utils/template_helpers.py).                                             *)
(*                                                                         *)
(* The handlers run their database calls without an await, so two of them  *)
(* do not interleave.  What can separate their commits is a failure: a     *)
(* handler that commits several times may end after any of them, because   *)
(* the server dies or a later insert violates the index on node names.     *)
(* An action takes how many of its commits happened as a parameter.        *)
(*                                                                         *)
(* Deletion is soft: a deleted node's row stays, and so does a deleted     *)
(* workflow's.  Names, positions, configurations other than workflow_id,   *)
(* environment variables, storage and usage counts are left out, and with  *)
(* them the requests that are refused because of them: a name can always   *)
(* be chosen that is free.                                                 *)
(***************************************************************************)
EXTENDS Functions

CONSTANTS
    Workflows,   \* workflow rows
    Nodes,       \* node rows
    Templates,   \* node_types rows of kind "workflow_template"
    None

ASSUME NoneAssumption == None \notin Workflows

VARIABLES
    wf,      \* per workflow row: "none" | "live" | "deleted"
    home,    \* per node row: its workflow_id, None before it is inserted
    alive,   \* nodes whose deleted_at is null
    ref,     \* per node: config.workflow_id when it is a "workflow_node"
    edges,   \* rows <<workflow_id, source_node_id, target_node_id>> not deleted
    tpl,     \* per template: is_active, workflow_id and workflow_template_data
    saved    \* some node template was saved from a workflow node

vars == <<wf, home, alive, ref, edges, tpl, saved>>

NodesOf(w) == {n \in alive : home[n] = w}
Free       == {n \in Nodes : home[n] = None}

\* A graph outside the tables: a snapshot, an export.
Graph == [nodes : SUBSET Nodes, ref : [Nodes -> Workflows \union {None}],
          edges : SUBSET (Nodes \X Nodes)]
Empty == [nodes |-> {}, ref |-> [n \in Nodes |-> None], edges |-> {}]
Closed(S) == \A e \in S.edges : e[1] \in S.nodes /\ e[2] \in S.nodes

\* A database with some empty workspaces.
Init ==
    /\ wf \in [Workflows -> {"none", "live"}]
    /\ home = [n \in Nodes |-> None] /\ ref = [n \in Nodes |-> None]
    /\ alive = {} /\ edges = {}
    /\ tpl = [t \in Templates |-> [state |-> "none", origin |-> None, snap |-> Empty]]
    /\ saved = FALSE

-----------------------------------------------------------------------------
\* Workflows and edges.

CreateWorkspace(w) ==
    /\ wf[w] = "none"
    /\ wf' = [wf EXCEPT ![w] = "live"]
    /\ UNCHANGED <<home, alive, ref, edges, tpl, saved>>

\* Its nodes and edges, and the nodes that refer to it, are left as they are.
DeleteWorkspace(w) ==
    /\ wf[w] = "live"
    /\ wf' = [wf EXCEPT ![w] = "deleted"]
    /\ UNCHANGED <<home, alive, ref, edges, tpl, saved>>

RestoreWorkspace(w) ==
    /\ wf[w] = "deleted"
    /\ wf' = [wf EXCEPT ![w] = "live"]
    /\ UNCHANGED <<home, alive, ref, edges, tpl, saved>>

CreateEdge(w, s, t) ==
    /\ wf[w] = "live" /\ {s, t} \subseteq NodesOf(w)
    /\ <<w, s, t>> \notin edges
    /\ edges' = edges \union {<<w, s, t>>}
    /\ UNCHANGED <<wf, home, alive, ref, tpl, saved>>

DeleteEdge(e) ==
    /\ e \in edges
    /\ edges' = edges \ {e}
    /\ UNCHANGED <<wf, home, alive, ref, tpl, saved>>

-----------------------------------------------------------------------------
\* Nodes.

Insert(n, w, r) ==
    /\ home[n] = None
    /\ home' = [home EXCEPT ![n] = w]
    /\ ref' = [ref EXCEPT ![n] = r]
    /\ alive' = alive \union {n}

\* create_node, with a plain type; create_node_from_template.
AddNode(w, n) ==
    /\ wf[w] = "live" /\ Insert(n, w, None)
    /\ UNCHANGED <<wf, edges, tpl, saved>>

\* create_node with a node template that was saved from a workflow node; the
\* request's overrides may replace the workflow_id it brings.
AddFromNodeTemplate(w, n, r) ==
    /\ wf[w] = "live" /\ saved /\ Insert(n, w, r)
    /\ UNCHANGED <<wf, edges, tpl, saved>>

\* update_node: the new config is merged into the old one, unchecked.
UpdateNode(n, r) ==
    /\ n \in alive /\ ref[n] # None
    /\ ref' = [ref EXCEPT ![n] = r]
    /\ UNCHANGED <<wf, home, alive, edges, tpl, saved>>

\* Mutant: the edges into the node stay.
DeleteNodeOut(n) ==
    /\ n \in alive
    /\ alive' = alive \ {n}
    /\ edges' = {e \in edges : ~(e[1] = home[n] /\ e[2] = n)}
    /\ UNCHANGED <<wf, home, ref, tpl, saved>>

DeleteNode(n) ==
    /\ n \in alive
    /\ alive' = alive \ {n}
    /\ edges' = {e \in edges : ~(e[1] = home[n] /\ (e[2] = n \/ e[3] = n))}
    /\ UNCHANGED <<wf, home, ref, tpl, saved>>

\* The workflows that nodes of x refer to; a relationship, so of deleted nodes too.
Referred(x) == {ref[n] : n \in {m \in Nodes : home[m] = x}} \ {None}

\* Mutant: only the nodes of the workflow referred to are looked at.
DetectDirect(w, r) == r = w \/ w \in Referred(r)

\* detect_circular_dependency: the search below r meets w, or itself.
Detect(w, r) ==
    LET circular[s \in Workflows \X SUBSET Workflows] ==
            \/ s[1] \in s[2] \/ s[1] = w
            \/ \E y \in Referred(s[1]) : circular[<<y, s[2] \union {s[1]}>>]
    IN circular[<<r, {}>>]

CreateReference(w, n, r) ==
    /\ wf[w] = "live" /\ wf[r] = "live" /\ ~Detect(w, r)
    /\ Insert(n, w, r)
    /\ UNCHANGED <<wf, edges, tpl, saved>>

-----------------------------------------------------------------------------
\* Copies of graphs.

\* The rows for the nodes of S, by the ids f gives them, in workflow w.
InsertCopy(S, f, w) ==
    LET new == Range(f) IN
    /\ home' = [n \in Nodes |-> IF n \in new THEN w ELSE home[n]]
    /\ ref' = [n \in Nodes |-> IF n \in new
                  THEN S.ref[CHOOSE s \in S.nodes : f[s] = n] ELSE ref[n]]
    /\ alive' = alive \union new

\* Edges whose ends were not copied are dropped.
CopiedEdges(S, f, w) ==
    {<<w, f[e[1]], f[e[2]]>> : e \in {d \in S.edges : d[1] \in S.nodes /\ d[2] \in S.nodes}}

\* create_workflow_from_template_data, import_workflow: a new workflow x, then
\* its nodes, then its edges.
CopyTo(S, f, x, commits) ==
    /\ wf[x] = "none" /\ wf' = [wf EXCEPT ![x] = "live"]
    /\ IF commits >= 2 THEN InsertCopy(S, f, x) ELSE UNCHANGED <<home, ref, alive>>
    /\ edges' = edges \union IF commits >= 3 THEN CopiedEdges(S, f, x) ELSE {}

Live(w) ==
    [nodes |-> NodesOf(w),
     ref   |-> [n \in Nodes |-> IF n \in NodesOf(w) THEN ref[n] ELSE None],
     edges |-> {e \in Nodes \X Nodes : <<w, e[1], e[2]>> \in edges}]

\* create_node with a workflow template, which may have been deleted: its nodes
\* and edges are copied into w, in one commit.
Expand(w, t, f) ==
    LET S == tpl[t].snap IN
    /\ wf[w] = "live" /\ tpl[t].state # "none"
    /\ InsertCopy(S, f, w)
    /\ edges' = edges \union CopiedEdges(S, f, w)
    /\ UNCHANGED <<wf, tpl, saved>>

\* create_sub_workflow_node: x becomes a copy of the template, then n refers to it.
CreateSubWorkflow(w, t, f, x, n, commits) ==
    LET S == tpl[t].snap IN
    /\ wf[w] = "live" /\ tpl[t].state # "none"
    /\ tpl[t].origin # None => ~Detect(w, tpl[t].origin)
    /\ IF commits = 4
       THEN /\ wf[x] = "none" /\ wf' = [wf EXCEPT ![x] = "live"]
            /\ home[n] = None /\ n \notin Range(f)
            /\ home' = [m \in Nodes |-> IF m \in Range(f) THEN x
                                        ELSE IF m = n THEN w ELSE home[m]]
            /\ ref' = [m \in Nodes |-> IF m \in Range(f)
                          THEN S.ref[CHOOSE s \in S.nodes : f[s] = m]
                          ELSE IF m = n THEN x ELSE ref[m]]
            /\ alive' = alive \union Range(f) \union {n}
            /\ edges' = edges \union CopiedEdges(S, f, x)
       ELSE CopyTo(S, f, x, commits)
    /\ UNCHANGED <<tpl, saved>>

\* create_workflow_from_template.
CreateFromTemplate(t, f, x, commits) ==
    /\ tpl[t].state # "none"
    /\ tpl[t].origin # None => ~Detect(x, tpl[t].origin)
    /\ CopyTo(tpl[t].snap, f, x, commits)
    /\ UNCHANGED <<tpl, saved>>

\* create_template_edit_copy.  An edit copy that exists already, recognised by
\* its name, is returned instead, which changes nothing.
CreateEditCopy(t, f, x, commits) ==
    /\ tpl[t].state = "active"
    /\ CopyTo(tpl[t].snap, f, x, commits)
    /\ UNCHANGED <<tpl, saved>>

\* import_workflow, of what export_workflow returned for w; "workflow_node" is
\* not in the registry of node types (no user is taken to have created a type of
\* that name).  Nodes and edges share a commit.
Import(w, f, x, commits) ==
    LET S == Live(w) IN
    /\ wf[w] = "live" /\ Closed(S) /\ \A n \in S.nodes : S.ref[n] = None
    /\ commits # 2
    /\ CopyTo(S, f, x, commits)
    /\ UNCHANGED <<tpl, saved>>

-----------------------------------------------------------------------------
\* Templates.

\* _build_workflow_template_data_from_workflow, of a workflow deleted or not.
SnapshotOf(w) == Live(w)

SaveWorkflowAsTemplate(w, t) ==
    /\ tpl[t].state = "none" /\ wf[w] # "none" /\ NodesOf(w) # {}
    /\ tpl' = [tpl EXCEPT ![t] = [state |-> "active", origin |-> w, snap |-> SnapshotOf(w)]]
    /\ UNCHANGED <<wf, home, alive, ref, edges, saved>>

\* From any workflow the request names; the origin is kept.
SaveTemplateFromWorkflow(w, t) ==
    /\ tpl[t].state = "active" /\ wf[w] # "none" /\ NodesOf(w) # {}
    /\ tpl' = [tpl EXCEPT ![t].snap = SnapshotOf(w)]
    /\ UNCHANGED <<wf, home, alive, ref, edges, saved>>

SyncTemplate(t) ==
    /\ tpl[t].origin # None
    /\ SaveTemplateFromWorkflow(tpl[t].origin, t)

DeleteTemplate(t) ==
    /\ tpl[t].state = "active"
    /\ tpl' = [tpl EXCEPT ![t].state = "inactive"]
    /\ UNCHANGED <<wf, home, alive, ref, edges, saved>>

\* save_node_as_template, of a node deleted or not.
SaveNodeAsTemplate(n) ==
    /\ ref[n] # None
    /\ saved' = TRUE
    /\ UNCHANGED <<wf, home, alive, ref, edges, tpl>>

-----------------------------------------------------------------------------
Maps(t) == Injection(tpl[t].snap.nodes, Free)

Next ==
    \/ \E w \in Workflows :
          CreateWorkspace(w) \/ DeleteWorkspace(w) \/ RestoreWorkspace(w)
    \/ \E w \in Workflows, s, t \in Nodes : CreateEdge(w, s, t)
    \/ \E e \in edges : DeleteEdge(e)
    \/ \E n \in Nodes : DeleteNode(n) \/ SaveNodeAsTemplate(n)
    \/ \E w \in Workflows, n \in Nodes : AddNode(w, n) \/ UpdateNode(n, w)
    \/ \E w, r \in Workflows, n \in Nodes :
          AddFromNodeTemplate(w, n, r) \/ CreateReference(w, n, r)
    \/ \E w \in Workflows, t \in Templates : \E f \in Maps(t) : Expand(w, t, f)
    \/ \E w, x \in Workflows, t \in Templates, n \in Nodes, commits \in 1 .. 4 :
          \E f \in Maps(t) : CreateSubWorkflow(w, t, f, x, n, commits)
    \/ \E x \in Workflows, t \in Templates, commits \in 1 .. 3 : \E f \in Maps(t) :
          CreateFromTemplate(t, f, x, commits) \/ CreateEditCopy(t, f, x, commits)
    \/ \E w, x \in Workflows, commits \in 1 .. 3 :
          \E f \in Injection(NodesOf(w), Free) : Import(w, f, x, commits)
    \/ \E w \in Workflows, t \in Templates :
          SaveWorkflowAsTemplate(w, t) \/ SaveTemplateFromWorkflow(w, t)
    \/ \E t \in Templates : SyncTemplate(t) \/ DeleteTemplate(t)

Spec == Init /\ [][Next]_vars

-----------------------------------------------------------------------------
Template == [state : {"none", "active", "inactive"},
             origin : Workflows \union {None}, snap : Graph]

TypeOK ==
    /\ wf \in [Workflows -> {"none", "live", "deleted"}]
    /\ home \in [Nodes -> Workflows \union {None}]
    /\ alive \subseteq {n \in Nodes : home[n] # None}
    /\ ref \in [Nodes -> Workflows \union {None}]
    /\ edges \subseteq Workflows \X Nodes \X Nodes
    /\ tpl \in [Templates -> Template]
    /\ saved \in BOOLEAN

\* An edge that is not deleted joins two nodes of its workflow that are not
\* deleted either, whatever was deleted, restored, copied or imported, and
\* wherever a request broke off: build_graph_json has no stale edge to filter.
EdgesJoinLiveNodes ==
    \A e \in edges : e[2] \in NodesOf(e[1]) /\ e[3] \in NodesOf(e[1])

\* A template's snapshot is a graph of its own: no copy of it loses an edge.
SnapshotsAreClosed == \A t \in Templates : Closed(tpl[t].snap)

\* The tables are sound.  The three parts hold only together: a snapshot is as
\* good as the edges it is taken from, and a copy as good as its snapshot.
Integrity == TypeOK /\ EdgesJoinLiveNodes /\ SnapshotsAreClosed

\* Workflows reached from x by following the references of nodes that are not
\* deleted: they are in every set that is closed under them.
References(x) == {ref[n] : n \in NodesOf(x)} \ {None}
Reached(x) ==
    {y \in Workflows : \A C \in SUBSET Workflows :
        (References(x) \subseteq C /\ \A z \in C : References(z) \subseteq C) => y \in C}
Acyclic == \A w \in Workflows : w \notin Reached(w)

\* A reference that create_workflow_reference_node accepts closes no cycle,
\* over any number of workflows, deleted ones included.
ReferenceClosesNoCycle ==
    [][\A w, r \in Workflows, n \in Nodes :
          CreateReference(w, n, r) /\ Acyclic => Acyclic']_vars
=============================================================================
