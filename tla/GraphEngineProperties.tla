------------------------ MODULE GraphEngineProperties ------------------------
(***************************************************************************)
(* What a workflow graph may expect from GraphEngine.                      *)
(***************************************************************************)
EXTENDS GraphEngine

TypeOK ==
  /\ workflow \in Workflows
  /\ phase \in {"running", "suspended", "finished", "failed"}
  /\ active \subseteq Nodes /\ active # {}
  /\ todo \subseteq active
  /\ writes \in [Nodes -> (Output \ {None, Payload}) \cup {NoWrite}]
  /\ outputs \in [Nodes -> Output]
  /\ \A n \in Nodes : consumed[n] = NoRecord \/ consumed[n] \in [Nodes -> Output]
  /\ iterations \in [Nodes -> Nat]
  /\ steps \in 0..MaxSteps
  /\ supersteps \in 0..RecursionLimit
  /\ snapshot \in [outputs : [Nodes -> Output], steps : 0..MaxSteps,
                  next : Nodes \cup {NoNode}]
  /\ entered \in Nodes \cup {NoNode}
  /\ answered \in BOOLEAN
  /\ resumes \in 0..MaxResumes

Acyclic == ~Cyclic(workflow)

Fresh == resumes = 0

Unconditional == \A n \in Nodes : Graph[workflow].kind[n] # "condition"

Done(n) == outputs[n] \notin {None, Suspended}

\* The predecessors of n that are done and route to it.
Inviting(n) == {p \in Preds(workflow, n) : Done(p) /\ n \in Route(p, outputs[p])}

-----------------------------------------------------------------------------
\* The weights on the edges of wait nodes, if any, select all of them.
Unweighted ==
  \A n \in Nodes : IsWait(n) => Route(n, Payload) = Targets(OutEdges(workflow, n))

\* In an acyclic graph a finished run has executed every node all of whose
\* predecessors led to it, and no node that none led to or that lacked an
\* input: the gate, the skipping of nodes, the resumption behind the waits
\* and resume-from leave no node out, and no branch that was not taken runs.
\* (A condition that is decided otherwise after resume-from, or that failed
\* and is retried when an answered wait node without successors starts the
\* graph again, leaves the old branch's outputs in place. The execution behind
\* an answered wait node starts at all its targets, whatever their weight.)
FinishedMeansDone ==
  phase = "finished" /\ Acyclic /\ Unweighted
    /\ ((Fresh /\ workflow \notin ErrorProne) \/ Unconditional) =>
    \A n \in Nodes : ~IsWait(n) =>
      /\ Inviting(n) = Preds(workflow, n) => Done(n)
      /\ Done(n) => /\ \A p \in Preds(workflow, n) : Done(p)
                    /\ Preds(workflow, n) # {} => Inviting(n) # {}

\* n lies behind a wait node, and a second one lies between n and d.
AcrossWaits(n, d) ==
  \E v, w \in {m \in Nodes : IsWait(m)} :
    Reaches(workflow, v, n) /\ Reaches(workflow, n, w) /\ Reaches(workflow, w, d)

\* An acyclic graph executes no node before one it depends on: when a node
\* executes, nothing downstream of it has, nor does in the same superstep.
\* Not so across two wait nodes: wait_node_function does not ask whether it
\* is blocked, so the second is armed along with the first, and once both are
\* answered what lies behind the second runs beside what lies between them.
\* (After an answered wait node without successors the graph starts again,
\* and retries failed nodes.)
AncestorsFirst ==
  [][Acyclic /\ Fresh /\ workflow \notin ErrorProne =>
       \A n \in Nodes : iterations'[n] > iterations[n] =>
         \A d \in Nodes \ {n} :
           Reaches(workflow, n, d) /\ ~AcrossWaits(n, d) => iterations'[d] = 0]_vars

\* The executions of n's predecessors that can bring it an input it has not
\* seen: of those the gate waits for, all but the first.
NewInputs(n) ==
  {x \in Preds(workflow, n) \X (1..MaxSteps) :
     /\ x[2] <= iterations[x[1]]
     /\ x[1] \in ForwardPreds(workflow, n) => x[2] > 1}

\* Each execution of a node is paid for by an input it has not seen: after
\* its first one it executes at most as often as its predecessors produced
\* something new. In an acyclic graph: at most once.
ExecutionsArePaid ==
  Fresh /\ workflow \notin ErrorProne =>
    \A n \in Nodes : iterations[n] <= 1 + Cardinality(NewInputs(n))

\* A finished run holds no result of outdated inputs: what a node consumed
\* is the final output of every predecessor that routes to it. (A result that
\* a suspension has overwritten is none.)
NoStaleInput ==
  phase = "finished" =>
    \A n \in Nodes : consumed[n] # NoRecord /\ outputs[n] # Suspended =>
      \A p \in Preds(workflow, n) :
        n \in Route(p, outputs[p]) =>
           consumed[n][p] = outputs[p]

-----------------------------------------------------------------------------
\* docs/FAQ.md:192: the skip-if-done predicate "skips any node that already
\* has a successful output". So a resumed run of an acyclic graph executes no
\* node whose successful output it has taken over.
ResumeSkipsDone ==
  [][Acyclic /\ resumes > 0 =>
       \A n \in Nodes : iterations[n] = 0 /\ iterations'[n] = 1 =>
         outputs[n] \in {None, Suspended, Error}]_vars
=============================================================================
