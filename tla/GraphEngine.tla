----------------------------- MODULE GraphEngine -----------------------------
(***************************************************************************)
(* One execution of a compiled workflow graph: the supersteps LangGraph    *)
(* takes over the graph json_to_langgraph builds, with the node functions  *)
(* of create_node_function, and the executions that follow it when a run   *)
(* continues after its wait nodes or is resumed from another run.          *)
(*                                                                         *)
(*   workflow    which workflow runs: Graph[workflow] is its graph         *)
(*   phase       "running", or how the execution has ended                 *)
(*   active      the nodes of the current superstep                        *)
(*   todo        those whose task has not finished                         *)
(*   writes      node_outputs the finished tasks want to write             *)
(*   outputs     state["node_outputs"], by node id                         *)
(*   consumed    state["_node_consumed_inputs"]                            *)
(*   iterations  length of state["node_iteration_outputs"][n]              *)
(*   steps       state["_step_count"]                                      *)
(*   supersteps  supersteps of this execution                              *)
(*   snapshot    outputs, steps and next node in the snapshot of the run's *)
(*               row; written after every superstep while the row says     *)
(*               "running", which it no longer does after a suspension     *)
(*   entered     state["_resume_next_node"]                                *)
(*   answered    the execution continues one that was suspended            *)
(*   resumes     how many times resume-from was used; bounded              *)
(*                                                                         *)
(* All tasks of a superstep read the same state; their writes are merged   *)
(* when the last of them has finished and are lost when one raises.        *)
(* Outputs are compared by hash: a value stands for a whole output entry.  *)
(***************************************************************************)
EXTENDS Naturals, FiniteSets, GraphShape

CONSTANTS
  Values,          \* output entries of node bodies
  TrueValues,      \* those a condition router reads as true
  ErrorProne,      \* workflows whose bodies may return an entry with "error"
  Faulty,          \* workflows with bodies that raise, lost workers, users who
                   \* cancel
  MaxSteps,        \* settings.max_graph_steps
  RecursionLimit,  \* LangGraph's limit on supersteps
  MaxResumes,      \* bound: uses of resume-from
  NoNode           \* no next node

None == "none"               \* no output yet
Suspended == "__suspended__"
Payload == "signal"          \* what a wait node's output becomes
Error == "error"
NoWrite == "nothing"
NoRecord == <<>>          \* no entry in _node_consumed_inputs

Output == Values \cup {None, Suspended, Payload, Error}

ASSUME ValuesAssumption ==
  /\ TrueValues \subseteq Values
  /\ Values \cap {None, Suspended, Payload, Error, NoWrite} = {}
  /\ NoNode \notin Nodes

ASSUME BoundsAssumption ==
  /\ ErrorProne \subseteq Workflows
  /\ Faulty \subseteq Workflows
  /\ MaxSteps \in Nat
  /\ RecursionLimit \in Nat \ {0}
  /\ MaxResumes \in Nat

VARIABLES workflow, phase, active, todo, writes, outputs, consumed, iterations,
          steps, supersteps, snapshot, entered, answered, resumes

state == <<outputs, consumed, iterations, steps>>
task == <<active, todo, writes, supersteps>>
run == <<snapshot, entered, answered, resumes>>
vars == <<workflow, phase, task, state, run>>

-----------------------------------------------------------------------------
(* json_to_langgraph: entries and routing.                                 *)

\* The condition node's output as its router reads it. A marker is a
\* non-empty dict; an error entry's "output" is null.
Branch(o) == IF o \in TrueValues \cup {Suspended} THEN "true" ELSE "false"

Targets(edges) == {e.to : e \in edges}

\* The weighted router; weights are tenths. Of the heaviest edges it takes
\* the one that is first in the workflow.
Weighted(edges) ==
  LET valid == {e \in edges : e.weight >= 1}
      high == {e \in valid : e.weight >= 7}
      best == {e \in valid : \A f \in valid : f.weight <= e.weight}
  IN  CASE \A e \in valid : e.weight = 10 -> Targets(valid)
        [] high # {} -> Targets(high)
        [] OTHER -> {(CHOOSE e \in best : TRUE).to}

\* The nodes n triggers when its output is o.
Route(n, o) ==
  LET out == OutEdges(workflow, n)
  IN  CASE IsRouter(workflow, n) ->
             Targets({e \in out : e.handle = Branch(o)})
        [] ~IsRouter(workflow, n) /\ Cardinality(out) <= 1 -> Targets(out)
        [] OTHER -> Weighted(out)

\* The weighted router raises: no edge has weight.
NoRoute(n) ==
  /\ ~IsRouter(workflow, n)
  /\ Cardinality(OutEdges(workflow, n)) > 1
  /\ \A e \in OutEdges(workflow, n) : e.weight < 1

\* Entry points: the targets of answered waits, else the node to resume at
\* (cyclic graphs), else the graph's own entries.
EntryPoints(afterWaits, resumeNext) ==
  IF afterWaits # {} THEN afterWaits
  ELSE IF resumeNext # NoNode /\ Cyclic(workflow) THEN {resumeNext}
  ELSE Graph[workflow].entry

Snapshot(outs, count, nextNode) ==
  [outputs |-> outs, steps |-> count, next |-> nextNode]

Activate(nodes) ==
  /\ active' = nodes
  /\ todo' = nodes
  /\ writes' = [n \in Nodes |-> NoWrite]

Init ==
  /\ workflow \in Workflows
  /\ phase = "running"
  /\ active = Graph[workflow].entry
  /\ todo = active
  /\ writes = [n \in Nodes |-> NoWrite]
  /\ outputs = [n \in Nodes |-> None]
  /\ consumed = [n \in Nodes |-> NoRecord]
  /\ iterations = [n \in Nodes |-> 0]
  /\ steps = 0
  /\ supersteps = 0
  /\ snapshot = Snapshot(outputs, 0, NoNode)
  /\ entered = NoNode
  /\ answered = FALSE
  /\ resumes = 0

-----------------------------------------------------------------------------
(* The tasks of a superstep: wait_node_function and node_function.         *)

IsWait(n) == Graph[workflow].kind[n] = "wait"

\* Mutant: markers of propagation do not count.
SuspendedByWait(n) ==
  \E p \in Sources(workflow, n) : IsWait(p) /\ outputs[p] = Suspended

SuspendedInput(n) == \E p \in Sources(workflow, n) : outputs[p] = Suspended

\* Mutant: one input is enough.
MissingAll(n) ==
  LET preds == ForwardPreds(workflow, n)
  IN  IF \E p \in preds : outputs[p] # None THEN {} ELSE preds

\* The AND-join gate.
Missing(n) == {p \in ForwardPreds(workflow, n) : outputs[p] = None}

CurrentInputs(n) ==
  [p \in Nodes |-> IF p \in Preds(workflow, n) THEN outputs[p] ELSE None]

\* Mutant: consumed inputs are not compared.
NeverConsumed(n) == consumed[n] = NoRecord

InputsChanged(n) ==
  \/ consumed[n] = NoRecord
  \/ \E p \in Preds(workflow, n) : consumed[n][p] # outputs[p]

\* Mutant: the second execution skips nothing.
IsDoneAtFirst(n) ==
  /\ ~answered
  /\ outputs[n] \notin {None, Suspended, Error} /\ ~InputsChanged(n)

\* Skip-if-done.
IsDone(n) == outputs[n] \notin {None, Suspended, Error} /\ ~InputsChanged(n)

MustExecute(n) ==
  ~IsWait(n) /\ ~SuspendedInput(n) /\ Missing(n) = {} /\ ~IsDone(n)

\* The task of n ends and wants to write w.
EndTask(n, w) ==
  /\ phase = "running" /\ n \in todo /\ ~NoRoute(n)
  /\ todo' = todo \ {n}
  /\ writes' = [writes EXCEPT ![n] = w]
  /\ UNCHANGED <<workflow, phase, active, supersteps, state, run>>

ArmWait(n) ==
  IsWait(n) /\ outputs[n] \in {None, Suspended} /\ EndTask(n, Suspended)

SkipAnswered(n) ==
  IsWait(n) /\ outputs[n] \notin {None, Suspended} /\ EndTask(n, NoWrite)

Propagate(n) == ~IsWait(n) /\ SuspendedInput(n) /\ EndTask(n, Suspended)

HoldAtGate(n) ==
  /\ ~IsWait(n) /\ ~SuspendedInput(n) /\ Missing(n) # {}
  /\ EndTask(n, NoWrite)

SkipDone(n) ==
  /\ ~IsWait(n) /\ ~SuspendedInput(n) /\ Missing(n) = {} /\ IsDone(n)
  /\ EndTask(n, NoWrite)

\* Mutant: one step too many.
ExecuteOnceMore(n) ==
  /\ MustExecute(n) /\ steps <= MaxSteps
  /\ \E v \in Values : EndTask(n, v)

Execute(n) ==
  /\ MustExecute(n) /\ steps < MaxSteps
  /\ \E v \in Values \cup (IF workflow \in ErrorProne THEN {Error} ELSE {}) :
       EndTask(n, v)

\* The execution ends without the writes of this superstep. The run's
\* snapshot becomes the state before it, without a next node.
Fail(outs) ==
  /\ phase = "running"
  /\ phase' = "failed"
  /\ snapshot' = Snapshot(outs, steps, NoNode)
  /\ UNCHANGED <<workflow, task, state, entered, answered, resumes>>

\* The body raises, or the step guard does.
RaiseInBody(n) ==
  n \in todo /\ MustExecute(n) /\ (workflow \in Faulty \/ steps >= MaxSteps) /\ Fail(outputs)

RaiseInRouter(n) == n \in todo /\ NoRoute(n) /\ Fail(outputs)

\* The activity is cancelled: at most one python node that was running gets
\* an error entry in the snapshot.
Cancel ==
  /\ workflow \in Faulty
  /\ \/ Fail(outputs)
     \/ \E n \in todo : MustExecute(n) /\ Fail([outputs EXCEPT ![n] = Error])

\* The worker is lost, in the last attempt: the snapshot stays as it is.
LoseWorker ==
  /\ workflow \in Faulty /\ phase = "running"
  /\ phase' = "failed"
  /\ UNCHANGED <<workflow, task, state, run>>

-----------------------------------------------------------------------------
(* The end of a superstep.                                                 *)

Fired(n) == writes[n] \in Values \cup {Error}

\* The reducers of GraphState.
Merge ==
  /\ outputs' = [n \in Nodes |->
                   IF writes[n] = NoWrite THEN outputs[n] ELSE writes[n]]
  /\ consumed' = [n \in Nodes |->
                    IF Fired(n) THEN CurrentInputs(n) ELSE consumed[n]]
  /\ iterations' = [n \in Nodes |->
                      IF Fired(n) THEN iterations[n] + 1 ELSE iterations[n]]
  /\ steps' = IF \E n \in Nodes : Fired(n) THEN steps + 1 ELSE steps

\* The snapshot's next node: the first route of a node whose output has
\* changed. Only cyclic graphs use it.
NextNodes ==
  LET changed == {n \in Nodes : outputs'[n] # outputs[n]}
      after(n) == Route(n, outputs'[n])
  IN  IF changed = {} \/ ~Cyclic(workflow) THEN {NoNode}
      ELSE UNION {IF after(n) = {} THEN {NoNode} ELSE after(n) : n \in changed}

PersistPartial ==
  IF answered THEN UNCHANGED snapshot
  ELSE \E n \in NextNodes : snapshot' = Snapshot(outputs', steps', n)

\* The nodes triggered by this superstep; a node that wrote nothing still
\* triggers its successors.
Triggered == UNION {Route(n, outputs'[n]) : n \in active}

EndSuperstep ==
  /\ phase = "running" /\ todo = {}
  /\ Merge
  /\ supersteps' = supersteps + 1
  /\ UNCHANGED <<workflow, entered, answered, resumes>>

Advance ==
  /\ EndSuperstep
  /\ supersteps' < RecursionLimit
  /\ Triggered # {}
  /\ Activate(Triggered)
  /\ PersistPartial
  /\ UNCHANGED phase

\* GraphRecursionError.
Overrun ==
  /\ EndSuperstep
  /\ supersteps' >= RecursionLimit
  /\ Triggered # {}
  /\ phase' = "failed"
  /\ snapshot' = Snapshot(outputs', steps', NoNode)
  /\ UNCHANGED <<active, todo, writes>>

Waiting == {n \in Nodes : IsWait(n) /\ outputs[n] = Suspended}

Complete ==
  /\ EndSuperstep
  /\ Triggered = {}
  /\ phase' = IF Waiting' = {} THEN "finished" ELSE "suspended"
  /\ PersistPartial
  /\ UNCHANGED <<active, todo, writes>>

-----------------------------------------------------------------------------
(* Later executions.                                                       *)

\* GraphExecutorWorkflow.run: every pending wait has its signal. A second
\* suspension is not continued.
AnswerWaits ==
  /\ phase = "suspended" /\ ~answered
  /\ phase' = "running"
  /\ answered' = TRUE
  /\ outputs' = [n \in Nodes |-> IF n \in Waiting THEN Payload ELSE outputs[n]]
  /\ Activate(EntryPoints(UNION {Targets(OutEdges(workflow, n)) : n \in Waiting},
                          entered))
  /\ supersteps' = 0
  /\ UNCHANGED <<workflow, consumed, iterations, steps, snapshot, entered, resumes>>

\* create_run_resume_from: the run has failed and has outputs.
Resumable == phase = "failed" /\ \E n \in Nodes : snapshot.outputs[n] # None

\* start_temporal_workflow_resume, from node cut on or from where the run
\* stopped.
ResumeFrom(cut) ==
  LET removed == IF cut = NoNode THEN {} ELSE {m \in Nodes : Reaches(workflow, cut, m)}
  IN
  /\ Resumable /\ resumes < MaxResumes
  /\ phase' = "running"
  /\ outputs' = [n \in Nodes |-> IF n \in removed THEN None
                                ELSE snapshot.outputs[n]]
  /\ steps' = snapshot.steps
  /\ consumed' = [n \in Nodes |-> NoRecord]
  /\ iterations' = [n \in Nodes |-> 0]
  /\ entered' = snapshot.next
  /\ snapshot' = Snapshot(outputs', steps', NoNode)
  /\ Activate(EntryPoints({}, snapshot.next))
  /\ supersteps' = 0
  /\ answered' = FALSE
  /\ resumes' = resumes + 1
  /\ UNCHANGED workflow

Task(n) ==
  \/ ArmWait(n)
  \/ SkipAnswered(n)
  \/ Propagate(n)
  \/ HoldAtGate(n)
  \/ SkipDone(n)
  \/ Execute(n)
  \/ RaiseInBody(n)
  \/ RaiseInRouter(n)

Next ==
  \/ \E n \in Nodes : Task(n)
  \/ Cancel
  \/ LoseWorker
  \/ Advance
  \/ Overrun
  \/ Complete
  \/ AnswerWaits
  \/ \E cut \in Nodes \cup {NoNode} : ResumeFrom(cut)

Spec == Init /\ [][Next]_vars
=============================================================================
