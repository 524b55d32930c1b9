-------------------------- MODULE GraphEngineProofs --------------------------
(***************************************************************************)
(* Theorems about GraphEngine, for every set of workflow graphs, every set *)
(* of values and every bound.                                              *)
(***************************************************************************)
EXTENDS GraphEngineProperties, FiniteSetTheorems, TLAPS

-----------------------------------------------------------------------------
(* The shape of a graph                                                    *)

\* Edges join nodes, with a weight of ten tenths at most.
LEMMA EdgeType ==
  ASSUME NEW w \in Workflows, NEW e \in Graph[w].edges
  PROVE  e.from \in Nodes /\ e.to \in Nodes /\ e.weight \in 0..10
BY GraphsAssumption DEF Edge

\* Reachability holds of a node itself, and along the edges.
LEMMA ReachesSelf ==
  ASSUME NEW w \in Workflows, NEW u \in Nodes
  PROVE  Reaches(w, u, u)
BY DEF Reaches, Reach

LEMMA ReachesStep ==
  ASSUME NEW w \in Workflows, NEW u, NEW e \in Graph[w].edges,
         Reaches(w, u, e.from)
  PROVE  Reaches(w, u, e.to)
<1>1. e.to \in Nodes /\ u \in Nodes
  BY EdgeType DEF Reaches, Reach
<1>2. ASSUME NEW S \in SUBSET Nodes, u \in S, Closed(w, S) PROVE e.to \in S
  <2>1. e.from \in S
    BY <1>2 DEF Reaches, Reach
  <2> QED
    BY <1>2, <2>1 DEF Closed
<1> QED
  BY <1>1, <1>2 DEF Reaches, Reach

\* What holds of a node and is handed on by every edge holds downstream.
LEMMA ReachesInduct ==
  ASSUME NEW w \in Workflows, NEW u, NEW v, Reaches(w, u, v),
         NEW S \in SUBSET Nodes, u \in S, Closed(w, S)
  PROVE  v \in S
BY DEF Reaches, Reach

LEMMA ReachesTrans ==
  ASSUME NEW w \in Workflows, NEW u, NEW v, NEW x,
         Reaches(w, u, v), Reaches(w, v, x)
  PROVE  Reaches(w, u, x)
<1> DEFINE S == {y \in Nodes : Reaches(w, u, y)}
<1>1. Closed(w, S)
  BY EdgeType, ReachesStep DEF Closed
<1>2. v \in S
  BY DEF Reaches, Reach
<1>3. x \in S
  BY <1>1, <1>2, ReachesInduct
<1> QED
  BY <1>3

\* Without a cycle, no edge leads back.
LEMMA NoWayBack ==
  ASSUME NEW w \in Workflows, ~Cyclic(w), NEW e \in Graph[w].edges
  PROVE  ~Reaches(w, e.to, e.from)
BY DEF Cyclic, Loops

\* ... so the gate waits for every predecessor, and sources are predecessors.
LEMMA AcyclicPreds ==
  ASSUME NEW w \in Workflows, ~Cyclic(w), NEW n \in Nodes
  PROVE  /\ ForwardPreds(w, n) = Preds(w, n)
         /\ Sources(w, n) = Preds(w, n)
         /\ Preds(w, n) \subseteq Nodes
<1>1. ASSUME NEW p \in Sources(w, n)
      PROVE  p # n /\ p \in Nodes /\ ~SameScc(w, p, n)
  <2>1. PICK e \in Graph[w].edges : e.from = p /\ e.to = n
    BY DEF Sources
  <2>2. ~Reaches(w, n, p)
    BY <2>1, NoWayBack
  <2> QED
    BY <2>1, <2>2, EdgeType, ReachesSelf DEF SameScc
<1> QED
  BY <1>1 DEF ForwardPreds, Preds

LEMMA PredsType ==
  ASSUME NEW w \in Workflows, NEW n \in Nodes
  PROVE  Sources(w, n) \subseteq Nodes /\ Preds(w, n) \subseteq Nodes
BY EdgeType DEF Sources, Preds

\* The heaviest of several edges exists: the weights are bounded.
LEMMA HeaviestEdge ==
  ASSUME NEW w \in Workflows, NEW E \in SUBSET Graph[w].edges, E # {}
  PROVE  \E e \in E : \A f \in E : f.weight <= e.weight
<1> DEFINE Above(k) == \A f \in E : f.weight <= k
           Has(k) == \E e \in E : e.weight = k
<1>1. \A f \in E : f.weight \in 0..10
  BY EdgeType
<1>2. Above(10)
  BY <1>1
<1>3. ASSUME NEW k \in 1..10, Above(k) PROVE Has(k) \/ Above(k - 1)
  BY <1>1, <1>3
<1>4. ASSUME NEW k \in 0..10, Above(k), Has(k)
      PROVE  \E e \in E : \A f \in E : f.weight <= e.weight
  BY <1>4
<1>5. Above(0) => Has(0)
  BY <1>1
<1> HIDE DEF Above, Has
<1>6. \E k \in 0..10 : Above(k) /\ Has(k)
  <2>1. Above(5) \/ \E k \in 0..10 : Above(k) /\ Has(k)
    BY <1>2, <1>3
  <2> QED
    BY <2>1, <1>3, <1>5
<1> QED
  BY <1>4, <1>6

\* A node is followed by targets of its edges.
LEMMA RouteTargets ==
  ASSUME workflow \in Workflows, NEW n \in Nodes, NEW o
  PROVE  /\ Route(n, o) \subseteq Targets(OutEdges(workflow, n))
         /\ Route(n, o) \subseteq Nodes
<1> DEFINE out == OutEdges(workflow, n)
           valid == {e \in out : e.weight >= 1}
           high == {e \in valid : e.weight >= 7}
           best == {e \in valid : \A f \in valid : f.weight <= e.weight}
<1>1. out \subseteq Graph[workflow].edges
  BY DEF OutEdges
<1>2. Weighted(out) \subseteq Targets(out)
  <2>1. CASE valid = {}
    <3>1. \A e \in valid : e.weight = 10
      BY <2>1
    <3>2. high = {}
      BY <2>1
    <3>3. Weighted(out) = Targets(valid)
      BY <3>1, <3>2 DEF Weighted
    <3> QED
      BY <3>3 DEF Targets
  <2>2. CASE valid # {}
    <3>1. best # {}
      BY <1>1, <2>2, HeaviestEdge
    <3>2. (CHOOSE e \in best : TRUE) \in out
      BY <3>1
    <3>3. /\ Targets(valid) \subseteq Targets(out)
          /\ Targets(high) \subseteq Targets(out)
          /\ {(CHOOSE e \in best : TRUE).to} \subseteq Targets(out)
      BY <3>2 DEF Targets
    <3>4. \/ Weighted(out) = Targets(valid)
          \/ Weighted(out) = Targets(high)
          \/ Weighted(out) = {(CHOOSE e \in best : TRUE).to}
      BY DEF Weighted
    <3> QED
      BY <3>3, <3>4
  <2> QED
    BY <2>1, <2>2
<1>3. Targets({e \in out : e.handle = Branch(o)}) \subseteq Targets(out)
  BY DEF Targets
<1>4. Route(n, o) \subseteq Targets(out)
  <2>1. \/ Route(n, o) = Targets({e \in out : e.handle = Branch(o)})
        \/ Route(n, o) = Targets(out)
        \/ Route(n, o) = Weighted(out)
    BY DEF Route
  <2> QED
    BY <1>2, <1>3, <2>1
<1>5. Targets(out) \subseteq Nodes
  BY <1>1, EdgeType DEF Targets
<1> QED
  BY <1>4, <1>5

-----------------------------------------------------------------------------
(* Type correctness                                                        *)

\* What the bounds of the counters rest on: only a node that found the step
\* guard open may fire, and a running execution is below the limit.
CountInv ==
  phase = "running" =>
    /\ supersteps < RecursionLimit
    /\ \A n \in Nodes : Fired(n) => steps < MaxSteps

TypeInv == TypeOK /\ CountInv

Writes == (Output \ {None, Payload}) \cup {NoWrite}

LEMMA TypeInvInit == Init => TypeInv
<1> SUFFICES ASSUME Init PROVE TypeInv
  OBVIOUS
<1>1. active \subseteq Nodes /\ active # {}
  BY GraphsAssumption DEF Init
<1>2. None \in Output /\ NoWrite \in Writes /\ NoWrite \notin Values \cup {Error}
  BY ValuesAssumption DEF Output, Writes, None, NoWrite, Error, Payload, Suspended
<1>3. steps \in 0..MaxSteps /\ supersteps \in 0..RecursionLimit /\ resumes \in 0..MaxResumes
  BY BoundsAssumption DEF Init
<1>4. snapshot \in [outputs : [Nodes -> Output], steps : 0..MaxSteps,
                    next : Nodes \cup {NoNode}]
  BY <1>2, <1>3 DEF Init, Snapshot
<1>5. TypeOK
  BY <1>1, <1>2, <1>3, <1>4 DEF Init, TypeOK, Writes
<1>6. CountInv
  BY <1>2, BoundsAssumption DEF Init, CountInv, Fired
<1> QED
  BY <1>5, <1>6 DEF TypeInv

\* A task ends.
LEMMA EndTaskType ==
  ASSUME TypeInv, NEW n \in Nodes, NEW w \in Writes, EndTask(n, w),
         w \in Values \cup {Error} => steps < MaxSteps
  PROVE  TypeInv'
<1> USE DEF state, run
<1>1. /\ UNCHANGED <<workflow, phase, active, supersteps, outputs, consumed,
                     iterations, steps, snapshot, entered, answered, resumes>>
      /\ todo' = todo \ {n} /\ writes' = [writes EXCEPT ![n] = w]
      /\ phase = "running"
  BY DEF EndTask
<1>2. writes \in [Nodes -> Writes]
  BY DEF TypeInv, TypeOK, Writes
<1>3. writes' \in [Nodes -> Writes]
  BY <1>1, <1>2
<1>4. TypeOK'
  BY <1>1, <1>3 DEF TypeInv, TypeOK, Writes
<1>5. \A m \in Nodes : Fired(m)' => steps' < MaxSteps
  BY <1>1, <1>2 DEF TypeInv, CountInv, Fired
<1> QED
  BY <1>1, <1>4, <1>5 DEF TypeInv, CountInv

LEMMA TaskType ==
  ASSUME TypeInv, NEW n \in Nodes, Task(n), ~RaiseInBody(n), ~RaiseInRouter(n)
  PROVE  TypeInv'
<1>1. /\ Suspended \in Writes /\ NoWrite \in Writes
      /\ \A v \in Values : v \in Writes
      /\ Error \in Writes
      /\ Suspended \notin Values \cup {Error} /\ NoWrite \notin Values \cup {Error}
  BY ValuesAssumption DEF Writes, Output, None, Suspended, Payload, Error, NoWrite
<1>2. ASSUME NEW w \in {Suspended, NoWrite}, EndTask(n, w) PROVE TypeInv'
  BY <1>1, <1>2, EndTaskType
<1>3. ASSUME Execute(n) PROVE TypeInv'
  <2>1. PICK v \in Values \cup {Error} : EndTask(n, v)
    BY <1>3 DEF Execute
  <2>2. steps < MaxSteps
    BY <1>3 DEF Execute
  <2> QED
    BY <1>1, <2>1, <2>2, EndTaskType
<1> QED
  BY <1>2, <1>3 DEF Task, ArmWait, SkipAnswered, Propagate, HoldAtGate, SkipDone

\* The execution fails before the end of the superstep.
LEMMA FailType ==
  ASSUME TypeInv, NEW outs \in [Nodes -> Output], Fail(outs)
  PROVE  TypeInv'
<1> USE DEF state, task
<1>1. snapshot' \in [outputs : [Nodes -> Output], steps : 0..MaxSteps,
                     next : Nodes \cup {NoNode}]
  BY DEF Fail, Snapshot, TypeInv, TypeOK
<1>2. TypeOK'
  BY <1>1 DEF Fail, TypeInv, TypeOK
<1> QED
  BY <1>2 DEF Fail, TypeInv, CountInv

\* The reducers keep the types.
LEMMA MergeType ==
  ASSUME TypeInv, phase = "running", Merge
  PROVE  /\ outputs' \in [Nodes -> Output]
         /\ \A n \in Nodes : consumed'[n] = NoRecord
                             \/ consumed'[n] \in [Nodes -> Output]
         /\ iterations' \in [Nodes -> Nat]
         /\ steps' \in 0..MaxSteps
<1>1. /\ writes \in [Nodes -> Writes] /\ outputs \in [Nodes -> Output]
      /\ \A n \in Nodes : consumed[n] = NoRecord \/ consumed[n] \in [Nodes -> Output]
      /\ iterations \in [Nodes -> Nat] /\ steps \in 0..MaxSteps /\ MaxSteps \in Nat
  BY BoundsAssumption DEF TypeInv, TypeOK, Writes
<1>2. \A n \in Nodes : writes[n] = NoWrite \/ writes[n] \in Output
  BY <1>1 DEF Writes
<1>3. None \in Output
  BY DEF Output
<1>4. \A n \in Nodes : CurrentInputs(n) \in [Nodes -> Output]
  BY <1>1, <1>3 DEF CurrentInputs
<1>5. (\E n \in Nodes : Fired(n)) => steps + 1 \in 0..MaxSteps
  BY <1>1 DEF TypeInv, CountInv
<1>6. outputs' \in [Nodes -> Output]
  BY <1>1, <1>2 DEF Merge
<1>7. \A n \in Nodes : consumed'[n] = NoRecord \/ consumed'[n] \in [Nodes -> Output]
  BY <1>1, <1>4 DEF Merge
<1>8. iterations' \in [Nodes -> Nat]
  BY <1>1 DEF Merge
<1>9. steps' \in 0..MaxSteps
  BY <1>1, <1>5 DEF Merge
<1> QED
  BY <1>6, <1>7, <1>8, <1>9

\* Whatever comes next, it is some nodes of the graph.
LEMMA TargetsType ==
  ASSUME TypeOK
  PROVE  /\ Triggered \subseteq Nodes
         /\ NextNodes \subseteq Nodes \cup {NoNode}
         /\ \A W \in SUBSET Nodes, n \in Nodes \cup {NoNode} :
              EntryPoints(W, n) \subseteq Nodes /\ EntryPoints(W, n) # {}
<1>1. workflow \in Workflows /\ active \subseteq Nodes
  BY DEF TypeOK
<1>2. \A n \in Nodes : \A o : Route(n, o) \subseteq Nodes
  BY <1>1, RouteTargets
<1>3. Triggered \subseteq Nodes
  BY <1>1, <1>2 DEF Triggered
<1>4. NextNodes \subseteq Nodes \cup {NoNode}
  <2> DEFINE changed == {n \in Nodes : outputs'[n] # outputs[n]}
             after(n) == Route(n, outputs'[n])
             next == UNION {IF after(n) = {} THEN {NoNode} ELSE after(n) : n \in changed}
  <2>1. \A n \in changed : after(n) \subseteq Nodes
    BY <1>2
  <2>2. next \subseteq Nodes \cup {NoNode}
    BY <2>1
  <2>3. NextNodes = {NoNode} \/ NextNodes = next
    BY DEF NextNodes
  <2> QED
    BY <2>2, <2>3
<1>5. \A W \in SUBSET Nodes, n \in Nodes \cup {NoNode} :
        EntryPoints(W, n) \subseteq Nodes /\ EntryPoints(W, n) # {}
  BY <1>1, GraphsAssumption DEF EntryPoints
<1> QED
  BY <1>3, <1>4, <1>5

\* The superstep ends.
LEMMA SuperstepType ==
  ASSUME TypeInv, Advance \/ Overrun \/ Complete
  PROVE  TypeInv'
<1>1. /\ EndSuperstep /\ Merge /\ phase = "running"
      /\ supersteps' = supersteps + 1
      /\ UNCHANGED <<workflow, entered, answered, resumes>>
  BY DEF Advance, Overrun, Complete, EndSuperstep
<1>2. /\ outputs' \in [Nodes -> Output]
      /\ \A n \in Nodes : consumed'[n] = NoRecord \/ consumed'[n] \in [Nodes -> Output]
      /\ iterations' \in [Nodes -> Nat]
      /\ steps' \in 0..MaxSteps
  BY <1>1, MergeType
<1>3. supersteps' \in 0..RecursionLimit
  BY <1>1, BoundsAssumption DEF TypeInv, TypeOK, CountInv
<1>4. TypeOK
  BY DEF TypeInv
<1> DEFINE SnapType == snapshot' \in [outputs : [Nodes -> Output], steps : 0..MaxSteps,
                                      next : Nodes \cup {NoNode}]
<1>5. ASSUME PersistPartial PROVE SnapType
  <2>1. CASE answered
    BY <1>5, <2>1 DEF PersistPartial, TypeInv, TypeOK
  <2>2. CASE ~answered
    <3>1. PICK n \in NextNodes : snapshot' = Snapshot(outputs', steps', n)
      BY <1>5, <2>2 DEF PersistPartial
    <3>2. n \in Nodes \cup {NoNode}
      BY <1>4, TargetsType
    <3> QED
      BY <1>2, <3>1, <3>2 DEF Snapshot
  <2> QED
    BY <2>1, <2>2
<1>6. CASE Advance
  <2>1. SnapType
    BY <1>5, <1>6 DEF Advance
  <2>2. /\ active' = Triggered /\ todo' = Triggered
        /\ writes' = [n \in Nodes |-> NoWrite]
        /\ phase' = "running" /\ supersteps' < RecursionLimit
        /\ Triggered # {}
    BY <1>1, <1>6 DEF Advance, Activate
  <2>3. Triggered \subseteq Nodes
    BY <1>4, TargetsType
  <2>4. TypeOK'
    BY <1>1, <1>2, <1>3, <2>1, <2>2, <2>3 DEF TypeInv, TypeOK
  <2>5. \A n \in Nodes : ~Fired(n)'
    BY <2>2, ValuesAssumption DEF Fired, NoWrite, Error
  <2> QED
    BY <2>2, <2>4, <2>5 DEF TypeInv, CountInv
<1>7. CASE Overrun
  <2>1. SnapType
    BY <1>2, <1>7 DEF Overrun, Snapshot
  <2>2. phase' = "failed" /\ UNCHANGED <<active, todo, writes>>
    BY <1>7 DEF Overrun
  <2>3. TypeOK'
    BY <1>1, <1>2, <1>3, <2>1, <2>2 DEF TypeInv, TypeOK
  <2> QED
    BY <2>2, <2>3 DEF TypeInv, CountInv
<1>8. CASE Complete
  <2>1. SnapType
    BY <1>5, <1>8 DEF Complete
  <2>2. phase' \in {"finished", "suspended"} /\ UNCHANGED <<active, todo, writes>>
    BY <1>8 DEF Complete
  <2>3. TypeOK'
    BY <1>1, <1>2, <1>3, <2>1, <2>2 DEF TypeInv, TypeOK
  <2> QED
    BY <2>2, <2>3 DEF TypeInv, CountInv
<1> QED
  BY <1>6, <1>7, <1>8

\* A later execution starts.
LEMMA AnswerType ==
  ASSUME TypeInv, AnswerWaits
  PROVE  TypeInv'
<1> DEFINE W == UNION {Targets(OutEdges(workflow, n)) : n \in Waiting}
<1>1. workflow \in Workflows /\ entered \in Nodes \cup {NoNode}
      /\ outputs \in [Nodes -> Output] /\ Payload \in Output
  BY DEF TypeInv, TypeOK, Output
<1>2. W \subseteq Nodes
  BY <1>1, EdgeType DEF Targets, OutEdges
<1>3. active' \subseteq Nodes /\ active' # {} /\ todo' = active'
  BY <1>1, <1>2, TargetsType DEF AnswerWaits, Activate, TypeInv
<1>4. /\ writes' = [n \in Nodes |-> NoWrite] /\ phase' = "running" /\ supersteps' = 0
      /\ answered' = TRUE
      /\ UNCHANGED <<workflow, consumed, iterations, steps, snapshot, entered, resumes>>
  BY DEF AnswerWaits, Activate
<1>5. outputs' \in [Nodes -> Output]
  BY <1>1 DEF AnswerWaits
<1>6. 0 \in 0..RecursionLimit /\ 0 < RecursionLimit
  BY BoundsAssumption
<1>7. TypeOK'
  BY <1>3, <1>4, <1>5, <1>6 DEF TypeInv, TypeOK
<1>8. \A n \in Nodes : ~Fired(n)'
  BY <1>4, ValuesAssumption DEF Fired, NoWrite, Error
<1> QED
  BY <1>4, <1>6, <1>7, <1>8 DEF TypeInv, CountInv

LEMMA ResumeType ==
  ASSUME TypeInv, NEW cut \in Nodes \cup {NoNode}, ResumeFrom(cut)
  PROVE  TypeInv'
<1>1. /\ workflow \in Workflows /\ snapshot.outputs \in [Nodes -> Output]
      /\ snapshot.steps \in 0..MaxSteps /\ snapshot.next \in Nodes \cup {NoNode}
      /\ None \in Output /\ resumes \in 0..MaxResumes
  BY DEF TypeInv, TypeOK, Output
<1>2. active' \subseteq Nodes /\ active' # {} /\ todo' = active'
  BY <1>1, TargetsType DEF ResumeFrom, Activate, TypeInv
<1>3. /\ writes' = [n \in Nodes |-> NoWrite] /\ phase' = "running" /\ supersteps' = 0
      /\ answered' = FALSE /\ steps' = snapshot.steps /\ entered' = snapshot.next
      /\ consumed' = [n \in Nodes |-> NoRecord]
      /\ iterations' = [n \in Nodes |-> 0]
      /\ snapshot' = Snapshot(outputs', steps', NoNode)
      /\ resumes' = resumes + 1 /\ resumes < MaxResumes
      /\ UNCHANGED workflow
  BY DEF ResumeFrom, Activate
<1>4. outputs' \in [Nodes -> Output]
  BY <1>1 DEF ResumeFrom
<1>5. snapshot' \in [outputs : [Nodes -> Output], steps : 0..MaxSteps,
                     next : Nodes \cup {NoNode}]
  BY <1>1, <1>3, <1>4 DEF Snapshot
<1>6. 0 \in 0..RecursionLimit /\ 0 < RecursionLimit /\ resumes' \in 0..MaxResumes
  BY <1>1, <1>3, BoundsAssumption
<1>7. TypeOK'
  BY <1>1, <1>2, <1>3, <1>4, <1>5, <1>6 DEF TypeInv, TypeOK
<1>8. \A n \in Nodes : ~Fired(n)'
  BY <1>3, ValuesAssumption DEF Fired, NoWrite, Error
<1> QED
  BY <1>3, <1>6, <1>7, <1>8 DEF TypeInv, CountInv

LEMMA TypeInvStep == TypeInv /\ [Next]_vars => TypeInv'
<1> SUFFICES ASSUME TypeInv, [Next]_vars PROVE TypeInv'
  OBVIOUS
<1>1. outputs \in [Nodes -> Output] /\ Error \in Output
  BY DEF TypeInv, TypeOK, Output
<1>2. ASSUME NEW n \in Nodes, Task(n) PROVE TypeInv'
  BY <1>1, <1>2, TaskType, FailType DEF RaiseInBody, RaiseInRouter
<1>3. CASE Cancel
  <2>1. \A n \in Nodes : [outputs EXCEPT ![n] = Error] \in [Nodes -> Output]
    BY <1>1
  <2>2. todo \subseteq Nodes
    BY DEF TypeInv, TypeOK
  <2> QED
    BY <1>1, <1>3, <2>1, <2>2, FailType DEF Cancel
<1>4. CASE LoseWorker
  BY <1>4 DEF LoseWorker, TypeInv, TypeOK, CountInv, state, task, run
<1>5. CASE UNCHANGED vars
  BY <1>5 DEF vars, TypeInv, TypeOK, CountInv, Fired, state, task, run
<1> QED
  BY <1>2, <1>3, <1>4, <1>5, SuperstepType, AnswerType, ResumeType DEF Next

LEMMA TypeInvariant == Spec => []TypeInv
BY TypeInvInit, TypeInvStep, PTL DEF Spec

\* The variables keep their types; above all the step guard and LangGraph's
\* limit bound the steps and the supersteps of every execution of every graph.
THEOREM TypeCorrect == Spec => []TypeOK
BY TypeInvariant, PTL DEF TypeInv

-----------------------------------------------------------------------------
(* What the tasks of a superstep write                                     *)
(*                                                                         *)
(* All of them read the state in which the superstep began, so what a      *)
(* finished task has written is settled by that state.                     *)

Blocked(n) ==
  \/ IsWait(n) /\ ~Done(n)
  \/ ~IsWait(n) /\ SuspendedInput(n)

WriteInv ==
  phase = "running" =>
    \A n \in Nodes :
      /\ writes[n] # NoWrite => n \in active \ todo
      /\ Fired(n) => MustExecute(n)
      /\ writes[n] = Suspended => Blocked(n)
      /\ n \in active \ todo /\ MustExecute(n) => Fired(n)
      /\ n \in active \ todo /\ Blocked(n) => writes[n] = Suspended
      /\ workflow \notin ErrorProne => writes[n] # Error

StateInv == TypeInv /\ WriteInv

\* The markers are no values, and differ.
LEMMA Markers ==
  /\ None \notin Values /\ Suspended \notin Values /\ Payload \notin Values
  /\ Error \notin Values /\ NoWrite \notin Values
  /\ None # Suspended /\ None # Payload /\ Suspended # Payload
  /\ NoWrite # Error /\ NoWrite # Suspended /\ Suspended # Error
  /\ Payload # Error /\ None # Error /\ NoWrite # None
BY ValuesAssumption DEF None, Suspended, Payload, Error, NoWrite

\* What the tasks read.
LEMMA TasksRead ==
  ASSUME UNCHANGED <<workflow, outputs, consumed>>
  PROVE  \A n \in Nodes : /\ IsWait(n)' <=> IsWait(n)
                          /\ Done(n)' <=> Done(n)
                          /\ SuspendedInput(n)' <=> SuspendedInput(n)
                          /\ Blocked(n)' <=> Blocked(n)
                          /\ MustExecute(n)' <=> MustExecute(n)
<1>1. \A n \in Nodes : /\ IsWait(n)' <=> IsWait(n)
                       /\ Done(n)' <=> Done(n)
                       /\ SuspendedInput(n)' <=> SuspendedInput(n)
  BY DEF IsWait, Done, SuspendedInput
<1>2. \A n \in Nodes : MustExecute(n)' <=> MustExecute(n)
  BY <1>1 DEF MustExecute, Missing, IsDone, InputsChanged
<1> QED
  BY <1>1, <1>2 DEF Blocked

\* Nothing is written when a superstep begins.
LEMMA WriteBegin ==
  ASSUME todo' = active', writes' = [n \in Nodes |-> NoWrite]
  PROVE  WriteInv'
BY Markers DEF WriteInv, Fired

LEMMA WriteEndTask ==
  ASSUME StateInv, NEW n \in Nodes, NEW w, EndTask(n, w),
         w \in Values \cup {Error} <=> MustExecute(n),
         w = Suspended <=> Blocked(n),
         workflow \notin ErrorProne => w # Error
  PROVE  WriteInv'
<1>1. /\ UNCHANGED <<workflow, active, outputs, consumed, phase>>
      /\ phase = "running" /\ n \in active
      /\ todo' = todo \ {n}
      /\ writes' = [writes EXCEPT ![n] = w]
  BY DEF EndTask, state, StateInv, TypeInv, TypeOK
<1>2. writes \in [Nodes -> Writes]
  BY DEF StateInv, TypeInv, TypeOK, Writes
<1> SUFFICES ASSUME NEW m \in Nodes
             PROVE  /\ writes'[m] # NoWrite => m \in active' \ todo'
                    /\ Fired(m)' => MustExecute(m)'
                    /\ writes'[m] = Suspended => Blocked(m)'
                    /\ m \in active' \ todo' /\ MustExecute(m)' => Fired(m)'
                    /\ m \in active' \ todo' /\ Blocked(m)' => writes'[m] = Suspended
                    /\ workflow' \notin ErrorProne => writes'[m] # Error
  BY DEF WriteInv
<1>3. CASE m = n
  <2>1. writes'[m] = w
    BY <1>1, <1>2, <1>3
  <2> QED
    BY <1>1, <1>3, <2>1, TasksRead DEF Fired
<1>4. CASE m # n
  <2>1. writes'[m] = writes[m]
    BY <1>1, <1>2, <1>4
  <2>2. m \in todo' <=> m \in todo
    BY <1>1, <1>4
  <2> QED
    BY <1>1, <2>1, <2>2, TasksRead DEF StateInv, WriteInv, Fired
<1> QED
  BY <1>3, <1>4

LEMMA WriteTask ==
  ASSUME StateInv, NEW n \in Nodes, Task(n), ~RaiseInBody(n), ~RaiseInRouter(n)
  PROVE  WriteInv'
<1>1. CASE ArmWait(n)
  BY <1>1, WriteEndTask, Markers DEF ArmWait, Done, Blocked, MustExecute
<1>2. CASE SkipAnswered(n) \/ HoldAtGate(n) \/ SkipDone(n)
  <2>1. EndTask(n, NoWrite) /\ ~MustExecute(n) /\ ~Blocked(n)
    BY <1>2 DEF SkipAnswered, HoldAtGate, SkipDone, MustExecute, Blocked, Done
  <2> QED
    BY <2>1, WriteEndTask, Markers
<1>3. CASE Propagate(n)
  BY <1>3, WriteEndTask, Markers DEF Propagate, Blocked, MustExecute
<1>4. CASE Execute(n)
  <2>1. MustExecute(n) /\ ~Blocked(n)
    BY <1>4 DEF Execute, MustExecute, Blocked
  <2>2. PICK v \in Values \cup {Error} :
          EndTask(n, v) /\ (workflow \notin ErrorProne => v \in Values)
    BY <1>4 DEF Execute
  <2> QED
    BY <2>1, <2>2, WriteEndTask, Markers
<1> QED
  BY <1>1, <1>2, <1>3, <1>4 DEF Task

LEMMA StateInvInit == Init => StateInv
<1>1. Init => WriteInv
  BY Markers DEF Init, WriteInv, Fired
<1> QED
  BY <1>1, TypeInvInit DEF StateInv

LEMMA StateInvStep == StateInv /\ [Next]_vars => StateInv'
<1> SUFFICES ASSUME StateInv, [Next]_vars PROVE WriteInv'
  BY TypeInvStep DEF StateInv
<1> USE DEF state, task, run
<1>1. ASSUME phase' # "running" PROVE WriteInv'
  BY <1>1 DEF WriteInv
<1>2. ASSUME NEW n \in Nodes, Task(n) PROVE WriteInv'
  BY <1>1, <1>2, WriteTask DEF RaiseInBody, RaiseInRouter, Fail
<1>3. CASE Cancel \/ LoseWorker \/ Overrun \/ Complete
  BY <1>1, <1>3 DEF Cancel, Fail, LoseWorker, Overrun, Complete
<1>4. CASE Advance \/ AnswerWaits \/ \E cut \in Nodes \cup {NoNode} : ResumeFrom(cut)
  BY <1>4, WriteBegin DEF Advance, AnswerWaits, ResumeFrom, Activate
<1>5. CASE UNCHANGED vars
  <2>1. UNCHANGED <<workflow, phase, active, todo, writes, outputs, consumed>>
    BY <1>5 DEF vars
  <2> QED
    BY <2>1, TasksRead DEF StateInv, WriteInv, Fired
<1> QED
  BY <1>2, <1>3, <1>4, <1>5 DEF Next

LEMMA StateInvariant == Spec => []StateInv
BY StateInvInit, StateInvStep, PTL DEF Spec

\* What the end of a superstep does to a node.
LEMMA MergeNode ==
  ASSUME StateInv, phase = "running", Merge, NEW n \in Nodes
  PROVE  /\ Fired(n) => /\ n \in active /\ MustExecute(n)
                        /\ outputs'[n] \in Values \cup {Error}
                        /\ workflow \notin ErrorProne => outputs'[n] \in Values
                        /\ consumed'[n] = CurrentInputs(n)
                        /\ iterations'[n] = iterations[n] + 1
         /\ ~Fired(n) => /\ outputs'[n] \in {outputs[n], Suspended}
                         /\ consumed'[n] = consumed[n]
                         /\ iterations'[n] = iterations[n]
         /\ outputs'[n] # outputs[n] => n \in active
         /\ outputs'[n] # outputs[n] /\ ~Fired(n) =>
              outputs'[n] = Suspended /\ Blocked(n)
         /\ todo = {} /\ n \in active /\ MustExecute(n) => Fired(n)
<1>1. writes[n] \in Writes /\ WriteInv
  BY DEF StateInv, TypeInv, TypeOK, Writes
<1>2. writes[n] \in Values \cup {Error, Suspended, NoWrite}
  BY <1>1 DEF Writes, Output
<1>3. /\ outputs'[n] = IF writes[n] = NoWrite THEN outputs[n] ELSE writes[n]
      /\ consumed'[n] = IF Fired(n) THEN CurrentInputs(n) ELSE consumed[n]
      /\ iterations'[n] = IF Fired(n) THEN iterations[n] + 1 ELSE iterations[n]
  BY DEF Merge
<1>4. CASE Fired(n)
  BY <1>1, <1>2, <1>3, <1>4, Markers DEF WriteInv, Fired
<1>5. CASE ~Fired(n)
  BY <1>1, <1>2, <1>3, <1>5, Markers DEF WriteInv, Fired
<1> QED
  BY <1>4, <1>5

\* A blocked node ends the superstep suspended.
LEMMA MergeSuspends ==
  ASSUME StateInv, phase = "running", Merge, todo = {},
         NEW n \in Nodes, n \in active, ~IsWait(n), SuspendedInput(n)
  PROVE  outputs'[n] = Suspended
BY Markers DEF StateInv, WriteInv, Merge, Blocked

-----------------------------------------------------------------------------
(* The order in which an acyclic graph executes                            *)
(*                                                                         *)
(* A node that has executed never does again: its inputs were complete,    *)
(* and complete outputs stay as they are.  An answered wait node is        *)
(* complete whatever is upstream of it; but then only what lies behind a   *)
(* wait node is still executing.                                           *)

Scope == Acyclic /\ Fresh /\ workflow \notin ErrorProne

Ran(n) == iterations[n] > 0

Behind(n) == \E w \in Nodes : IsWait(w) /\ Reaches(workflow, w, n)

RanInv ==
  \A n \in Nodes :
    /\ iterations[n] <= 1
    /\ IsWait(n) => ~Ran(n) /\ outputs[n] \in {None, Suspended, Payload}
    /\ ~IsWait(n) => /\ outputs[n] \in Values \cup {None, Suspended}
                     /\ Ran(n) <=> outputs[n] \in Values
    /\ Ran(n) => /\ consumed[n] # NoRecord
                 /\ \A p \in Preds(workflow, n) :
                      consumed[n][p] = outputs[p] /\ Done(p)

AnswerInv ==
  \A v \in Nodes : outputs[v] = Payload =>
    /\ answered
    /\ OutEdges(workflow, v) # {} => \A n \in active : Behind(n)

OrderInv == Scope => RanInv /\ AnswerInv

\* A node that passes the gate, with no suspended input, has all its inputs.
LEMMA GateOpen ==
  ASSUME workflow \in Workflows, Acyclic, NEW n \in Nodes, MustExecute(n),
         NEW p \in Preds(workflow, n)
  PROVE  Done(p)
BY AcyclicPreds DEF MustExecute, SuspendedInput, Missing, Done, Acyclic

\* What the end of a superstep does, node by node.
LEMMA MergeOrder ==
  ASSUME StateInv, OrderInv, Scope, phase = "running", Merge
  PROVE  /\ \A n \in Nodes : Done(n) => outputs'[n] = outputs[n]
         /\ \A n \in Nodes : Fired(n) =>
              /\ n \in active /\ ~IsWait(n) /\ ~Ran(n) /\ ~Done(n)
              /\ outputs'[n] \in Values
              /\ consumed'[n] = CurrentInputs(n)
              /\ iterations'[n] = 1
              /\ \A p \in Preds(workflow, n) : Done(p)
         /\ \A n \in Nodes : ~Fired(n) =>
              /\ outputs'[n] \in {outputs[n], Suspended}
              /\ consumed'[n] = consumed[n]
              /\ iterations'[n] = iterations[n]
<1>1. /\ workflow \in Workflows /\ iterations \in [Nodes -> Nat]
      /\ outputs \in [Nodes -> Output]
  BY DEF StateInv, TypeInv, TypeOK
<1>2. RanInv /\ Acyclic /\ workflow \notin ErrorProne
  BY DEF OrderInv, Scope
<1>3. ASSUME NEW n \in Nodes, Fired(n)
      PROVE  /\ n \in active /\ ~IsWait(n) /\ ~Ran(n) /\ ~Done(n)
             /\ outputs'[n] \in Values
             /\ consumed'[n] = CurrentInputs(n)
             /\ iterations'[n] = 1
             /\ \A p \in Preds(workflow, n) : Done(p)
  <2>1. /\ n \in active /\ MustExecute(n) /\ outputs'[n] \in Values
        /\ consumed'[n] = CurrentInputs(n) /\ iterations'[n] = iterations[n] + 1
    BY <1>2, <1>3, MergeNode
  <2>2. ~IsWait(n) /\ ~IsDone(n)
    BY <2>1 DEF MustExecute
  <2>3. ~Ran(n)
    <3> SUFFICES ASSUME Ran(n) PROVE IsDone(n)
      BY <2>2
    <3>1. outputs[n] \in Values
      BY <1>2, <2>2 DEF RanInv
    <3>2. ~InputsChanged(n)
      BY <1>2 DEF RanInv, InputsChanged
    <3> QED
      BY <3>1, <3>2, Markers DEF IsDone
  <2>4. ~Done(n)
    BY <1>2, <2>2, <2>3 DEF RanInv, Done
  <2>5. iterations[n] = 0
    BY <1>1, <2>3 DEF Ran
  <2> QED
    BY <1>1, <1>2, <2>1, <2>2, <2>3, <2>4, <2>5, GateOpen
<1>4. ASSUME NEW n \in Nodes, ~Fired(n)
      PROVE  /\ outputs'[n] \in {outputs[n], Suspended}
             /\ consumed'[n] = consumed[n]
             /\ iterations'[n] = iterations[n]
  BY <1>4, MergeNode
<1>5. ASSUME NEW n \in Nodes, Done(n) PROVE outputs'[n] = outputs[n]
  <2>1. ~Fired(n)
    BY <1>3, <1>5
  <2>2. ~Blocked(n)
    <3>1. CASE IsWait(n)
      BY <1>5, <3>1 DEF Blocked
    <3>2. CASE ~IsWait(n)
      <4>1. \A p \in Preds(workflow, n) : Done(p)
        BY <1>2, <1>5, <3>2 DEF RanInv, Done
      <4>2. ~SuspendedInput(n)
        BY <1>1, <1>2, <4>1, AcyclicPreds DEF SuspendedInput, Done, Acyclic
      <4> QED
        BY <3>2, <4>2 DEF Blocked
    <3> QED
      BY <3>1, <3>2
  <2> QED
    BY <2>1, <2>2, MergeNode
<1> QED
  BY <1>3, <1>4, <1>5

\* The invariant survives the end of a superstep.
LEMMA OrderSuperstep ==
  ASSUME StateInv, OrderInv, Scope, Advance \/ Overrun \/ Complete
  PROVE  RanInv' /\ AnswerInv'
<1>1. /\ phase = "running" /\ Merge
      /\ UNCHANGED <<workflow, answered>>
  BY DEF Advance, Overrun, Complete, EndSuperstep
<1>2. workflow \in Workflows /\ active \subseteq Nodes
      /\ iterations \in [Nodes -> Nat] /\ RanInv /\ AnswerInv /\ Acyclic
  BY DEF StateInv, TypeInv, TypeOK, OrderInv, Scope
<1> DEFINE Kept(n) == outputs'[n] = outputs[n]
           Begun(n) == /\ n \in active /\ ~IsWait(n) /\ ~Ran(n) /\ ~Done(n)
                       /\ outputs'[n] \in Values
                       /\ consumed'[n] = CurrentInputs(n)
                       /\ iterations'[n] = 1
                       /\ \A p \in Preds(workflow, n) : Done(p)
           Still(n) == /\ outputs'[n] \in {outputs[n], Suspended}
                       /\ consumed'[n] = consumed[n]
                       /\ iterations'[n] = iterations[n]
<1>3. /\ \A n \in Nodes : Done(n) => Kept(n)
      /\ \A n \in Nodes : Fired(n) => Begun(n)
      /\ \A n \in Nodes : ~Fired(n) => Still(n)
  BY <1>1, MergeOrder
<1>4. \A n \in Nodes : /\ IsWait(n)' <=> IsWait(n)
                       /\ Preds(workflow, n)' = Preds(workflow, n)
                       /\ OutEdges(workflow, n)' = OutEdges(workflow, n)
                       /\ Preds(workflow, n) \subseteq Nodes
  BY <1>1, <1>2, PredsType DEF IsWait
<1>5. \A n \in Nodes : Done(n) => Done(n)'
  BY <1>3 DEF Done
<1>6. ASSUME NEW n \in Nodes, Fired(n)
      PROVE  /\ ~IsWait(n) /\ Ran(n)' /\ outputs'[n] \in Values
             /\ iterations'[n] <= 1
             /\ consumed'[n] # NoRecord
             /\ \A p \in Preds(workflow, n) :
                  consumed'[n][p] = outputs'[p] /\ Done(p)'
  <2>1. Begun(n)
    BY <1>3, <1>6
  <2>2. consumed'[n] = CurrentInputs(n) /\ CurrentInputs(n) # NoRecord
    <3>1. DOMAIN CurrentInputs(n) = Nodes
      BY DEF CurrentInputs
    <3>2. DOMAIN NoRecord = {}
      BY DEF NoRecord
    <3> QED
      BY <2>1, <3>1, <3>2
  <2>3. \A p \in Preds(workflow, n) : consumed'[n][p] = outputs[p]
    BY <1>4, <2>1 DEF CurrentInputs
  <2> QED
    BY <1>3, <1>4, <1>5, <2>1, <2>2, <2>3 DEF Ran
<1>7. ASSUME NEW n \in Nodes, ~Fired(n)
      PROVE  /\ iterations'[n] <= 1
             /\ IsWait(n) => ~Ran(n)' /\ outputs'[n] \in {None, Suspended, Payload}
             /\ ~IsWait(n) => /\ outputs'[n] \in Values \cup {None, Suspended}
                              /\ Ran(n)' <=> outputs'[n] \in Values
             /\ Ran(n)' => /\ consumed'[n] # NoRecord
                           /\ \A p \in Preds(workflow, n) :
                                consumed'[n][p] = outputs'[p] /\ Done(p)'
  <2>1. Still(n) /\ (Done(n) => Kept(n))
    BY <1>3, <1>7
  <2>2. Ran(n)' <=> Ran(n)
    BY <2>1 DEF Ran
  <2>3. Ran(n) => \A p \in Preds(workflow, n) :
                    consumed'[n][p] = outputs'[p] /\ Done(p)'
    BY <1>2, <1>3, <1>4, <1>5, <2>1 DEF RanInv
  <2>4. Ran(n) => Kept(n)
    BY <1>2, <2>1, Markers DEF RanInv, Done
  <2> QED
    BY <1>2, <2>1, <2>2, <2>3, <2>4, Markers DEF RanInv
<1>8. RanInv'
  <2> SUFFICES ASSUME NEW n \in Nodes
               PROVE  /\ iterations'[n] <= 1
                      /\ IsWait(n)' => /\ ~Ran(n)'
                                       /\ outputs'[n] \in {None, Suspended, Payload}
                      /\ ~IsWait(n)' => /\ outputs'[n] \in Values \cup {None, Suspended}
                                        /\ Ran(n)' <=> outputs'[n] \in Values
                      /\ Ran(n)' => /\ consumed'[n] # NoRecord
                                    /\ \A p \in Preds(workflow, n)' :
                                         consumed'[n][p] = outputs'[p] /\ Done(p)'
    BY DEF RanInv
  <2> QED
    BY <1>4, <1>6, <1>7
<1>9. AnswerInv'
  <2> SUFFICES ASSUME NEW v \in Nodes, outputs'[v] = Payload
               PROVE  /\ answered'
                      /\ OutEdges(workflow, v)' # {} => \A n \in active' : Behind(n)'
    BY DEF AnswerInv
  <2>1. outputs[v] = Payload
    BY <1>3, Markers
  <2>2. answered /\ (OutEdges(workflow, v) # {} => \A n \in active : Behind(n))
    BY <1>2, <2>1 DEF AnswerInv
  <2>3. \A n \in Nodes : Behind(n)' <=> Behind(n)
    BY <1>1, <1>4 DEF Behind
  <2>4. active' = active \/ active' = Triggered
    BY DEF Advance, Overrun, Complete, Activate
  <2>5. ASSUME NEW n \in Triggered, \A m \in active : Behind(m)
        PROVE  n \in Nodes /\ Behind(n)
    <3>1. PICK m \in active : n \in Route(m, outputs'[m])
      BY DEF Triggered
    <3>2. n \in Targets(OutEdges(workflow, m))
      BY <1>2, <3>1, RouteTargets
    <3>3. PICK e \in Graph[workflow].edges : e.from = m /\ e.to = n
      BY <3>2 DEF Targets, OutEdges
    <3>4. PICK w \in Nodes : IsWait(w) /\ Reaches(workflow, w, m)
      BY <2>5, <3>1 DEF Behind
    <3>5. Reaches(workflow, w, n)
      BY <1>2, <3>3, <3>4, ReachesStep
    <3> QED
      BY <1>2, <3>3, <3>4, <3>5, EdgeType DEF Behind
  <2> QED
    BY <1>1, <1>2, <1>4, <2>2, <2>3, <2>4, <2>5
<1> QED
  BY <1>8, <1>9

\* What the invariant says of the state does not change with the tasks, nor
\* when the execution fails.
LEMMA OrderSame ==
  ASSUME UNCHANGED <<workflow, active, state, answered, resumes>>, OrderInv
  PROVE  OrderInv'
<1> USE DEF state
<1>1. Scope' <=> Scope
  BY DEF Scope, Acyclic, Fresh
<1>2. RanInv => RanInv'
  BY DEF RanInv, IsWait, Ran, Done
<1>3. AnswerInv => AnswerInv'
  BY DEF AnswerInv, Behind, IsWait
<1> QED
  BY <1>1, <1>2, <1>3 DEF OrderInv

\* The execution that follows the answers goes on behind the wait nodes; it
\* starts again only when none of them leads anywhere.
LEMMA OrderAnswer ==
  ASSUME StateInv, OrderInv, Scope, AnswerWaits
  PROVE  RanInv' /\ AnswerInv'
<1>1. /\ UNCHANGED <<workflow, consumed, iterations>> /\ ~answered /\ answered'
      /\ outputs' = [n \in Nodes |-> IF n \in Waiting THEN Payload ELSE outputs[n]]
      /\ active' = EntryPoints(UNION {Targets(OutEdges(workflow, n)) : n \in Waiting},
                               entered)
  BY DEF AnswerWaits, Activate
<1>2. workflow \in Workflows /\ RanInv /\ AnswerInv /\ Acyclic
  BY DEF StateInv, TypeInv, TypeOK, OrderInv, Scope
<1>3. \A n \in Nodes : /\ IsWait(n)' <=> IsWait(n)
                       /\ Ran(n)' <=> Ran(n)
                       /\ Preds(workflow, n)' = Preds(workflow, n)
                       /\ OutEdges(workflow, n)' = OutEdges(workflow, n)
                       /\ Preds(workflow, n) \subseteq Nodes
                       /\ Behind(n)' <=> Behind(n)
  BY <1>1, <1>2, PredsType DEF IsWait, Ran, Behind
<1>4. \A n \in Nodes : \/ outputs'[n] = outputs[n] /\ n \notin Waiting
                       \/ /\ outputs'[n] = Payload /\ IsWait(n)
                          /\ ~Done(n) /\ n \in Waiting
  BY <1>1 DEF Waiting, Done
<1>5. \A n \in Nodes : Done(n) => Done(n)' /\ outputs'[n] = outputs[n]
  BY <1>4 DEF Done
<1>6. RanInv'
  <2> SUFFICES ASSUME NEW n \in Nodes
               PROVE  /\ iterations'[n] <= 1
                      /\ IsWait(n)' => /\ ~Ran(n)'
                                       /\ outputs'[n] \in {None, Suspended, Payload}
                      /\ ~IsWait(n)' => /\ outputs'[n] \in Values \cup {None, Suspended}
                                        /\ Ran(n)' <=> outputs'[n] \in Values
                      /\ Ran(n)' => /\ consumed'[n] # NoRecord
                                    /\ \A p \in Preds(workflow, n)' :
                                         consumed'[n][p] = outputs'[p] /\ Done(p)'
    BY DEF RanInv
  <2>1. /\ iterations'[n] <= 1
        /\ IsWait(n)' => ~Ran(n)' /\ outputs'[n] \in {None, Suspended, Payload}
    BY <1>1, <1>2, <1>3, <1>4 DEF RanInv
  <2>2. ~IsWait(n)' => /\ outputs'[n] \in Values \cup {None, Suspended}
                       /\ Ran(n)' <=> outputs'[n] \in Values
    BY <1>2, <1>3, <1>4 DEF RanInv
  <2>3. Ran(n)' => /\ consumed'[n] # NoRecord
                   /\ \A p \in Preds(workflow, n)' :
                        consumed'[n][p] = outputs'[p] /\ Done(p)'
    BY <1>1, <1>2, <1>3, <1>5 DEF RanInv
  <2> QED
    BY <2>1, <2>2, <2>3
<1>7. AnswerInv'
  <2> DEFINE W == UNION {Targets(OutEdges(workflow, n)) : n \in Waiting}
  <2> SUFFICES ASSUME NEW v \in Nodes, outputs'[v] = Payload,
                      OutEdges(workflow, v)' # {}, NEW n \in active'
               PROVE  Behind(n)'
    BY <1>1 DEF AnswerInv
  <2>1. v \in Waiting
    BY <1>1, <1>2, <1>4 DEF AnswerInv
  <2>2. W # {}
    <3>1. PICK e \in OutEdges(workflow, v) : TRUE
      BY <1>3
    <3>2. e.to \in Targets(OutEdges(workflow, v))
      BY <3>1 DEF Targets
    <3> QED
      BY <2>1, <3>2
  <2>3. active' = W
    BY <1>1, <2>2 DEF EntryPoints
  <2>4. PICK w \in Waiting : n \in Targets(OutEdges(workflow, w))
    BY <2>3
  <2>5. PICK e \in Graph[workflow].edges : e.from = w /\ e.to = n
    BY <2>4 DEF Targets, OutEdges
  <2>6. w \in Nodes /\ IsWait(w) /\ Reaches(workflow, w, n) /\ n \in Nodes
    BY <1>2, <2>4, <2>5, ReachesSelf, ReachesStep, EdgeType DEF Waiting
  <2> QED
    BY <1>3, <2>6 DEF Behind
<1> QED
  BY <1>6, <1>7

LEMMA OrderInvInit == Init => OrderInv
BY Markers DEF Init, OrderInv, RanInv, AnswerInv, Ran

LEMMA OrderInvStep == StateInv /\ OrderInv /\ [Next]_vars => OrderInv'
<1> SUFFICES ASSUME StateInv, OrderInv, [Next]_vars, Scope' PROVE OrderInv'
  BY DEF OrderInv
<1> USE DEF state, task, run
<1>1. ASSUME NEW cut \in Nodes \cup {NoNode}, ResumeFrom(cut) PROVE FALSE
  BY <1>1 DEF ResumeFrom, Scope, Fresh, StateInv, TypeInv, TypeOK
<1>2. CASE Advance \/ Overrun \/ Complete
  <2>1. Scope
    BY <1>2 DEF Advance, Overrun, Complete, EndSuperstep, Scope, Acyclic, Fresh
  <2> QED
    BY <1>2, <2>1, OrderSuperstep DEF OrderInv
<1>3. CASE AnswerWaits
  <2>1. Scope
    BY <1>3 DEF AnswerWaits, Scope, Acyclic, Fresh
  <2> QED
    BY <1>3, <2>1, OrderAnswer DEF OrderInv
<1>4. ASSUME NEW n \in Nodes, Task(n) PROVE OrderInv'
  BY <1>4, OrderSame DEF Task, ArmWait, SkipAnswered, Propagate, HoldAtGate,
     SkipDone, Execute, EndTask, RaiseInBody, RaiseInRouter, Fail
<1>5. CASE Cancel \/ LoseWorker \/ UNCHANGED vars
  BY <1>5, OrderSame DEF Cancel, Fail, LoseWorker, vars
<1> QED
  BY <1>1, <1>2, <1>3, <1>4, <1>5 DEF Next

LEMMA OrderInvariant == Spec => [](StateInv /\ OrderInv)
BY StateInvariant, OrderInvInit, OrderInvStep, PTL DEF Spec

\* When a node fires, what is downstream of it has not, and does not fire in
\* the same superstep, unless two wait nodes set it apart.
LEMMA FiresFirst ==
  ASSUME StateInv, OrderInv, Scope, phase = "running", Merge,
         NEW n \in Nodes, Fired(n),
         NEW d \in Nodes, d # n, Reaches(workflow, n, d), ~AcrossWaits(n, d)
  PROVE  ~Fired(d) /\ ~Ran(d)
<1>1. workflow \in Workflows /\ RanInv /\ AnswerInv /\ Acyclic
  BY DEF StateInv, TypeInv, TypeOK, OrderInv, Scope
<1> DEFINE Held(y) == Fired(y) \/ Ran(y)
           Safe(y) == \/ y = n \/ AcrossWaits(n, y)
                      \/ ~Held(y) /\ (outputs[y] = Payload => OutEdges(workflow, y) = {})
           S == {y \in Nodes : Reaches(workflow, n, y) /\ Safe(y)}
<1>2. \A y \in Nodes : Held(y) => \A p \in Preds(workflow, y) : Done(p)
  BY <1>1, MergeOrder DEF RanInv
<1>3. n \in active /\ ~IsWait(n) /\ ~Done(n)
  BY MergeOrder
<1>4. ASSUME NEW e \in Graph[workflow].edges, e.from \in S PROVE e.to \in S
  <2> DEFINE x == e.from
             y == e.to
  <2>1. x \in Nodes /\ y \in Nodes /\ Reaches(workflow, n, x) /\ Safe(x)
    BY <1>1, <1>4, EdgeType
  <2>2. Reaches(workflow, n, y)
    BY <1>1, <2>1, ReachesStep
  <2>3. x \in Preds(workflow, y)
    BY <1>1, <2>1, AcyclicPreds DEF Sources, Acyclic
  <2>4. CASE AcrossWaits(n, x)
    <3>1. AcrossWaits(n, y)
      BY <1>1, <2>4, ReachesStep DEF AcrossWaits
    <3> QED
      BY <2>1, <2>2, <3>1
  <2>5. CASE ~AcrossWaits(n, x) /\ Held(y)
    <3>1. Done(x)
      BY <1>2, <2>1, <2>3, <2>5
    <3>2. x # n /\ ~Ran(x)
      BY <1>3, <2>1, <2>5, <3>1
    <3>3. outputs[x] = Payload
      BY <1>1, <2>1, <3>1, <3>2 DEF RanInv, Done
    <3>4. OutEdges(workflow, x) # {}
      BY DEF OutEdges
    <3> QED
      BY <2>1, <2>5, <3>2, <3>3, <3>4
  <2>6. CASE outputs[y] = Payload /\ OutEdges(workflow, y) # {}
    <3>1. Behind(n)
      BY <1>1, <1>3, <2>1, <2>6 DEF AnswerInv
    <3>2. IsWait(y)
      BY <1>1, <2>1, <2>6, Markers DEF RanInv
    <3>3. AcrossWaits(n, y)
      BY <1>1, <2>1, <2>2, <3>1, <3>2, ReachesSelf DEF AcrossWaits, Behind
    <3> QED
      BY <2>1, <2>2, <3>3
  <2> QED
    BY <2>1, <2>2, <2>4, <2>5, <2>6
<1>5. Closed(workflow, S)
  BY <1>4 DEF Closed
<1>6. n \in S
  BY <1>1, ReachesSelf
<1>7. d \in S
  BY <1>1, <1>5, <1>6, ReachesInduct
<1> QED
  BY <1>7

\* In every acyclic graph, whatever branches, joins and wait nodes it has, a
\* node executes before all it is upstream of: the gate, the propagation of
\* suspensions and the skipping of finished nodes never let one pass it.
THEOREM ExecutionOrder == Spec => AncestorsFirst
<1> DEFINE Ordered ==
             Scope => \A n \in Nodes : iterations'[n] > iterations[n] =>
               \A d \in Nodes \ {n} :
                 Reaches(workflow, n, d) /\ ~AcrossWaits(n, d) => iterations'[d] = 0
<1>1. StateInv /\ OrderInv /\ [Next]_vars => [Ordered]_vars
  <2> SUFFICES ASSUME StateInv, OrderInv, [Next]_vars, Scope, NEW n \in Nodes,
                      iterations'[n] > iterations[n], NEW d \in Nodes \ {n},
                      Reaches(workflow, n, d), ~AcrossWaits(n, d)
               PROVE  iterations'[d] = 0
    OBVIOUS
  <2>1. iterations \in [Nodes -> Nat]
    BY DEF StateInv, TypeInv, TypeOK
  <2>2. Advance \/ Overrun \/ Complete
    <3>1. iterations' # iterations
      BY <2>1
    <3>2. \A cut \in Nodes \cup {NoNode} : ~ResumeFrom(cut)
      BY <2>1 DEF ResumeFrom
    <3> QED
      BY <3>1, <3>2 DEF Next, Task, ArmWait, SkipAnswered, Propagate, HoldAtGate,
         SkipDone, Execute, EndTask, RaiseInBody, RaiseInRouter, Fail, Cancel,
         LoseWorker, AnswerWaits, vars, state
  <2>3. Merge /\ phase = "running"
    BY <2>2 DEF Advance, Overrun, Complete, EndSuperstep
  <2>4. Fired(n)
    BY <2>1, <2>3, MergeOrder
  <2>5. ~Fired(d) /\ ~Ran(d)
    BY <2>3, <2>4, FiresFirst
  <2>6. iterations'[d] = iterations[d]
    BY <2>3, <2>5, MergeOrder
  <2> QED
    BY <2>1, <2>5, <2>6 DEF Ran
<1>2. AncestorsFirst <=> [][Ordered]_vars
  BY DEF AncestorsFirst, Scope
<1> QED
  BY <1>1, <1>2, OrderInvariant, PTL DEF Spec

\* A node of an acyclic graph executes at most once in the executions of a
\* run: the answers of its wait nodes make it execute nothing again.
THEOREM ExecutedOnce ==
  Spec => [](Acyclic /\ Fresh /\ workflow \notin ErrorProne =>
               \A n \in Nodes : iterations[n] <= 1)
<1>1. OrderInv => (Acyclic /\ Fresh /\ workflow \notin ErrorProne =>
                     \A n \in Nodes : iterations[n] <= 1)
  BY DEF OrderInv, Scope, RanInv
<1> QED
  BY <1>1, OrderInvariant, PTL

-----------------------------------------------------------------------------
(* No result of outdated inputs                                            *)
(*                                                                         *)
(* A node whose input is replaced is active in the next superstep. Having  *)
(* been through the gate it executes, or a suspended input takes its       *)
(* result away: it has no way to end with it before it has caught up. In a *)
(* graph without cycles an output, once complete, stays complete, and so   *)
(* do the inputs of a node that is through the gate; in a graph without    *)
(* wait nodes nothing is ever suspended. So there results stay.            *)

NoWaits == \A n \in Nodes : ~IsWait(n)

Steady == Acyclic \/ NoWaits

Full(o) == o \notin {None, Suspended}

\* Outputs that can have come about in workflow w: behind every complete one
\* of an acyclic graph, but for the wait nodes, all are complete.
Whole(w, outs) ==
  /\ ~Cyclic(w) =>
       \A n \in Nodes : Graph[w].kind[n] # "wait" /\ Full(outs[n]) =>
         \A p \in Preds(w, n) : Full(outs[p])
  /\ (\A n \in Nodes : Graph[w].kind[n] # "wait") =>
       \A n \in Nodes : outs[n] # Suspended

WholeInv == Whole(workflow, outputs) /\ Whole(workflow, snapshot.outputs)

Passed(n) == ~IsWait(n) /\ ~SuspendedInput(n) /\ Missing(n) = {}

Outdated(n) ==
  \E p \in Preds(workflow, n) :
    n \in Route(p, outputs[p]) /\ consumed[n][p] # outputs[p]

RecordInv ==
  Steady => \A n \in Nodes : consumed[n] # NoRecord =>
    Passed(n) /\ Full(outputs[n])

StaleInv ==
  \A n \in Nodes : consumed[n] # NoRecord =>
    /\ ~IsWait(n) /\ Missing(n) = {}
    /\ Outdated(n) => \/ outputs[n] = Suspended
                      \/ phase = "failed"
                      \/ phase = "running" /\ n \in active

InputInv == StateInv /\ WholeInv /\ RecordInv /\ StaleInv

\* A run keeps its workflow.
LEMMA SameWorkflow == [Next]_vars => workflow' = workflow
BY DEF Next, Task, ArmWait, SkipAnswered, Propagate, HoldAtGate, SkipDone,
   Execute, EndTask, RaiseInBody, RaiseInRouter, Fail, Cancel, LoseWorker,
   Advance, Overrun, Complete, EndSuperstep, AnswerWaits, ResumeFrom, vars

LEMMA RouteNext ==
  ASSUME workflow' = workflow, NEW n
  PROVE  Route(n, outputs[n])' = Route(n, outputs'[n])
BY DEF Route

\* The inputs of a node that has passed the gate are complete.
LEMMA PassedFull ==
  ASSUME workflow \in Workflows, Acyclic, NEW n \in Nodes, Passed(n),
         NEW p \in Preds(workflow, n)
  PROVE  Full(outputs[p])
BY AcyclicPreds DEF Passed, SuspendedInput, Missing, Full, Acyclic

\* The end of a superstep leaves no gap, and takes no complete output away.
LEMMA WholeMerge ==
  ASSUME StateInv, Whole(workflow, outputs), phase = "running", Merge
  PROVE  /\ Whole(workflow, outputs')
         /\ Acyclic => \A n \in Nodes : Full(outputs[n]) => Full(outputs'[n])
<1>1. workflow \in Workflows
  BY DEF StateInv, TypeInv, TypeOK
<1>2. ASSUME Acyclic, NEW n \in Nodes, Full(outputs[n]) PROVE Full(outputs'[n])
  <2>1. ASSUME ~IsWait(n) PROVE ~SuspendedInput(n)
    <3>1. \A p \in Preds(workflow, n) : Full(outputs[p])
      BY <1>2, <2>1 DEF Whole, IsWait, Acyclic
    <3> QED
      BY <1>1, <1>2, <3>1, AcyclicPreds DEF SuspendedInput, Full, Acyclic
  <2>2. ~Blocked(n)
    BY <1>2, <2>1 DEF Blocked, Done, Full
  <2>3. outputs'[n] = outputs[n] \/ outputs'[n] \in Values \cup {Error}
    BY <2>2, MergeNode
  <2> QED
    BY <1>2, <2>3, Markers DEF Full
<1>3. ASSUME Acyclic, NEW n \in Nodes, ~IsWait(n), Full(outputs'[n]),
             NEW p \in Preds(workflow, n)
      PROVE  Full(outputs'[p])
  <2>1. p \in Nodes
    BY <1>1, PredsType
  <2>2. Full(outputs[p])
    <3>1. CASE Full(outputs[n])
      BY <1>3, <3>1 DEF Whole, IsWait, Acyclic
    <3>2. CASE ~Full(outputs[n])
      <4>1. Fired(n)
        BY <1>3, <3>2, MergeNode DEF Full
      <4>2. MustExecute(n)
        BY <4>1, MergeNode
      <4> QED
        BY <1>1, <1>3, <4>2, PassedFull DEF MustExecute, Passed
    <3> QED
      BY <3>1, <3>2
  <2> QED
    BY <1>2, <1>3, <2>1, <2>2
<1>4. ASSUME NoWaits, NEW n \in Nodes PROVE outputs'[n] # Suspended
  <2>1. \A m \in Nodes : outputs[m] # Suspended
    BY <1>4 DEF Whole, NoWaits, IsWait
  <2>2. ~SuspendedInput(n)
    BY <1>1, <2>1, PredsType DEF SuspendedInput
  <2>3. ~Blocked(n)
    BY <1>4, <2>2 DEF Blocked, NoWaits
  <2> QED
    BY <2>1, <2>3, MergeNode, Markers
<1> QED
  BY <1>2, <1>3, <1>4 DEF Whole, IsWait, Acyclic, NoWaits

\* The outputs a run leaves behind when it fails.
LEMMA WholeFail ==
  ASSUME StateInv, WholeInv, NEW n \in Nodes, MustExecute(n)
  PROVE  Whole(workflow, [outputs EXCEPT ![n] = Error])
<1> DEFINE outs == [outputs EXCEPT ![n] = Error]
<1>1. workflow \in Workflows /\ outputs \in [Nodes -> Output] /\ Whole(workflow, outputs)
  BY DEF StateInv, TypeInv, TypeOK, WholeInv
<1>2. \A m \in Nodes : outs[m] = IF m = n THEN Error ELSE outputs[m]
  BY <1>1
<1> HIDE DEF outs
<1>3. Full(Error)
  BY Markers DEF Full
<1>4. ASSUME Acyclic, NEW m \in Nodes, ~IsWait(m), Full(outs[m]),
             NEW p \in Preds(workflow, m)
      PROVE  Full(outs[p])
  <2>1. p \in Nodes
    BY <1>1, PredsType
  <2>2. Full(outputs[p])
    <3>1. CASE m = n
      BY <1>1, <1>4, <3>1, PassedFull DEF MustExecute, Passed
    <3>2. CASE m # n
      BY <1>1, <1>2, <1>4, <3>2 DEF Whole, IsWait, Acyclic
    <3> QED
      BY <3>1, <3>2
  <2> QED
    BY <1>2, <1>3, <2>1, <2>2
<1>5. ASSUME NoWaits, NEW m \in Nodes PROVE outs[m] # Suspended
  BY <1>1, <1>2, <1>5, Markers DEF Whole, NoWaits, IsWait
<1>6. Whole(workflow, outs)
  BY <1>4, <1>5 DEF Whole, IsWait, Acyclic, NoWaits
<1> QED
  BY <1>6 DEF outs

\* The outputs a resumed run starts with.
LEMMA WholeResume ==
  ASSUME TypeInv, WholeInv, NEW cut \in Nodes \cup {NoNode}, ResumeFrom(cut)
  PROVE  Whole(workflow, outputs')
<1> DEFINE removed == IF cut = NoNode THEN {}
                      ELSE {m \in Nodes : Reaches(workflow, cut, m)}
           old == snapshot.outputs
<1>1. /\ workflow \in Workflows /\ Whole(workflow, old)
      /\ outputs' = [n \in Nodes |-> IF n \in removed THEN None ELSE old[n]]
  BY DEF TypeInv, TypeOK, WholeInv, ResumeFrom
<1>2. \A n \in Nodes : outputs'[n] = IF n \in removed THEN None ELSE old[n]
  BY <1>1
<1>3. ASSUME NEW n \in Nodes, NEW p \in Preds(workflow, n), n \notin removed
      PROVE  p \notin removed
  <2>1. PICK e \in Graph[workflow].edges : e.from = p /\ e.to = n
    BY DEF Preds, Sources
  <2> QED
    BY <1>1, <1>3, <2>1, ReachesStep
<1> HIDE DEF removed, old
<1>4. ASSUME Acyclic, NEW n \in Nodes, ~IsWait(n), Full(outputs'[n]),
             NEW p \in Preds(workflow, n)
      PROVE  Full(outputs'[p])
  <2>1. n \notin removed /\ Full(old[n])
    BY <1>2, <1>4 DEF Full
  <2>2. p \in Nodes /\ p \notin removed
    BY <1>1, <1>3, <2>1, PredsType
  <2>3. Full(old[p])
    BY <1>1, <1>4, <2>1 DEF Whole, IsWait, Acyclic
  <2> QED
    BY <1>2, <2>2, <2>3
<1>5. ASSUME NoWaits, NEW n \in Nodes PROVE outputs'[n] # Suspended
  BY <1>1, <1>2, <1>5, Markers DEF Whole, NoWaits, IsWait
<1> QED
  BY <1>4, <1>5 DEF Whole, IsWait, Acyclic, NoWaits

LEMMA WholeAnswer ==
  ASSUME TypeInv, WholeInv, AnswerWaits
  PROVE  Whole(workflow, outputs')
<1>1. workflow \in Workflows /\ Whole(workflow, outputs)
  BY DEF TypeInv, TypeOK, WholeInv
<1>2. \A n \in Nodes : outputs'[n] = outputs[n] \/ outputs'[n] = Payload
  BY DEF AnswerWaits
<1>3. \A n \in Nodes : ~IsWait(n) => outputs'[n] = outputs[n]
  BY DEF AnswerWaits, Waiting
<1>4. Full(Payload)
  BY Markers DEF Full
<1>5. \A n \in Nodes : Preds(workflow, n) \subseteq Nodes
  BY <1>1, PredsType
<1> QED
  BY <1>1, <1>2, <1>3, <1>4, <1>5, Markers DEF Whole, IsWait

\* What the row's snapshot takes over at the end of a superstep.
LEMMA SnapshotOutputs ==
  ASSUME Advance \/ Overrun \/ Complete
  PROVE  snapshot'.outputs = outputs' \/ snapshot' = snapshot
BY DEF Advance, Overrun, Complete, PersistPartial, Snapshot

LEMMA WholeInvStep == StateInv /\ WholeInv /\ [Next]_vars => WholeInv'
<1> SUFFICES ASSUME StateInv, WholeInv, [Next]_vars
             PROVE  Whole(workflow, outputs') /\ Whole(workflow, snapshot'.outputs)
  BY SameWorkflow DEF WholeInv
<1> USE DEF state, task, run
<1>1. ASSUME outputs' = outputs,
             snapshot' = snapshot \/ Whole(workflow, snapshot'.outputs)
      PROVE  Whole(workflow, outputs') /\ Whole(workflow, snapshot'.outputs)
  BY <1>1 DEF WholeInv
<1>2. ASSUME NEW n \in Nodes, Task(n), ~RaiseInBody(n), ~RaiseInRouter(n)
      PROVE  outputs' = outputs /\ snapshot' = snapshot
  BY <1>2 DEF Task, ArmWait, SkipAnswered, Propagate, HoldAtGate, SkipDone,
     Execute, EndTask
<1>3. ASSUME NEW outs, Fail(outs), Whole(workflow, outs)
      PROVE  outputs' = outputs /\ Whole(workflow, snapshot'.outputs)
  BY <1>3 DEF Fail, Snapshot
<1>4. ASSUME NEW n \in Nodes, RaiseInBody(n) \/ RaiseInRouter(n)
      PROVE  outputs' = outputs /\ Whole(workflow, snapshot'.outputs)
  BY <1>3, <1>4 DEF RaiseInBody, RaiseInRouter, WholeInv
<1>5. CASE Cancel
  <2>1. todo \subseteq Nodes
    BY DEF StateInv, TypeInv, TypeOK
  <2>2. CASE Fail(outputs)
    BY <1>1, <1>3, <2>2 DEF WholeInv
  <2>3. ASSUME NEW n \in todo, MustExecute(n), Fail([outputs EXCEPT ![n] = Error])
        PROVE  outputs' = outputs /\ Whole(workflow, snapshot'.outputs)
    <3>1. Whole(workflow, [outputs EXCEPT ![n] = Error])
      BY <2>1, <2>3, WholeFail
    <3> QED
      BY <1>3, <2>3, <3>1
  <2> QED
    BY <1>1, <1>5, <2>2, <2>3 DEF Cancel
<1>6. CASE LoseWorker \/ UNCHANGED vars
  BY <1>1, <1>6 DEF LoseWorker, vars
<1>7. CASE Advance \/ Overrun \/ Complete
  <2>1. phase = "running" /\ Merge
    BY <1>7 DEF Advance, Overrun, Complete, EndSuperstep
  <2>2. Whole(workflow, outputs')
    BY <2>1, WholeMerge DEF WholeInv
  <2> QED
    BY <1>7, <2>2, SnapshotOutputs DEF WholeInv
<1>8. CASE AnswerWaits
  <2>1. snapshot' = snapshot
    BY <1>8 DEF AnswerWaits
  <2> QED
    BY <1>8, <2>1, WholeAnswer DEF StateInv, WholeInv
<1>9. ASSUME NEW cut \in Nodes \cup {NoNode}, ResumeFrom(cut)
      PROVE  Whole(workflow, outputs') /\ Whole(workflow, snapshot'.outputs)
  <2>1. snapshot'.outputs = outputs'
    BY <1>9 DEF ResumeFrom, Snapshot
  <2> QED
    BY <1>9, <2>1, WholeResume DEF StateInv
<1> QED
  BY <1>1, <1>2, <1>4, <1>5, <1>6, <1>7, <1>8, <1>9 DEF Next

\* A node that has passed the gate would pass it again.
LEMMA PassedStays ==
  ASSUME StateInv, WholeInv, Steady, phase = "running", Merge,
         workflow' = workflow, NEW n \in Nodes, Passed(n)
  PROVE  Passed(n)'
<1>1. workflow \in Workflows
  BY DEF StateInv, TypeInv, TypeOK
<1>2. /\ Whole(workflow, outputs')
      /\ Acyclic => \A m \in Nodes : Full(outputs[m]) => Full(outputs'[m])
  BY WholeMerge DEF WholeInv
<1>3. IsWait(n)' <=> IsWait(n)
  BY DEF IsWait
<1>4. Sources(workflow, n) \subseteq Nodes /\ Preds(workflow, n) \subseteq Nodes
  BY <1>1, PredsType
<1>5. ASSUME NEW p \in Sources(workflow, n) PROVE outputs'[p] # Suspended
  <2>1. CASE Acyclic
    <3>1. Full(outputs[p])
      BY <1>1, <2>1, PassedFull, AcyclicPreds DEF Acyclic
    <3> QED
      BY <1>2, <1>4, <2>1, <3>1 DEF Full
  <2>2. CASE NoWaits
    BY <1>2, <1>4, <2>2 DEF Whole, NoWaits, IsWait
  <2> QED
    BY <2>1, <2>2 DEF Steady
<1>6. ASSUME NEW p \in ForwardPreds(workflow, n) PROVE outputs'[p] # None
  <2>1. outputs[p] # None /\ p \in Nodes
    BY <1>4 DEF Passed, Missing, ForwardPreds
  <2> QED
    BY <2>1, MergeNode, Markers
<1> QED
  BY <1>3, <1>5, <1>6 DEF Passed, SuspendedInput, Missing

\* The end of a superstep: results stay, ...
LEMMA RecordSuperstep ==
  ASSUME InputInv, Advance \/ Overrun \/ Complete
  PROVE  RecordInv'
<1>1. /\ phase = "running" /\ Merge /\ workflow' = workflow
      /\ StateInv /\ WholeInv /\ RecordInv
  BY DEF Advance, Overrun, Complete, EndSuperstep, InputInv
<1> SUFFICES ASSUME Steady', NEW n \in Nodes, consumed'[n] # NoRecord
             PROVE  Passed(n)' /\ Full(outputs'[n])
  BY DEF RecordInv
<1>2. Steady
  BY <1>1 DEF Steady, Acyclic, NoWaits, IsWait
<1>3. Passed(n) /\ (Fired(n) \/ Full(outputs[n]))
  <2>1. CASE Fired(n)
    <3>1. MustExecute(n)
      BY <1>1, <2>1, MergeNode
    <3> QED
      BY <2>1, <3>1 DEF MustExecute, Passed
  <2>2. CASE ~Fired(n)
    BY <1>1, <1>2, <2>2, MergeNode DEF RecordInv
  <2> QED
    BY <2>1, <2>2
<1>4. Passed(n)'
  BY <1>1, <1>2, <1>3, PassedStays
<1>5. Full(outputs'[n])
  <2>1. ~Blocked(n)
    BY <1>3 DEF Blocked, Passed
  <2>2. \/ outputs'[n] \in Values \cup {Error}
        \/ outputs'[n] = outputs[n] /\ ~Fired(n)
    BY <1>1, <2>1, MergeNode
  <2> QED
    BY <1>3, <2>2, Markers DEF Full
<1> QED
  BY <1>4, <1>5

\* ... and who reads a replaced input is active next.
LEMMA StaleSuperstep ==
  ASSUME InputInv, Advance \/ Overrun \/ Complete
  PROVE  StaleInv'
<1>1. /\ phase = "running" /\ Merge /\ todo = {} /\ workflow' = workflow
      /\ StateInv /\ StaleInv
  BY DEF Advance, Overrun, Complete, EndSuperstep, InputInv
<1>2. workflow \in Workflows
  BY <1>1 DEF StateInv, TypeInv, TypeOK
<1> SUFFICES ASSUME NEW n \in Nodes, consumed'[n] # NoRecord
             PROVE  /\ ~IsWait(n)' /\ Missing(n)' = {}
                    /\ Outdated(n)' => \/ outputs'[n] = Suspended
                                       \/ phase' = "failed"
                                       \/ phase' = "running" /\ n \in active'
  BY DEF StaleInv
<1>3. Preds(workflow, n)' = Preds(workflow, n) /\ Preds(workflow, n) \subseteq Nodes
  BY <1>1, <1>2, PredsType
<1>4. ~IsWait(n) /\ Missing(n) = {}
  <2>1. CASE Fired(n)
    <3>1. MustExecute(n)
      BY <1>1, <2>1, MergeNode
    <3> QED
      BY <3>1 DEF MustExecute
  <2>2. CASE ~Fired(n)
    BY <1>1, <2>2, MergeNode DEF StaleInv
  <2> QED
    BY <2>1, <2>2
<1>5. ~IsWait(n)' /\ Missing(n)' = {}
  <2>1. \A p \in ForwardPreds(workflow, n) : p \in Nodes /\ outputs[p] # None
    BY <1>3, <1>4 DEF Missing, ForwardPreds
  <2>2. \A p \in ForwardPreds(workflow, n) : outputs'[p] # None
    BY <1>1, <2>1, MergeNode, Markers
  <2> QED
    BY <1>1, <1>4, <2>2 DEF IsWait, Missing
<1>6. ASSUME Outdated(n)', outputs'[n] # Suspended
      PROVE  phase' = "failed" \/ (phase' = "running" /\ n \in active')
  <2>1. PICK p \in Preds(workflow, n) :
          n \in Route(p, outputs'[p]) /\ consumed'[n][p] # outputs'[p]
    BY <1>1, <1>3, <1>6, RouteNext DEF Outdated
  <2>2. p \in Nodes
    BY <1>3
  <2>3. outputs'[p] # outputs[p]
    <3> SUFFICES ASSUME outputs'[p] = outputs[p] PROVE FALSE
      OBVIOUS
    <3>1. ~Fired(n)
      <4> SUFFICES ASSUME Fired(n) PROVE consumed'[n][p] = outputs[p]
        BY <2>1
      <4>1. consumed'[n] = CurrentInputs(n)
        BY <1>1, MergeNode
      <4> QED
        BY <2>2, <4>1 DEF CurrentInputs
    <3>2. consumed'[n] = consumed[n]
      BY <1>1, <3>1, MergeNode
    <3>3. consumed[n] # NoRecord /\ Outdated(n)
      BY <2>1, <3>2 DEF Outdated
    <3>4. outputs'[n] = outputs[n]
      BY <1>1, <1>6, <3>1, MergeNode
    <3>5. n \in active
      BY <1>1, <1>6, <3>3, <3>4 DEF StaleInv
    <3>6. InputsChanged(n)
      BY <3>3 DEF InputsChanged, Outdated
    <3>7. CASE SuspendedInput(n)
      BY <1>1, <1>4, <1>6, <3>5, <3>7, MergeSuspends
    <3>8. CASE ~SuspendedInput(n)
      <4>1. MustExecute(n)
        BY <1>4, <3>6, <3>8 DEF MustExecute, IsDone
      <4> QED
        BY <1>1, <3>1, <3>5, <4>1, MergeNode
    <3> QED
      BY <3>7, <3>8
  <2>4. p \in active
    BY <1>1, <2>2, <2>3, MergeNode
  <2>5. n \in Triggered
    BY <2>1, <2>4 DEF Triggered
  <2> QED
    BY <1>1, <2>5 DEF Advance, Overrun, Complete, Activate
<1> QED
  BY <1>5, <1>6

\* The answers: results stay, and the readers of an answer are active.
LEMMA RecordAnswer ==
  ASSUME InputInv, AnswerWaits
  PROVE  RecordInv'
<1>1. /\ UNCHANGED <<workflow, consumed>>
      /\ outputs' = [n \in Nodes |-> IF n \in Waiting THEN Payload ELSE outputs[n]]
      /\ workflow \in Workflows /\ RecordInv
  BY DEF AnswerWaits, InputInv, StateInv, TypeInv, TypeOK
<1> SUFFICES ASSUME Steady', NEW n \in Nodes, consumed'[n] # NoRecord
             PROVE  Passed(n)' /\ Full(outputs'[n])
  BY DEF RecordInv
<1>2. Passed(n) /\ Full(outputs[n])
  BY <1>1 DEF RecordInv, Steady, Acyclic, NoWaits, IsWait
<1>3. \A p \in Sources(workflow, n) : outputs'[p] = outputs[p]
  BY <1>1, <1>2, PredsType DEF Passed, SuspendedInput, Waiting
<1>4. ForwardPreds(workflow, n) \subseteq Sources(workflow, n)
  BY DEF Preds, ForwardPreds
<1>5. Passed(n)'
  BY <1>1, <1>2, <1>3, <1>4 DEF Passed, SuspendedInput, Missing, IsWait
<1>6. outputs'[n] = outputs[n]
  BY <1>1, <1>2 DEF Passed, Waiting
<1> QED
  BY <1>2, <1>5, <1>6

LEMMA StaleAnswer ==
  ASSUME InputInv, AnswerWaits
  PROVE  StaleInv'
<1> DEFINE W == UNION {Targets(OutEdges(workflow, n)) : n \in Waiting}
<1>1. /\ phase = "suspended" /\ phase' = "running" /\ UNCHANGED <<workflow, consumed>>
      /\ outputs' = [n \in Nodes |-> IF n \in Waiting THEN Payload ELSE outputs[n]]
      /\ active' = EntryPoints(W, entered)
      /\ workflow \in Workflows /\ StaleInv
  BY DEF AnswerWaits, Activate, InputInv, StateInv, TypeInv, TypeOK
<1> HIDE DEF W
<1> SUFFICES ASSUME NEW n \in Nodes, consumed'[n] # NoRecord
             PROVE  /\ ~IsWait(n)' /\ Missing(n)' = {}
                    /\ Outdated(n)' => outputs'[n] = Suspended \/ n \in active'
  BY <1>1 DEF StaleInv
<1>2. /\ ~IsWait(n) /\ Missing(n) = {}
      /\ Outdated(n) => outputs[n] = Suspended
  BY <1>1 DEF StaleInv
<1>3. Preds(workflow, n) \subseteq Nodes /\ ForwardPreds(workflow, n) \subseteq Nodes
  BY <1>1, PredsType DEF ForwardPreds
<1>4. ~IsWait(n)' /\ Missing(n)' = {}
  BY <1>1, <1>2, <1>3, Markers DEF IsWait, Missing
<1>5. outputs'[n] = outputs[n]
  BY <1>1, <1>2 DEF Waiting
<1>6. ASSUME Outdated(n)', outputs'[n] # Suspended PROVE n \in active'
  <2>1. PICK p \in Preds(workflow, n) :
          n \in Route(p, outputs'[p]) /\ consumed[n][p] # outputs'[p]
    BY <1>1, <1>6, RouteNext DEF Outdated
  <2>2. p \in Waiting
    BY <1>1, <1>2, <1>3, <1>5, <1>6, <2>1 DEF Outdated
  <2>3. n \in Targets(OutEdges(workflow, p))
    BY <1>1, <1>3, <2>1, RouteTargets
  <2>4. n \in W
    BY <2>2, <2>3 DEF W
  <2> QED
    BY <1>1, <2>4 DEF EntryPoints
<1> QED
  BY <1>4, <1>6

\* Nothing that the invariant says of a node changes with the tasks.
LEMMA RecordSame ==
  ASSUME UNCHANGED <<workflow, active, outputs, consumed>>,
         phase' = "failed" \/ phase' = phase, InputInv
  PROVE  RecordInv' /\ StaleInv'
<1>1. Steady' <=> Steady
  BY DEF Steady, Acyclic, NoWaits, IsWait
<1>2. \A n \in Nodes : Passed(n)' <=> Passed(n)
  BY DEF Passed, IsWait, SuspendedInput, Missing
<1>3. \A n \in Nodes : /\ Outdated(n)' <=> Outdated(n)
                       /\ IsWait(n)' <=> IsWait(n)
                       /\ Missing(n)' = Missing(n)
  BY DEF Outdated, Route, IsWait, Missing
<1> QED
  BY <1>1, <1>2, <1>3 DEF InputInv, RecordInv, StaleInv

LEMMA InputInvInit == Init => InputInv
<1>1. Init => WholeInv
  BY Markers DEF Init, Snapshot, WholeInv, Whole, Full
<1>2. Init => RecordInv /\ StaleInv
  BY DEF Init, RecordInv, StaleInv
<1> QED
  BY <1>1, <1>2, StateInvInit DEF InputInv

LEMMA InputInvStep == InputInv /\ [Next]_vars => InputInv'
<1> SUFFICES ASSUME InputInv, [Next]_vars PROVE RecordInv' /\ StaleInv'
  BY StateInvStep, WholeInvStep DEF InputInv
<1> USE DEF state, task, run
<1>1. ASSUME NEW n \in Nodes, Task(n) PROVE RecordInv' /\ StaleInv'
  BY <1>1, RecordSame DEF Task, ArmWait, SkipAnswered, Propagate,
     HoldAtGate, SkipDone, Execute, EndTask, RaiseInBody, RaiseInRouter, Fail
<1>2. CASE Cancel \/ LoseWorker \/ UNCHANGED vars
  BY <1>2, RecordSame DEF Cancel, Fail, LoseWorker, vars
<1>3. ASSUME NEW cut \in Nodes \cup {NoNode}, ResumeFrom(cut)
      PROVE  RecordInv' /\ StaleInv'
  BY <1>3 DEF ResumeFrom, RecordInv, StaleInv
<1> QED
  BY <1>1, <1>2, <1>3, RecordSuperstep, StaleSuperstep, RecordAnswer,
     StaleAnswer DEF Next

LEMMA InputInvariant == Spec => []InputInv
BY InputInvInit, InputInvStep, PTL DEF Spec

\* No finished run of any graph holds a result of outdated inputs: through
\* loops, retries of failed nodes, resumed runs and answered wait nodes, what
\* a node consumed is the final output of every predecessor that routes to it.
THEOREM InputsUpToDate == Spec => []NoStaleInput
<1>1. InputInv => NoStaleInput
  BY DEF InputInv, StaleInv, Outdated, NoStaleInput
<1> QED
  BY <1>1, InputInvariant, PTL

\* In a graph without cycles, or without wait nodes, an execution keeps what
\* it has computed: no suspension overwrites the result of a node. (With both
\* it can: the condition that closes a loop, suspended, suspends the loop.)
THEOREM ResultsStay ==
  Spec => [](Steady => \A n \in Nodes : consumed[n] # NoRecord => Done(n))
<1>1. InputInv => (Steady => \A n \in Nodes : consumed[n] # NoRecord => Done(n))
  BY DEF InputInv, RecordInv, Full, Done
<1> QED
  BY <1>1, InputInvariant, PTL

-----------------------------------------------------------------------------
(* A finished run has executed what it had to                              *)
(*                                                                         *)
(* A node becomes ready when the last of its predecessors completes, and   *)
(* is active then. A resumed run starts again from the entries: what is    *)
(* ready lies ahead of the active nodes, along routes that pass through    *)
(* finished nodes, which is why the edges that a finished node follows     *)
(* must be the same as when it was executed.                               *)

DoneScope ==
  /\ Acyclic /\ Unweighted
  /\ (Fresh /\ workflow \notin ErrorProne) \/ Unconditional

\* A predecessor that is complete has led to n.
Inviter(outs, n) ==
  \/ Preds(workflow, n) = {}
  \/ \E p \in Preds(workflow, n) : Full(outs[p]) /\ n \in Route(p, outs[p])

Invited(outs) == \A n \in Nodes : ~IsWait(n) /\ Full(outs[n]) => Inviter(outs, n)

Ready(n) ==
  \A p \in Preds(workflow, n) : Full(outputs[p]) /\ n \in Route(p, outputs[p])

\* n lies on the routes from the nodes of N; used where outputs do not matter.
From(N, n) ==
  \A S \in SUBSET Nodes :
    N \subseteq S /\ (\A x \in S : Route(x, None) \subseteq S) => n \in S

ActiveInv ==
  phase = "running" => \A n \in active :
    \/ Preds(workflow, n) = {}
    \/ \E p \in Preds(workflow, n) : n \in Route(p, outputs[p])

InvitedInv ==
  Invited(outputs) /\ (Unconditional => Invited(snapshot.outputs))

ReachInv ==
  Unconditional => \A n \in Nodes :
    n \in active \/ outputs[n] # None \/ snapshot.outputs[n] # None =>
      From(Graph[workflow].entry, n)

ComingInv ==
  \A n \in Nodes : ~IsWait(n) /\ ~Full(outputs[n]) /\ Ready(n) =>
    \/ phase = "failed"
    \/ phase = "running" /\ (n \in active \/ (Unconditional /\ From(active, n)))

DoneInv == DoneScope => ActiveInv /\ InvitedInv /\ ReachInv /\ ComingInv

FinishInv == StateInv /\ OrderInv /\ WholeInv /\ DoneInv

\* Without conditions, where a node leads does not depend on its output.
LEMMA StaticRoute ==
  ASSUME Unconditional, NEW n \in Nodes, NEW o, NEW q
  PROVE  Route(n, o) = Route(n, q)
<1>1. ~IsRouter(workflow, n)
  BY DEF Unconditional, IsRouter
<1> QED
  BY <1>1 DEF Route

\* A node leads to nodes of which it is a predecessor.
LEMMA RoutePreds ==
  ASSUME workflow \in Workflows, Acyclic, NEW m \in Nodes, NEW n,
         n \in Targets(OutEdges(workflow, m))
  PROVE  n \in Nodes /\ m \in Preds(workflow, n)
<1>1. PICK e \in Graph[workflow].edges : e.from = m /\ e.to = n
  BY DEF Targets, OutEdges
<1>2. n \in Nodes
  BY <1>1, EdgeType
<1> QED
  BY <1>1, <1>2, AcyclicPreds DEF Acyclic, Sources

\* The entries of an acyclic graph.
LEMMA Entries ==
  ASSUME workflow \in Workflows, Acyclic
  PROVE  /\ Graph[workflow].entry = {n \in Nodes : Preds(workflow, n) = {}}
         /\ \A n : EntryPoints({}, n) = Graph[workflow].entry
<1>1. \A n \in Nodes : Sources(workflow, n) = Preds(workflow, n)
  BY AcyclicPreds DEF Acyclic
<1>2. Graph[workflow].entry = {n \in Nodes : Sources(workflow, n) = {}}
  BY GraphsAssumption DEF Acyclic
<1> QED
  BY <1>1, <1>2 DEF EntryPoints, Acyclic

LEMMA FromSelf ==
  ASSUME NEW N, NEW n \in N
  PROVE  From(N, n)
BY DEF From

LEMMA FromStep ==
  ASSUME NEW N, NEW m, From(N, m), NEW n, n \in Route(m, None)
  PROVE  From(N, n)
BY DEF From

\* Where a complete node has led, it leads still.
LEMMA KeptRoutes ==
  ASSUME FinishInv, DoneScope, phase = "running", Merge,
         NEW p \in Nodes, Full(outputs[p])
  PROVE  Full(outputs'[p]) /\ Route(p, outputs'[p]) = Route(p, outputs[p])
<1>1. StateInv /\ OrderInv /\ Whole(workflow, outputs) /\ Acyclic
  BY DEF FinishInv, WholeInv, DoneScope
<1>2. Full(outputs'[p])
  BY <1>1, WholeMerge
<1>3. CASE Unconditional
  BY <1>2, <1>3, StaticRoute
<1>4. CASE ~Unconditional
  <2>1. Scope /\ Done(p)
    BY <1>1, <1>4 DEF DoneScope, Scope, Full, Done
  <2>2. outputs'[p] = outputs[p]
    BY <1>1, <2>1, MergeOrder
  <2> QED
    BY <1>2, <2>2
<1> QED
  BY <1>3, <1>4

\* The parts of the invariant in the next state, for a workflow that stays.
LEMMA DoneNext ==
  ASSUME workflow' = workflow
  PROVE  /\ Acyclic' <=> Acyclic
         /\ Unweighted' <=> Unweighted
         /\ Unconditional' <=> Unconditional
         /\ \A n \in Nodes : IsWait(n)' <=> IsWait(n)
         /\ Invited(outputs)' <=> Invited(outputs')
         /\ Invited(snapshot.outputs)' <=> Invited(snapshot'.outputs)
         /\ \A n \in Nodes :
              Ready(n)' <=> \A p \in Preds(workflow, n) :
                              Full(outputs'[p]) /\ n \in Route(p, outputs'[p])
         /\ \A n : From(Graph[workflow].entry, n)' <=> From(Graph[workflow].entry, n)
         /\ \A n : From(active, n)' <=> From(active', n)
<1>1. /\ Acyclic' <=> Acyclic
      /\ Unconditional' <=> Unconditional
      /\ \A n \in Nodes : IsWait(n)' <=> IsWait(n)
  BY DEF Acyclic, Unconditional, IsWait
<1>2. Unweighted' <=> Unweighted
  BY <1>1 DEF Unweighted, Route
<1>3. /\ Invited(outputs)' <=> Invited(outputs')
      /\ Invited(snapshot.outputs)' <=> Invited(snapshot'.outputs)
  BY DEF Invited, Inviter, IsWait, Route
<1>4. \A n \in Nodes :
        Ready(n)' <=> \A p \in Preds(workflow, n) :
                        Full(outputs'[p]) /\ n \in Route(p, outputs'[p])
  BY DEF Ready, Route
<1>5. /\ \A n : From(Graph[workflow].entry, n)' <=> From(Graph[workflow].entry, n)
      /\ \A n : From(active, n)' <=> From(active', n)
  BY DEF From, Route
<1> QED
  BY <1>1, <1>2, <1>3, <1>4, <1>5

\* A step comes from a state of the same kind.
LEMMA DoneScopeBefore ==
  ASSUME StateInv, [Next]_vars, DoneScope'
  PROVE  DoneScope
<1>1. workflow' = workflow
  BY SameWorkflow
<1>2. Fresh' => Fresh
  <2>1. resumes \in Nat /\ resumes + 1 # 0
    BY BoundsAssumption DEF StateInv, TypeInv, TypeOK
  <2>2. ASSUME NEW cut \in Nodes \cup {NoNode}, ResumeFrom(cut)
        PROVE  resumes' = resumes + 1
    BY <2>2 DEF ResumeFrom
  <2>3. resumes' = resumes \/ resumes' = resumes + 1
    BY <2>2 DEF Next, Task, ArmWait, SkipAnswered, Propagate, HoldAtGate, SkipDone,
       Execute, EndTask, RaiseInBody, RaiseInRouter, Fail, Cancel, LoseWorker,
       Advance, Overrun, Complete, EndSuperstep, AnswerWaits, vars, run
  <2> QED
    BY <2>1, <2>3 DEF Fresh
<1> QED
  BY <1>1, <1>2, DoneNext DEF DoneScope

\* The end of a superstep.
LEMMA ActiveSuperstep ==
  ASSUME FinishInv, DoneScope, workflow' = workflow,
         Advance \/ Overrun \/ Complete
  PROVE  ActiveInv'
<1>1. workflow \in Workflows /\ active \subseteq Nodes /\ Acyclic
  BY DEF FinishInv, StateInv, TypeInv, TypeOK, DoneScope
<1>2. CASE Advance
  <2> SUFFICES ASSUME NEW n \in active'
               PROVE  \E p \in Preds(workflow, n)' : n \in Route(p, outputs[p])'
    BY DEF ActiveInv
  <2>1. PICK m \in active : n \in Route(m, outputs'[m])
    BY <1>2 DEF Advance, Activate, Triggered
  <2>2. n \in Targets(OutEdges(workflow, m))
    BY <1>1, <2>1, RouteTargets
  <2>3. m \in Preds(workflow, n)
    BY <1>1, <2>2, RoutePreds
  <2> QED
    BY <2>1, <2>3, RouteNext
<1>3. CASE Overrun \/ Complete
  BY <1>3 DEF Overrun, Complete, ActiveInv
<1> QED
  BY <1>2, <1>3

LEMMA InvitedSuperstep ==
  ASSUME FinishInv, DoneScope, workflow' = workflow,
         Advance \/ Overrun \/ Complete
  PROVE  InvitedInv'
<1>1. /\ workflow \in Workflows /\ Acyclic /\ phase = "running" /\ Merge
      /\ StateInv /\ ActiveInv /\ InvitedInv
  BY DEF FinishInv, DoneInv, StateInv, TypeInv, TypeOK, DoneScope, Advance,
     Overrun, Complete, EndSuperstep
<1>2. ASSUME NEW n \in Nodes, ~IsWait(n), Full(outputs'[n]) PROVE Inviter(outputs', n)
  <2>1. Preds(workflow, n) \subseteq Nodes
    BY <1>1, PredsType
  <2>2. Inviter(outputs, n)
    <3>1. CASE Full(outputs[n])
      BY <1>1, <1>2, <3>1 DEF InvitedInv, Invited
    <3>2. CASE ~Full(outputs[n])
      <4>1. Fired(n)
        BY <1>1, <1>2, <3>2, MergeNode DEF Full
      <4>2. n \in active /\ MustExecute(n)
        BY <1>1, <4>1, MergeNode
      <4>3. \A p \in Preds(workflow, n) : Full(outputs[p])
        BY <1>1, <4>2, PassedFull DEF MustExecute, Passed
      <4> QED
        BY <1>1, <4>2, <4>3 DEF ActiveInv, Inviter
    <3> QED
      BY <3>1, <3>2
  <2> QED
    BY <1>1, <2>1, <2>2, KeptRoutes DEF Inviter
<1>3. Invited(outputs')
  BY <1>2 DEF Invited
<1>4. Unconditional => Invited(snapshot'.outputs)
  BY <1>1, <1>3, SnapshotOutputs DEF InvitedInv
<1> QED
  BY <1>3, <1>4, DoneNext DEF InvitedInv

LEMMA ReachSuperstep ==
  ASSUME FinishInv, DoneScope, workflow' = workflow,
         Advance \/ Overrun \/ Complete
  PROVE  ReachInv'
<1>1. /\ workflow \in Workflows /\ active \subseteq Nodes /\ phase = "running" /\ Merge
      /\ StateInv /\ ReachInv
  BY DEF FinishInv, DoneInv, StateInv, TypeInv, TypeOK, Advance, Overrun,
     Complete, EndSuperstep
<1> SUFFICES ASSUME Unconditional, NEW n \in Nodes,
                    n \in active' \/ outputs'[n] # None \/ snapshot'.outputs[n] # None
             PROVE  From(Graph[workflow].entry, n)
  BY DoneNext DEF ReachInv
<1>2. \A m \in active : From(Graph[workflow].entry, m)
  BY <1>1 DEF ReachInv
<1>3. ASSUME n \in active' PROVE From(Graph[workflow].entry, n)
  <2>1. n \in active \/ n \in Triggered
    BY <1>3 DEF Advance, Overrun, Complete, Activate
  <2>2. CASE n \in Triggered
    <3>1. PICK m \in active : n \in Route(m, outputs'[m])
      BY <2>2 DEF Triggered
    <3>2. n \in Route(m, None)
      BY <1>1, <3>1, StaticRoute
    <3> QED
      BY <1>2, <3>2, FromStep
  <2> QED
    BY <1>2, <2>1, <2>2
<1>4. ASSUME outputs'[n] # None PROVE From(Graph[workflow].entry, n)
  <2>1. outputs[n] # None \/ n \in active
    BY <1>1, <1>4, MergeNode
  <2> QED
    BY <1>1, <2>1 DEF ReachInv
<1> QED
  BY <1>1, <1>3, <1>4, SnapshotOutputs DEF ReachInv

LEMMA ComingSuperstep ==
  ASSUME FinishInv, DoneScope, workflow' = workflow,
         Advance \/ Overrun \/ Complete
  PROVE  ComingInv'
<1>1. /\ workflow \in Workflows /\ active \subseteq Nodes /\ Acyclic
      /\ phase = "running" /\ Merge /\ todo = {}
      /\ StateInv /\ ComingInv
  BY DEF FinishInv, DoneInv, DoneScope, StateInv, TypeInv, TypeOK, Advance,
     Overrun, Complete, EndSuperstep
<1> SUFFICES ASSUME NEW n \in Nodes, ~IsWait(n), ~Full(outputs'[n]), phase' # "failed",
                    \A p \in Preds(workflow, n) :
                      Full(outputs'[p]) /\ n \in Route(p, outputs'[p])
             PROVE  /\ phase' = "running"
                    /\ n \in active' \/ (Unconditional /\ From(active', n))
  BY DoneNext DEF ComingInv
<1>2. Preds(workflow, n) \subseteq Nodes
  BY <1>1, PredsType
<1>3. ASSUME n \in Triggered PROVE phase' = "running" /\ n \in active'
  BY <1>1, <1>3 DEF Advance, Overrun, Complete, Activate
<1>4. CASE \E p \in Preds(workflow, n) : outputs'[p] # outputs[p]
  <2>1. PICK p \in Preds(workflow, n) : outputs'[p] # outputs[p]
    BY <1>4
  <2>2. p \in active
    BY <1>1, <1>2, <2>1, MergeNode
  <2>3. n \in Triggered
    BY <2>2 DEF Triggered
  <2> QED
    BY <1>3, <2>3
<1>5. CASE \A p \in Preds(workflow, n) : outputs'[p] = outputs[p]
  <2>1. Ready(n)
    BY <1>5 DEF Ready
  <2>2. ~Full(outputs[n])
    BY <1>1, KeptRoutes
  <2>3. n \notin active
    <3> SUFFICES ASSUME n \in active PROVE FALSE
      OBVIOUS
    <3>1. ~SuspendedInput(n) /\ Missing(n) = {}
      BY <1>1, <2>1, AcyclicPreds DEF Ready, Full, SuspendedInput, Missing, Acyclic
    <3>2. MustExecute(n)
      BY <2>2, <3>1 DEF MustExecute, IsDone, Full
    <3>3. outputs'[n] \in Values \cup {Error}
      BY <1>1, <3>2, MergeNode
    <3> QED
      BY <3>3, Markers DEF Full
  <2>4. Unconditional /\ From(active, n)
    BY <1>1, <2>1, <2>2, <2>3 DEF ComingInv
  <2>5. \A x \in active : Route(x, None) \subseteq Triggered
    <3>1. \A x \in active : Route(x, None) = Route(x, outputs'[x])
      BY <1>1, <2>4, StaticRoute
    <3> QED
      BY <3>1 DEF Triggered
  <2>6. ASSUME NEW S \in SUBSET Nodes, Triggered \subseteq S,
               \A x \in S : Route(x, None) \subseteq S
        PROVE  n \in S
    <3>1. S \cup active \in SUBSET Nodes
      BY <1>1
    <3>2. \A x \in S \cup active : Route(x, None) \subseteq S \cup active
      BY <2>5, <2>6
    <3>3. n \in S \cup active
      BY <2>4, <3>1, <3>2 DEF From
    <3> QED
      BY <2>3, <3>3
  <2>7. From(Triggered, n)
    BY <2>6 DEF From
  <2>8. Triggered # {}
    BY <2>6
  <2>9. phase' = "running" /\ active' = Triggered
    BY <1>1, <2>8 DEF Advance, Overrun, Complete, Activate
  <2> QED
    BY <2>4, <2>7, <2>9
<1> QED
  BY <1>4, <1>5

\* The execution that follows the answers starts where the wait nodes lead.
LEMMA DoneAnswer ==
  ASSUME FinishInv, DoneScope, workflow' = workflow, AnswerWaits
  PROVE  ActiveInv' /\ InvitedInv' /\ ReachInv' /\ ComingInv'
<1> DEFINE W == UNION {Targets(OutEdges(workflow, n)) : n \in Waiting}
<1>1. /\ phase = "suspended" /\ phase' = "running" /\ snapshot' = snapshot
      /\ outputs' = [n \in Nodes |-> IF n \in Waiting THEN Payload ELSE outputs[n]]
      /\ active' = EntryPoints(W, entered)
      /\ workflow \in Workflows /\ Acyclic /\ Unweighted
      /\ ActiveInv /\ InvitedInv /\ ReachInv /\ ComingInv
  BY DEF AnswerWaits, Activate, FinishInv, DoneInv, DoneScope, StateInv, TypeInv, TypeOK
<1>2. \/ active' = W
      \/ active' = {n \in Nodes : Preds(workflow, n) = {}}
  BY <1>1, Entries DEF EntryPoints, Acyclic
<1>3. ASSUME NEW w \in Waiting, NEW n \in Targets(OutEdges(workflow, w))
      PROVE  /\ n \in Nodes /\ w \in Nodes /\ w \in Preds(workflow, n)
             /\ outputs'[w] = Payload
             /\ n \in Route(w, Payload)
  <2>1. w \in Nodes /\ IsWait(w)
    BY DEF Waiting
  <2>2. n \in Nodes /\ w \in Preds(workflow, n)
    BY <1>1, <2>1, RoutePreds
  <2> QED
    BY <1>1, <2>1, <2>2 DEF Unweighted
<1>4. \A n \in Nodes : /\ n \notin Waiting => outputs'[n] = outputs[n]
                       /\ ~IsWait(n) => n \notin Waiting
                       /\ Full(outputs[n]) => n \notin Waiting
  BY <1>1 DEF Waiting, Full
<1>5. \A n \in Nodes : Preds(workflow, n) \subseteq Nodes
  BY <1>1, PredsType
<1> HIDE DEF W
<1>6. ActiveInv'
  <2> SUFFICES ASSUME NEW n \in active'
               PROVE  \/ Preds(workflow, n)' = {}
                      \/ \E p \in Preds(workflow, n)' : n \in Route(p, outputs[p])'
    BY DEF ActiveInv
  <2>1. CASE active' = W
    <3>1. PICK w \in Waiting : n \in Targets(OutEdges(workflow, w))
      BY <2>1 DEF W
    <3> QED
      BY <1>1, <1>3, <3>1, RouteNext
  <2>2. CASE active' = {m \in Nodes : Preds(workflow, m) = {}}
    BY <1>1, <2>2
  <2> QED
    BY <1>2, <2>1, <2>2
<1>7. InvitedInv'
  <2>1. ASSUME NEW n \in Nodes, ~IsWait(n), Full(outputs'[n]) PROVE Inviter(outputs', n)
    <3>1. Inviter(outputs, n)
      BY <1>1, <1>4, <2>1 DEF InvitedInv, Invited
    <3> QED
      BY <1>4, <1>5, <3>1 DEF Inviter
  <2>2. Invited(outputs')
    BY <2>1 DEF Invited
  <2> QED
    BY <1>1, <2>2, DoneNext DEF InvitedInv
<1>8. ReachInv'
  <2> SUFFICES ASSUME Unconditional, NEW n \in Nodes,
                      n \in active' \/ outputs'[n] # None \/ snapshot'.outputs[n] # None
               PROVE  From(Graph[workflow].entry, n)
    BY DoneNext DEF ReachInv
  <2>1. ASSUME NEW m \in Nodes, outputs'[m] # None
        PROVE  From(Graph[workflow].entry, m)
    <3>1. outputs[m] # None
      BY <1>4, <2>1, Markers DEF Waiting
    <3> QED
      BY <1>1, <3>1 DEF ReachInv
  <2>2. CASE n \in W
    <3>1. PICK w \in Waiting : n \in Targets(OutEdges(workflow, w))
      BY <2>2 DEF W
    <3>2. /\ w \in Nodes /\ outputs'[w] = Payload /\ n \in Route(w, Payload)
      BY <1>3, <3>1
    <3>3. n \in Route(w, None)
      BY <3>2, StaticRoute
    <3> QED
      BY <2>1, <3>2, <3>3, FromStep, Markers
  <2>3. CASE Preds(workflow, n) = {}
    BY <1>1, <2>3, Entries, FromSelf
  <2> QED
    BY <1>1, <1>2, <2>1, <2>2, <2>3 DEF ReachInv
<1>9. ComingInv'
  <2> SUFFICES ASSUME NEW n \in Nodes, ~IsWait(n), ~Full(outputs'[n]),
                      \A p \in Preds(workflow, n) :
                        Full(outputs'[p]) /\ n \in Route(p, outputs'[p])
               PROVE  n \in active'
    BY <1>1, DoneNext DEF ComingInv
  <2>1. ~Ready(n)
    BY <1>1, <1>4 DEF ComingInv
  <2>2. PICK p \in Preds(workflow, n) : outputs'[p] # outputs[p]
    BY <2>1 DEF Ready
  <2>3. p \in Waiting
    BY <1>4, <1>5, <2>2
  <2>4. n \in Targets(OutEdges(workflow, p))
    BY <1>1, <1>5, RouteTargets
  <2>5. n \in W
    BY <2>3, <2>4 DEF W
  <2> QED
    BY <1>1, <2>5 DEF EntryPoints
<1> QED
  BY <1>6, <1>7, <1>8, <1>9

\* A resumed run starts at the entries, with complete parts of the old one.
LEMMA DoneResume ==
  ASSUME FinishInv, DoneScope, Unconditional, workflow' = workflow,
         NEW cut \in Nodes \cup {NoNode}, ResumeFrom(cut)
  PROVE  ActiveInv' /\ InvitedInv' /\ ReachInv' /\ ComingInv'
<1> DEFINE removed == IF cut = NoNode THEN {}
                      ELSE {m \in Nodes : Reaches(workflow, cut, m)}
           old == snapshot.outputs
<1>1. /\ phase' = "running" /\ snapshot'.outputs = outputs'
      /\ outputs' = [n \in Nodes |-> IF n \in removed THEN None ELSE old[n]]
      /\ active' = EntryPoints({}, snapshot.next)
      /\ workflow \in Workflows /\ Acyclic
      /\ Invited(old)
      /\ \A n \in Nodes : old[n] # None => From(Graph[workflow].entry, n)
  BY DEF ResumeFrom, Activate, Snapshot, FinishInv, DoneInv, DoneScope, StateInv,
     TypeInv, TypeOK, InvitedInv, ReachInv
<1>2. /\ active' = Graph[workflow].entry
      /\ active' = {n \in Nodes : Preds(workflow, n) = {}}
  BY <1>1, Entries
<1>3. \A n \in Nodes : /\ outputs'[n] = IF n \in removed THEN None ELSE old[n]
                       /\ Preds(workflow, n) \subseteq Nodes
  BY <1>1, PredsType
<1>4. ASSUME NEW n \in Nodes, NEW p \in Preds(workflow, n), n \notin removed
      PROVE  p \notin removed
  <2>1. PICK e \in Graph[workflow].edges : e.from = p /\ e.to = n
    BY DEF Preds, Sources
  <2> QED
    BY <1>1, <1>4, <2>1, ReachesStep
<1> HIDE DEF removed, old
<1>5. ActiveInv'
  BY <1>2 DEF ActiveInv
<1>6. InvitedInv'
  <2>1. ASSUME NEW n \in Nodes, ~IsWait(n), Full(outputs'[n]) PROVE Inviter(outputs', n)
    <3>1. n \notin removed /\ Full(old[n])
      BY <1>3, <2>1 DEF Full
    <3>2. Inviter(old, n)
      BY <1>1, <2>1, <3>1 DEF Invited
    <3>3. \A p \in Preds(workflow, n) : outputs'[p] = old[p]
      BY <1>3, <1>4, <3>1
    <3> QED
      BY <3>2, <3>3 DEF Inviter
  <2>2. Invited(outputs')
    BY <2>1 DEF Invited
  <2> QED
    BY <1>1, <2>2, DoneNext DEF InvitedInv
<1>7. \A n \in Nodes : n \in active' \/ outputs'[n] # None =>
        From(Graph[workflow].entry, n)
  BY <1>1, <1>2, <1>3, FromSelf
<1>8. ReachInv'
  BY <1>1, <1>7, DoneNext DEF ReachInv
<1>9. ComingInv'
  <2> SUFFICES ASSUME NEW n \in Nodes,
                      \A p \in Preds(workflow, n) :
                        Full(outputs'[p]) /\ n \in Route(p, outputs'[p])
               PROVE  n \in active' \/ From(active', n)
    BY <1>1, DoneNext DEF ComingInv
  <2>1. CASE Preds(workflow, n) = {}
    BY <1>2, <2>1
  <2>2. ASSUME NEW p \in Preds(workflow, n) PROVE From(active', n)
    <3>1. p \in Nodes /\ outputs'[p] # None
      BY <1>3 DEF Full
    <3>2. n \in Route(p, None)
      BY <3>1, StaticRoute
    <3> QED
      BY <1>2, <1>7, <3>1, <3>2, FromStep
  <2> QED
    BY <2>1, <2>2
<1> QED
  BY <1>5, <1>6, <1>8, <1>9

\* A task of n ends, or the execution fails while n is active: the snapshot
\* may take over the outputs, with an error as that of n.
LEMMA DoneFail ==
  ASSUME FinishInv, DoneScope, phase = "running", Unconditional,
         NEW n \in Nodes, n \in active, MustExecute(n)
  PROVE  Invited([outputs EXCEPT ![n] = Error])
<1> DEFINE outs == [outputs EXCEPT ![n] = Error]
<1>1. /\ workflow \in Workflows /\ Acyclic /\ outputs \in [Nodes -> Output]
      /\ ActiveInv /\ InvitedInv
  BY DEF FinishInv, DoneInv, DoneScope, StateInv, TypeInv, TypeOK
<1>2. \A m \in Nodes : outs[m] = IF m = n THEN Error ELSE outputs[m]
  BY <1>1
<1> HIDE DEF outs
<1>3. Full(Error)
  BY Markers DEF Full
<1>4. ASSUME NEW m \in Nodes, ~IsWait(m), Full(outs[m]) PROVE Inviter(outs, m)
  <2>1. Preds(workflow, m) \subseteq Nodes
    BY <1>1, PredsType
  <2>2. Inviter(outputs, m)
    <3>1. CASE m = n
      <4>1. \A p \in Preds(workflow, n) : Full(outputs[p])
        BY <1>1, PassedFull DEF MustExecute, Passed
      <4> QED
        BY <1>1, <3>1, <4>1 DEF ActiveInv, Inviter
    <3>2. CASE m # n
      BY <1>1, <1>2, <1>4, <3>2 DEF InvitedInv, Invited
    <3> QED
      BY <3>1, <3>2
  <2>3. \A p \in Preds(workflow, m) : Route(p, outs[p]) = Route(p, outputs[p])
    BY <2>1, StaticRoute
  <2> QED
    BY <1>2, <1>3, <2>1, <2>2, <2>3 DEF Inviter
<1>5. Invited(outs)
  BY <1>4 DEF Invited
<1> QED
  BY <1>5 DEF outs

LEMMA DoneSame ==
  ASSUME FinishInv, DoneScope, UNCHANGED <<workflow, active, outputs>>,
         phase' = "failed" \/ phase' = phase,
         snapshot' = snapshot
         \/ (/\ Unconditional => Invited(snapshot'.outputs)
             /\ \A n \in Nodes : snapshot'.outputs[n] # None =>
                                   n \in active \/ outputs[n] # None)
  PROVE  ActiveInv' /\ InvitedInv' /\ ReachInv' /\ ComingInv'
<1>1. ActiveInv /\ InvitedInv /\ ReachInv /\ ComingInv
  BY DEF FinishInv, DoneInv
<1>2. ActiveInv'
  BY <1>1, RouteNext DEF ActiveInv
<1>3. InvitedInv'
  BY <1>1, DoneNext DEF InvitedInv
<1>4. ReachInv'
  <2> SUFFICES ASSUME Unconditional, NEW n \in Nodes,
                      n \in active \/ outputs[n] # None \/ snapshot'.outputs[n] # None
               PROVE  From(Graph[workflow].entry, n)
    BY DoneNext DEF ReachInv
  <2> QED
    BY <1>1 DEF ReachInv
<1>5. \A n \in Nodes : Ready(n)' <=> Ready(n)
  BY DEF Ready, Route
<1>6. ComingInv'
  BY <1>1, <1>5, DoneNext DEF ComingInv
<1> QED
  BY <1>2, <1>3, <1>4, <1>6

LEMMA FinishInvInit == Init => FinishInv
<1> SUFFICES ASSUME Init, DoneScope
             PROVE  ActiveInv /\ InvitedInv /\ ReachInv /\ ComingInv
  BY StateInvInit, OrderInvInit, InputInvInit DEF FinishInv, DoneInv, InputInv
<1>1. workflow \in Workflows /\ Acyclic
  BY DEF Init, DoneScope
<1>2. active = {n \in Nodes : Preds(workflow, n) = {}}
      /\ active = Graph[workflow].entry
  BY <1>1, Entries DEF Init
<1>3. \A n \in Nodes : ~Full(outputs[n]) /\ outputs[n] = None /\ snapshot.outputs[n] = None
  BY DEF Init, Snapshot, Full
<1>4. \A n \in Nodes : Preds(workflow, n) \subseteq Nodes
  BY <1>1, PredsType
<1>5. ActiveInv
  BY <1>2 DEF ActiveInv
<1>6. InvitedInv
  BY <1>3 DEF InvitedInv, Invited, Full
<1>7. ReachInv
  BY <1>2, <1>3, FromSelf DEF ReachInv
<1>8. ComingInv
  BY <1>2, <1>3, <1>4 DEF ComingInv, Ready, Init
<1> QED
  BY <1>5, <1>6, <1>7, <1>8

LEMMA FinishInvStep == FinishInv /\ [Next]_vars => FinishInv'
<1> SUFFICES ASSUME FinishInv, [Next]_vars, DoneScope'
             PROVE  ActiveInv' /\ InvitedInv' /\ ReachInv' /\ ComingInv'
  BY StateInvStep, OrderInvStep, WholeInvStep DEF FinishInv, DoneInv
<1>1. workflow' = workflow /\ DoneScope
  BY SameWorkflow, DoneScopeBefore DEF FinishInv
<1>2. outputs \in [Nodes -> Output] /\ todo \subseteq active /\ active \subseteq Nodes
      /\ InvitedInv
  BY <1>1 DEF FinishInv, StateInv, TypeInv, TypeOK, DoneInv
<1> USE DEF state, task, run
<1>3. ASSUME NEW n \in Nodes, Task(n), ~RaiseInBody(n), ~RaiseInRouter(n)
      PROVE  ActiveInv' /\ InvitedInv' /\ ReachInv' /\ ComingInv'
  <2>1. UNCHANGED <<workflow, phase, active, outputs, snapshot>>
    BY <1>3 DEF Task, ArmWait, SkipAnswered, Propagate, HoldAtGate, SkipDone,
       Execute, EndTask
  <2> QED
    BY <1>1, <2>1, DoneSame
<1>4. ASSUME Fail(outputs)
      PROVE  ActiveInv' /\ InvitedInv' /\ ReachInv' /\ ComingInv'
  <2>1. /\ UNCHANGED <<workflow, active, outputs>> /\ phase' = "failed"
        /\ snapshot'.outputs = outputs
    BY <1>4 DEF Fail, Snapshot
  <2> QED
    BY <1>1, <1>2, <2>1, DoneSame DEF InvitedInv
<1>5. ASSUME NEW n \in todo, MustExecute(n), Fail([outputs EXCEPT ![n] = Error])
      PROVE  ActiveInv' /\ InvitedInv' /\ ReachInv' /\ ComingInv'
  <2>1. /\ UNCHANGED <<workflow, active, outputs>> /\ phase' = "failed"
        /\ phase = "running"
        /\ snapshot'.outputs = [outputs EXCEPT ![n] = Error]
    BY <1>5 DEF Fail, Snapshot
  <2>2. Unconditional => Invited(snapshot'.outputs)
    BY <1>1, <1>2, <1>5, <2>1, DoneFail
  <2>3. \A m \in Nodes : snapshot'.outputs[m] # None => m \in active \/ outputs[m] # None
    BY <1>2, <2>1
  <2> QED
    BY <1>1, <2>1, <2>2, <2>3, DoneSame
<1>6. CASE Cancel
  BY <1>4, <1>5, <1>6 DEF Cancel
<1>7. CASE LoseWorker \/ UNCHANGED vars
  <2>1. UNCHANGED <<workflow, active, outputs, snapshot>>
        /\ (phase' = "failed" \/ phase' = phase)
    BY <1>7 DEF LoseWorker, vars
  <2> QED
    BY <1>1, <2>1, DoneSame
<1>8. CASE Advance \/ Overrun \/ Complete
  BY <1>1, <1>8, ActiveSuperstep, InvitedSuperstep, ReachSuperstep, ComingSuperstep
<1>9. CASE AnswerWaits
  BY <1>1, <1>9, DoneAnswer
<1>10. ASSUME NEW cut \in Nodes \cup {NoNode}, ResumeFrom(cut)
       PROVE  ActiveInv' /\ InvitedInv' /\ ReachInv' /\ ComingInv'
  <2>1. ~Fresh'
    BY <1>10, BoundsAssumption DEF ResumeFrom, Fresh, FinishInv, StateInv,
       TypeInv, TypeOK
  <2>2. Unconditional
    BY <1>1, <2>1, DoneNext DEF DoneScope
  <2> QED
    BY <1>1, <1>10, <2>2, DoneResume
<1>11. ASSUME NEW n \in Nodes, Task(n)
       PROVE  ActiveInv' /\ InvitedInv' /\ ReachInv' /\ ComingInv'
  BY <1>3, <1>4, <1>11 DEF RaiseInBody, RaiseInRouter
<1> QED
  BY <1>6, <1>7, <1>8, <1>9, <1>10, <1>11 DEF Next

LEMMA FinishInvariant == Spec => []FinishInv
BY FinishInvInit, FinishInvStep, PTL DEF Spec

\* In every acyclic graph without conditions a finished run, however often it
\* was resumed, has executed every node that its predecessors led to and none
\* that they did not; with conditions, every run that was not resumed and in
\* which no body returned an error has.
THEOREM FinishedIsDone == Spec => []FinishedMeansDone
<1>1. FinishInv => FinishedMeansDone
  <2> SUFFICES ASSUME FinishInv, phase = "finished", DoneScope,
                      NEW n \in Nodes, ~IsWait(n)
               PROVE  /\ Inviting(n) = Preds(workflow, n) => Done(n)
                      /\ Done(n) => /\ \A p \in Preds(workflow, n) : Done(p)
                                    /\ Preds(workflow, n) # {} => Inviting(n) # {}
    BY DEF FinishedMeansDone, DoneScope
  <2>1. ComingInv /\ InvitedInv /\ Whole(workflow, outputs) /\ Acyclic
    BY DEF FinishInv, DoneInv, WholeInv, DoneScope
  <2>2. ASSUME Inviting(n) = Preds(workflow, n) PROVE Done(n)
    <3>1. Ready(n)
      BY <2>2 DEF Inviting, Ready, Done, Full
    <3> QED
      BY <2>1, <3>1 DEF ComingInv, Done, Full
  <2>3. ASSUME Done(n), NEW p \in Preds(workflow, n) PROVE Done(p)
    BY <2>1, <2>3 DEF Whole, IsWait, Acyclic, Done, Full
  <2>4. ASSUME Done(n), Preds(workflow, n) # {} PROVE Inviting(n) # {}
    <3>1. Inviter(outputs, n)
      BY <2>1, <2>4 DEF InvitedInv, Invited, Done, Full
    <3> QED
      BY <2>4, <3>1 DEF Inviter, Inviting, Done, Full
  <2> QED
    BY <2>2, <2>3, <2>4
<1> QED
  BY <1>1, FinishInvariant, PTL

-----------------------------------------------------------------------------
(* Every execution is paid for                                             *)
(*                                                                         *)
(* Also in a graph with cycles.  A node that has executed executes again   *)
(* only when it owes something: an output of a predecessor has changed     *)
(* since, or the node was suspended in between.  In both cases a           *)
(* predecessor has executed, as the wait nodes before a node that has      *)
(* executed stay answered; and that execution has not been used yet.       *)

FreshScope == Fresh /\ workflow \notin ErrorProne

Owed(n) ==
  \/ outputs[n] = Suspended /\ ~SuspendedInput(n)
  \/ \E p \in Preds(workflow, n) : consumed[n][p] # outputs[p] /\ outputs[p] # Suspended

\* i executions, c of them paid for: one is free, and none when one is owed.
Paid(i, c) == i <= 1 + c
Covered(i, c) == i <= c

BegunInv ==
  \A n \in Nodes :
    /\ iterations[n] <= steps
    /\ IsWait(n) => ~Ran(n) /\ outputs[n] \in {None, Suspended, Payload}
    /\ ~IsWait(n) => /\ outputs[n] \in Values \cup {None, Suspended}
                     /\ ~Ran(n) => outputs[n] \in {None, Suspended}
    /\ Ran(n) => /\ outputs[n] # None /\ consumed[n] # NoRecord
                 /\ \A p \in Preds(workflow, n) : IsWait(p) => outputs[p] = Payload
                 /\ \A p \in ForwardPreds(workflow, n) : ~IsWait(p) => Ran(p)

CostInv ==
  \A n \in Nodes :
    /\ Paid(iterations[n], Cardinality(NewInputs(n)))
    /\ Ran(n) /\ Owed(n) => Covered(iterations[n], Cardinality(NewInputs(n)))

PaidInv == FreshScope => BegunInv /\ CostInv

\* A node that executes has used what it was paid, one that does not keeps it.
LEMMA Pay ==
  ASSUME NEW i \in Nat, NEW c \in Nat, NEW d \in Nat, c <= d, Paid(i, c)
  PROVE  /\ Paid(i, d)
         /\ Covered(i, c) => Covered(i, d)
         /\ c + 1 <= d => Covered(i, d)
         /\ (i > 0 => Covered(i, c)) =>
              Paid(i + 1, d) /\ (c + 1 <= d => Covered(i + 1, d))
BY DEF Paid, Covered

\* What a node has been given does not get less, and every execution of a
\* predecessor, but for the first one that it waits for, adds to it.
LEMMA InputsGrow ==
  ASSUME workflow \in Workflows, workflow' = workflow, NEW n \in Nodes, MaxSteps \in Nat,
         iterations \in [Nodes -> Nat], iterations' \in [Nodes -> Nat],
         \A m \in Nodes : iterations[m] <= iterations'[m]
  PROVE  /\ Cardinality(NewInputs(n)) \in Nat
         /\ Cardinality(NewInputs(n))' \in Nat
         /\ Cardinality(NewInputs(n)) <= Cardinality(NewInputs(n))'
         /\ \A p \in Preds(workflow, n) :
              /\ iterations'[p] = iterations[p] + 1 /\ iterations'[p] <= MaxSteps
              /\ p \in ForwardPreds(workflow, n) => iterations[p] > 0
              => Cardinality(NewInputs(n)) + 1 <= Cardinality(NewInputs(n))'
<1> DEFINE A == NewInputs(n)
           B == NewInputs(n)'
<1>1. /\ Preds(workflow, n)' = Preds(workflow, n)
      /\ ForwardPreds(workflow, n)' = ForwardPreds(workflow, n)
      /\ Preds(workflow, n) \subseteq Nodes
  BY PredsType
<1>2. A \subseteq B
  BY <1>1 DEF NewInputs
<1>3. IsFiniteSet(B)
  <2>1. IsFiniteSet(Preds(workflow, n)) /\ IsFiniteSet(1..MaxSteps)
    <3>1. 1 \in Int /\ MaxSteps \in Int
      OBVIOUS
    <3> QED
      BY <1>1, <3>1, NodesAssumption, FS_Subset, FS_Interval
  <2>2. IsFiniteSet(Preds(workflow, n) \X (1..MaxSteps))
    BY <2>1, FS_Product
  <2>3. B \in SUBSET (Preds(workflow, n) \X (1..MaxSteps))
    BY <1>1 DEF NewInputs
  <2> QED
    BY <2>2, <2>3, FS_Subset
<1>4. IsFiniteSet(A) /\ Cardinality(A) <= Cardinality(B)
  BY <1>2, <1>3, FS_Subset
<1>5. Cardinality(A) \in Nat /\ Cardinality(B) \in Nat
  BY <1>3, <1>4, FS_CardinalityType
<1>6. ASSUME NEW p \in Preds(workflow, n),
             iterations'[p] = iterations[p] + 1, iterations'[p] <= MaxSteps,
             p \in ForwardPreds(workflow, n) => iterations[p] > 0
      PROVE  Cardinality(A) + 1 <= Cardinality(B)
  <2> DEFINE x == <<p, iterations'[p]>>
  <2>1. p \in Nodes /\ iterations[p] \in Nat
    BY <1>1
  <2>2. x \in B /\ x \notin A
    BY <1>1, <1>6, <2>1 DEF NewInputs
  <2>3. (A \cup {x}) \in SUBSET B
    BY <1>2, <2>2
  <2> HIDE DEF A, B, x
  <2>4. Cardinality(A \cup {x}) = Cardinality(A) + 1
    BY <1>4, <2>2, FS_AddElement
  <2>5. Cardinality(A \cup {x}) <= Cardinality(B)
    BY <1>3, <2>3, FS_Subset
  <2> QED
    BY <2>4, <2>5
<1> HIDE DEF A, B
<1> QED
  BY <1>4, <1>5, <1>6 DEF A, B

\* What the invariant says of a node that executes.
LEMMA PaidExecution ==
  ASSUME StateInv, BegunInv, CostInv, workflow \notin ErrorProne, phase = "running",
         Merge, NEW n \in Nodes, Fired(n)
  PROVE  /\ MustExecute(n) /\ ~IsWait(n) /\ ~SuspendedInput(n) /\ Missing(n) = {}
         /\ outputs'[n] \in Values /\ consumed'[n] = CurrentInputs(n)
         /\ iterations'[n] = iterations[n] + 1
         /\ Ran(n) => Owed(n)
<1>1. /\ MustExecute(n) /\ outputs'[n] \in Values /\ consumed'[n] = CurrentInputs(n)
      /\ iterations'[n] = iterations[n] + 1
  BY MergeNode
<1>2. ~IsWait(n) /\ ~SuspendedInput(n) /\ Missing(n) = {} /\ ~IsDone(n)
  BY <1>1 DEF MustExecute
<1>3. ASSUME Ran(n) PROVE Owed(n)
  <2>1. /\ outputs[n] \in Values \cup {Suspended} /\ consumed[n] # NoRecord
    BY <1>2, <1>3 DEF BegunInv
  <2>2. CASE outputs[n] = Suspended
    BY <1>2, <2>2 DEF Owed
  <2>3. CASE outputs[n] \in Values
    <3>1. InputsChanged(n)
      BY <1>2, <2>3, Markers DEF IsDone
    <3>2. PICK p \in Preds(workflow, n) : consumed[n][p] # outputs[p]
      BY <2>1, <3>1 DEF InputsChanged
    <3>3. outputs[p] # Suspended
      BY <1>2, <3>2 DEF SuspendedInput, Preds
    <3> QED
      BY <3>2, <3>3 DEF Owed
  <2> QED
    BY <2>1, <2>2, <2>3
<1> QED
  BY <1>1, <1>2, <1>3

\* The end of a superstep: who has executed, and behind whom.
LEMMA BegunSuperstep ==
  ASSUME StateInv, BegunInv, CostInv, workflow \notin ErrorProne, phase = "running",
         Merge, workflow' = workflow
  PROVE  /\ BegunInv'
         /\ iterations' \in [Nodes -> Nat] /\ steps' <= MaxSteps
         /\ \A m \in Nodes : iterations[m] <= iterations'[m]
<1>1. /\ workflow \in Workflows /\ MaxSteps \in Nat /\ steps \in 0..MaxSteps
      /\ iterations \in [Nodes -> Nat] /\ outputs \in [Nodes -> Output]
      /\ \A n \in Nodes : Fired(n) => steps < MaxSteps
  BY BoundsAssumption DEF StateInv, TypeInv, TypeOK, CountInv
<1>2. steps' = (IF \E n \in Nodes : Fired(n) THEN steps + 1 ELSE steps)
      /\ iterations' = [n \in Nodes |->
                          IF Fired(n) THEN iterations[n] + 1 ELSE iterations[n]]
  BY DEF Merge
<1>3. steps \in Nat /\ steps' \in {steps, steps + 1} /\ steps' <= MaxSteps
  BY <1>1, <1>2
<1>4. iterations' \in [Nodes -> Nat] /\ \A m \in Nodes : iterations[m] <= iterations'[m]
  BY <1>1, <1>2
<1>5. \A n \in Nodes : iterations[n] <= steps => iterations'[n] <= steps'
  BY <1>1, <1>2
<1>6. \A n \in Nodes : /\ IsWait(n)' <=> IsWait(n)
                       /\ Preds(workflow, n)' = Preds(workflow, n)
                       /\ ForwardPreds(workflow, n)' = ForwardPreds(workflow, n)
                       /\ Preds(workflow, n) \subseteq Nodes
                       /\ ForwardPreds(workflow, n) \subseteq Preds(workflow, n)
  BY <1>1, PredsType DEF IsWait, ForwardPreds
<1>7. \A n \in Nodes : Ran(n) => Ran(n)'
  BY <1>1, <1>4 DEF Ran
<1>8. \A n \in Nodes : ~Fired(n) =>
        /\ outputs'[n] \in {outputs[n], Suspended}
        /\ outputs'[n] # outputs[n] => Blocked(n)
        /\ consumed'[n] = consumed[n] /\ (Ran(n)' <=> Ran(n))
  BY MergeNode DEF Ran
<1>9. \A n \in Nodes : Fired(n) =>
        /\ ~IsWait(n) /\ ~SuspendedInput(n) /\ Missing(n) = {}
        /\ outputs'[n] \in Values /\ consumed'[n] = CurrentInputs(n) /\ Ran(n)'
  BY <1>1, PaidExecution DEF Ran
<1>10. \A n \in Nodes : IsWait(n) /\ outputs[n] = Payload => outputs'[n] = Payload
  BY <1>8, <1>9, Markers DEF Blocked, Done
<1>11. ASSUME NEW n \in Nodes
       PROVE  /\ IsWait(n)' => ~Ran(n)' /\ outputs'[n] \in {None, Suspended, Payload}
              /\ ~IsWait(n)' => /\ outputs'[n] \in Values \cup {None, Suspended}
                                /\ ~Ran(n)' => outputs'[n] \in {None, Suspended}
  <2>1. CASE Fired(n)
    BY <1>6, <1>9, <2>1
  <2>2. CASE ~Fired(n)
    BY <1>6, <1>8, <2>2 DEF BegunInv
  <2> QED
    BY <2>1, <2>2
<1>12. ASSUME NEW n \in Nodes, Fired(n)
       PROVE  /\ outputs'[n] # None /\ consumed'[n] # NoRecord
              /\ \A p \in Preds(workflow, n) : IsWait(p) => outputs[p] = Payload
              /\ \A p \in ForwardPreds(workflow, n) : ~IsWait(p) => Ran(p)
  <2>1. /\ ~SuspendedInput(n) /\ Missing(n) = {} /\ outputs'[n] \in Values
        /\ consumed'[n] = CurrentInputs(n)
    BY <1>9, <1>12
  <2>2. \A p \in ForwardPreds(workflow, n) : outputs[p] \notin {None, Suspended}
    BY <1>6, <2>1 DEF Missing, SuspendedInput, Preds
  <2>3. \A p \in Preds(workflow, n) : IsWait(p) => p \in ForwardPreds(workflow, n)
    BY DEF ForwardPreds, IsWait
  <2>4. consumed'[n] # NoRecord
    <3>1. n \in DOMAIN CurrentInputs(n) /\ DOMAIN NoRecord = {}
      BY DEF CurrentInputs, NoRecord
    <3> QED
      BY <2>1, <3>1
  <2> QED
    BY <1>6, <2>1, <2>2, <2>3, <2>4, Markers DEF BegunInv
<1>13. ASSUME NEW n \in Nodes, Ran(n)'
       PROVE  /\ outputs'[n] # None /\ consumed'[n] # NoRecord
              /\ \A p \in Preds(workflow, n) : IsWait(p) => outputs[p] = Payload
              /\ \A p \in ForwardPreds(workflow, n) : ~IsWait(p) => Ran(p)
  <2>1. CASE Fired(n)
    BY <1>12, <2>1
  <2>2. CASE ~Fired(n)
    BY <1>8, <1>13, <2>2, Markers DEF BegunInv
  <2> QED
    BY <2>1, <2>2
<1>14. BegunInv'
  <2> SUFFICES ASSUME NEW n \in Nodes
               PROVE  /\ iterations'[n] <= steps'
                      /\ IsWait(n)' => /\ ~Ran(n)'
                                       /\ outputs'[n] \in {None, Suspended, Payload}
                      /\ ~IsWait(n)' => /\ outputs'[n] \in Values \cup {None, Suspended}
                                        /\ ~Ran(n)' => outputs'[n] \in {None, Suspended}
                      /\ Ran(n)' => /\ outputs'[n] # None /\ consumed'[n] # NoRecord
                                    /\ \A p \in Preds(workflow, n)' :
                                         IsWait(p)' => outputs'[p] = Payload
                                    /\ \A p \in ForwardPreds(workflow, n)' :
                                         ~IsWait(p)' => Ran(p)'
    BY DEF BegunInv
  <2>1. iterations'[n] <= steps'
    BY <1>5 DEF BegunInv
  <2>2. Ran(n)' => /\ outputs'[n] # None /\ consumed'[n] # NoRecord
                   /\ \A p \in Preds(workflow, n)' : IsWait(p)' => outputs'[p] = Payload
                   /\ \A p \in ForwardPreds(workflow, n)' : ~IsWait(p)' => Ran(p)'
    BY <1>6, <1>7, <1>10, <1>13
  <2> QED
    BY <1>11, <2>1, <2>2
<1> QED
  BY <1>3, <1>4, <1>14

\* ... and what it costs.
LEMMA CostSuperstep ==
  ASSUME StateInv, BegunInv, CostInv, workflow \notin ErrorProne, phase = "running",
         Merge, workflow' = workflow
  PROVE  CostInv'
<1>1. /\ workflow \in Workflows /\ MaxSteps \in Nat
      /\ iterations \in [Nodes -> Nat] /\ outputs \in [Nodes -> Output]
  BY BoundsAssumption DEF StateInv, TypeInv, TypeOK
<1>2. /\ BegunInv' /\ iterations' \in [Nodes -> Nat] /\ steps' <= MaxSteps
      /\ \A m \in Nodes : iterations[m] <= iterations'[m]
      /\ steps' \in Nat
  BY <1>1, BegunSuperstep DEF Merge, StateInv, TypeInv, TypeOK
<1>3. \A p \in Nodes : iterations'[p] <= MaxSteps
  BY <1>1, <1>2 DEF BegunInv
<1> SUFFICES ASSUME NEW n \in Nodes
             PROVE  /\ Paid(iterations'[n], Cardinality(NewInputs(n))')
                    /\ Ran(n)' /\ Owed(n)' =>
                         Covered(iterations'[n], Cardinality(NewInputs(n))')
  BY DEF CostInv
<1> DEFINE c == Cardinality(NewInputs(n))
           d == Cardinality(NewInputs(n))'
           i == iterations[n]
<1>4. /\ Preds(workflow, n)' = Preds(workflow, n) /\ Preds(workflow, n) \subseteq Nodes
      /\ Sources(workflow, n)' = Sources(workflow, n)
      /\ Sources(workflow, n) \subseteq Preds(workflow, n) \cup {n}
      /\ ForwardPreds(workflow, n) \subseteq Preds(workflow, n)
      /\ IsWait(n)' <=> IsWait(n)
  BY <1>1, PredsType DEF IsWait, Preds, ForwardPreds
<1>5. /\ c \in Nat /\ d \in Nat /\ c <= d /\ i \in Nat
      /\ Paid(i, c) /\ (Ran(n) /\ Owed(n) => Covered(i, c))
  BY <1>1, <1>2, InputsGrow DEF CostInv
<1>6. ASSUME NEW p \in Preds(workflow, n), Fired(p),
             p \in ForwardPreds(workflow, n) => iterations[p] > 0
      PROVE  c + 1 <= d
  <2>1. iterations'[p] = iterations[p] + 1
    BY <1>4, <1>6, PaidExecution
  <2> QED
    BY <1>1, <1>2, <1>3, <1>4, <1>6, <2>1, InputsGrow
<1>7. \A p \in Nodes : ~Fired(p) =>
        /\ outputs'[p] \in {outputs[p], Suspended}
        /\ outputs'[p] # outputs[p] => Blocked(p)
        /\ consumed'[p] = consumed[p] /\ iterations'[p] = iterations[p]
  BY MergeNode
<1> HIDE DEF c, d, i
<1>8. CASE Fired(n)
  <2>1. /\ ~SuspendedInput(n) /\ Missing(n) = {}
        /\ outputs'[n] \in Values /\ consumed'[n] = CurrentInputs(n)
        /\ iterations'[n] = i + 1 /\ (Ran(n) => Owed(n))
    BY <1>8, PaidExecution DEF i
  <2>2. i > 0 => Covered(i, c)
    BY <1>5, <2>1 DEF Ran, i
  <2>3. Paid(i + 1, d) /\ (c + 1 <= d => Covered(i + 1, d))
    BY <1>5, <2>2, Pay
  <2>4. ASSUME Owed(n)' PROVE c + 1 <= d
    <3>1. PICK p \in Preds(workflow, n) :
            consumed'[n][p] # outputs'[p] /\ outputs'[p] # Suspended
      BY <1>4, <2>1, <2>4, Markers DEF Owed
    <3>2. consumed'[n][p] = outputs[p]
      BY <1>4, <2>1 DEF CurrentInputs
    <3>3. Fired(p)
      BY <1>4, <1>7, <3>1, <3>2
    <3>4. p \in ForwardPreds(workflow, n) => iterations[p] > 0
      <4>1. outputs[p] # Suspended
        BY <2>1 DEF SuspendedInput, Preds
      <4>2. p \in ForwardPreds(workflow, n) => outputs[p] # None
        BY <2>1 DEF Missing
      <4>3. ~IsWait(p)
        BY <1>4, <3>3, PaidExecution
      <4> QED
        BY <1>4, <4>1, <4>2, <4>3 DEF BegunInv, Ran
    <3> QED
      BY <1>6, <3>3, <3>4
  <2> QED
    BY <2>1, <2>3, <2>4 DEF d
<1>9. CASE ~Fired(n)
  <2>1. iterations'[n] = i /\ consumed'[n] = consumed[n] /\ (Ran(n)' <=> Ran(n))
    BY <1>7, <1>9 DEF i, Ran
  <2>2. Paid(i, d) /\ (Covered(i, c) => Covered(i, d)) /\ (c + 1 <= d => Covered(i, d))
    BY <1>5, Pay
  <2>3. ASSUME Ran(n), NEW p \in Preds(workflow, n), Fired(p) PROVE c + 1 <= d
    <3>1. p \in ForwardPreds(workflow, n) => iterations[p] > 0
      <4>1. ~IsWait(p)
        BY <1>4, <2>3, PaidExecution
      <4> QED
        BY <2>3, <4>1 DEF BegunInv, Ran
    <3> QED
      BY <1>6, <2>3, <3>1
  <2>4. ASSUME Ran(n), Owed(n)', ~Owed(n)
        PROVE  \E p \in Preds(workflow, n) : Fired(p)
    <3>1. CASE outputs'[n] = Suspended /\ ~SuspendedInput(n)'
      <4>1. SuspendedInput(n)
        <5>1. CASE outputs[n] = Suspended
          BY <2>4, <5>1 DEF Owed
        <5>2. CASE outputs[n] # Suspended
          BY <1>7, <1>9, <2>4, <3>1, <5>2 DEF Blocked, BegunInv
        <5> QED
          BY <5>1, <5>2
      <4>2. PICK p \in Sources(workflow, n) : outputs[p] = Suspended
        BY <4>1 DEF SuspendedInput
      <4>3. outputs'[p] # Suspended
        BY <1>4, <3>1, <4>2 DEF SuspendedInput
      <4>4. p \in Preds(workflow, n)
        BY <1>4, <3>1, <4>2, <4>3
      <4>5. Fired(p)
        BY <1>4, <1>7, <4>2, <4>3, <4>4
      <4> QED
        BY <4>4, <4>5
    <3>2. CASE \E p \in Preds(workflow, n) :
                 consumed'[n][p] # outputs'[p] /\ outputs'[p] # Suspended
      <4>1. PICK p \in Preds(workflow, n) :
              consumed[n][p] # outputs'[p] /\ outputs'[p] # Suspended
        BY <2>1, <3>2
      <4>2. outputs'[p] # outputs[p]
        BY <2>4, <4>1 DEF Owed
      <4>3. Fired(p)
        BY <1>4, <1>7, <4>1, <4>2
      <4> QED
        BY <4>3
    <3> QED
      BY <1>4, <2>4, <3>1, <3>2 DEF Owed
  <2>5. Ran(n)' /\ Owed(n)' => Covered(i, d)
    BY <1>5, <2>1, <2>2, <2>3, <2>4
  <2> QED
    BY <2>1, <2>2, <2>5 DEF d
<1> QED
  BY <1>8, <1>9

\* The answers change nothing for a node that has executed.
LEMMA PaidAnswer ==
  ASSUME StateInv, BegunInv, CostInv, AnswerWaits
  PROVE  BegunInv' /\ CostInv'
<1>1. /\ UNCHANGED <<workflow, consumed, iterations, steps>>
      /\ outputs' = [n \in Nodes |-> IF n \in Waiting THEN Payload ELSE outputs[n]]
  BY DEF AnswerWaits
<1>2. workflow \in Workflows /\ outputs \in [Nodes -> Output]
  BY DEF StateInv, TypeInv, TypeOK
<1>3. \A n \in Nodes : /\ IsWait(n)' <=> IsWait(n)
                       /\ Ran(n)' <=> Ran(n)
                       /\ Preds(workflow, n)' = Preds(workflow, n)
                       /\ Sources(workflow, n)' = Sources(workflow, n)
                       /\ ForwardPreds(workflow, n)' = ForwardPreds(workflow, n)
                       /\ NewInputs(n)' = NewInputs(n)
                       /\ Sources(workflow, n) \subseteq Preds(workflow, n) \cup {n}
                       /\ Preds(workflow, n) \subseteq Nodes
                       /\ ForwardPreds(workflow, n) \subseteq Nodes
  BY <1>1, <1>2, PredsType DEF IsWait, Ran, NewInputs, ForwardPreds, Preds
<1>4. \A n \in Nodes : \/ outputs'[n] = outputs[n]
                       \/ IsWait(n) /\ outputs[n] = Suspended /\ outputs'[n] = Payload
  BY <1>1 DEF Waiting
<1>5. BegunInv'
  <2> SUFFICES ASSUME NEW n \in Nodes
               PROVE  /\ iterations'[n] <= steps'
                      /\ IsWait(n)' => /\ ~Ran(n)'
                                       /\ outputs'[n] \in {None, Suspended, Payload}
                      /\ ~IsWait(n)' => /\ outputs'[n] \in Values \cup {None, Suspended}
                                        /\ ~Ran(n)' => outputs'[n] \in {None, Suspended}
                      /\ Ran(n)' => /\ outputs'[n] # None /\ consumed'[n] # NoRecord
                                    /\ \A p \in Preds(workflow, n)' :
                                         IsWait(p)' => outputs'[p] = Payload
                                    /\ \A p \in ForwardPreds(workflow, n)' :
                                         ~IsWait(p)' => Ran(p)'
    BY DEF BegunInv
  <2>1. Ran(n)' => /\ outputs'[n] # None /\ consumed'[n] # NoRecord
                   /\ \A p \in Preds(workflow, n)' : IsWait(p)' => outputs'[p] = Payload
                   /\ \A p \in ForwardPreds(workflow, n)' : ~IsWait(p)' => Ran(p)'
    BY <1>1, <1>3, <1>4, Markers DEF BegunInv
  <2>2. /\ iterations'[n] <= steps'
        /\ IsWait(n)' => ~Ran(n)' /\ outputs'[n] \in {None, Suspended, Payload}
        /\ ~IsWait(n)' => /\ outputs'[n] \in Values \cup {None, Suspended}
                          /\ ~Ran(n)' => outputs'[n] \in {None, Suspended}
    BY <1>1, <1>3, <1>4 DEF BegunInv
  <2> QED
    BY <2>1, <2>2
<1>6. ASSUME NEW n \in Nodes, Ran(n), Owed(n)' PROVE Owed(n)
  <2>1. ~IsWait(n) /\ outputs'[n] = outputs[n]
    BY <1>4, <1>6 DEF BegunInv
  <2>2. \A p \in Preds(workflow, n) : outputs'[p] = outputs[p]
    BY <1>3, <1>4, <1>6, Markers DEF BegunInv
  <2>3. SuspendedInput(n)' <=> SuspendedInput(n)
    BY <1>3, <2>1, <2>2 DEF SuspendedInput
  <2> QED
    BY <1>1, <1>3, <1>6, <2>1, <2>2, <2>3 DEF Owed
<1>7. CostInv'
  BY <1>1, <1>3, <1>6 DEF CostInv
<1> QED
  BY <1>5, <1>7

\* A step that leaves the state of the nodes alone.
LEMMA PaidSame ==
  ASSUME UNCHANGED <<workflow, state, resumes>>, PaidInv
  PROVE  PaidInv'
<1>1. UNCHANGED <<workflow, outputs, consumed, iterations, steps, resumes>>
  BY DEF state
<1>2. FreshScope' <=> FreshScope
  BY <1>1 DEF FreshScope, Fresh
<1>3. \A n \in Nodes : /\ Ran(n)' <=> Ran(n)
                       /\ Owed(n)' <=> Owed(n)
                       /\ IsWait(n)' <=> IsWait(n)
                       /\ NewInputs(n)' = NewInputs(n)
  BY <1>1 DEF Ran, Owed, SuspendedInput, IsWait, NewInputs
<1>4. BegunInv => BegunInv'
  <2>1. \A p : (IsWait(p)' <=> IsWait(p)) /\ (Ran(p)' <=> Ran(p))
    BY <1>1 DEF IsWait, Ran
  <2> QED
    BY <1>1, <2>1 DEF BegunInv
<1>5. CostInv => CostInv'
  BY <1>1, <1>3 DEF CostInv
<1> QED
  BY <1>2, <1>4, <1>5 DEF PaidInv

LEMMA PaidInvInit == Init => PaidInv
<1> SUFFICES ASSUME Init PROVE BegunInv /\ CostInv
  BY DEF PaidInv
<1>1. /\ workflow \in Workflows /\ MaxSteps \in Nat /\ steps = 0
      /\ \A n \in Nodes : /\ iterations[n] = 0 /\ outputs[n] = None /\ ~Ran(n)
  BY BoundsAssumption DEF Init, Ran
<1>2. BegunInv
  BY <1>1 DEF BegunInv
<1>3. ASSUME NEW n \in Nodes PROVE Paid(iterations[n], Cardinality(NewInputs(n)))
  <2>1. \A p \in Preds(workflow, n) : iterations[p] = 0
    BY <1>1, PredsType
  <2>2. NewInputs(n) = {}
    BY <2>1 DEF NewInputs
  <2>3. Cardinality(NewInputs(n)) = 0
    BY <2>2, FS_EmptySet
  <2> QED
    BY <1>1, <2>3 DEF Paid
<1> QED
  BY <1>1, <1>2, <1>3 DEF CostInv

LEMMA PaidInvStep == StateInv /\ PaidInv /\ [Next]_vars => PaidInv'
<1> SUFFICES ASSUME StateInv, PaidInv, [Next]_vars PROVE PaidInv'
  OBVIOUS
<1> USE DEF state, task, run
<1>1. ASSUME NEW cut \in Nodes \cup {NoNode}, ResumeFrom(cut) PROVE ~FreshScope'
  BY <1>1 DEF ResumeFrom, FreshScope, Fresh, StateInv, TypeInv, TypeOK
<1>2. CASE Advance \/ Overrun \/ Complete
  <2>1. phase = "running" /\ Merge /\ UNCHANGED <<workflow, resumes>>
    BY <1>2 DEF Advance, Overrun, Complete, EndSuperstep
  <2>2. FreshScope' <=> FreshScope
    BY <2>1 DEF FreshScope, Fresh
  <2>3. FreshScope => BegunInv' /\ CostInv'
    BY <2>1, BegunSuperstep, CostSuperstep DEF PaidInv, FreshScope
  <2> QED
    BY <2>2, <2>3 DEF PaidInv
<1>3. CASE AnswerWaits
  <2>1. FreshScope' <=> FreshScope
    BY <1>3 DEF AnswerWaits, FreshScope, Fresh
  <2> QED
    BY <1>3, <2>1, PaidAnswer DEF PaidInv
<1>4. ASSUME NEW n \in Nodes, Task(n) PROVE PaidInv'
  BY <1>4, PaidSame DEF Task, ArmWait, SkipAnswered, Propagate, HoldAtGate,
     SkipDone, Execute, EndTask, RaiseInBody, RaiseInRouter, Fail
<1>5. CASE Cancel \/ LoseWorker \/ UNCHANGED vars
  BY <1>5, PaidSame DEF Cancel, Fail, LoseWorker, vars
<1> QED
  BY <1>1, <1>2, <1>3, <1>4, <1>5 DEF Next, PaidInv

\* Each execution of a node but the first is paid for by an execution of a
\* predecessor that no other one was paid with, in every graph, with cycles and
\* waits: a loop does not pay for a node whose inputs stay the same.
THEOREM ExecutionsPaid == Spec => []ExecutionsArePaid
<1>1. PaidInv => ExecutionsArePaid
  BY DEF PaidInv, FreshScope, CostInv, Paid, ExecutionsArePaid
<1> QED
  BY <1>1, StateInvariant, PaidInvInit, PaidInvStep, PTL DEF Spec
=============================================================================
