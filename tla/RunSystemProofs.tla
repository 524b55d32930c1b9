--------------------------- MODULE RunSystemProofs ---------------------------
(***************************************************************************)
(* Theorems about RunSystem, for every graph, number of chunks, set of     *)
(* requests and set of faults.                                             *)
(***************************************************************************)
EXTENDS RunSystem, TLAPS

-----------------------------------------------------------------------------
(* Type correctness                                                        *)

\* The writes of the run's row yield a row.
LEMMA RowWrites ==
  ASSUME NEW r \in RunRow
  PROVE  /\ RecordWorkflow(r) \in RunRow
         /\ \A s \in Status : SetStatus(r, s) \in RunRow
         /\ \A n \in Nat : /\ PersistPartial(r, n) \in RunRow
                           /\ PersistOnCancel(r, n) \in RunRow
         /\ \A n \in Nat, s \in Status : PersistFinal(r, n, s) \in RunRow
         /\ \A p \in Payload, s \in Status : SaveRunResults(r, p, s) \in RunRow
<1>1. RecordWorkflow(r) \in RunRow
  BY DEF RecordWorkflow, RunRow, Status
<1>2. \A s \in Status : SetStatus(r, s) \in RunRow
  BY DEF SetStatus, RunRow
<1>3. \A n \in Nat : PersistPartial(r, n) \in RunRow
  BY DEF PersistPartial, RunRow
<1>4. \A n \in Nat, s \in Status : PersistFinal(r, n, s) \in RunRow
  BY DEF PersistFinal, RunRow
<1>5. \A n \in Nat : PersistOnCancel(r, n) \in RunRow
  BY <1>4 DEF PersistOnCancel, Status
<1>6. [r EXCEPT !.status = "cancelled", !.completed = TRUE] \in RunRow
  BY DEF RunRow, Status
<1>7. \A p \in Payload, s \in Status : SaveRunResults(r, p, s) \in RunRow
  BY <1>2, <1>4, <1>6 DEF SaveRunResults, Payload
<1> QED
  BY <1>1, <1>2, <1>3, <1>4, <1>5, <1>7

\* Where the workflow is in relation to the executions of the graph.  The
\* type invariant needs it: Current is an attempt only once stage > 0.
StageInv ==
  /\ wfPc \in {"none", "pubStarted"} => stage = 0 /\ final = "none"
  /\ wfPc \in {"execute", "saveWaiting", "pubWaiting", "waitSignals",
               "saveFailed", "pubFailed", "saveSuccess", "pubCompleted"}
     => stage > 0

LEMMA CurrentType == TypeOK /\ stage > 0 => Current \in Attempts
BY DEF TypeOK, WorkflowTypeOK, Current, Attempts, MaximumAttempts

\* The save the workflow is at yields a row.
LEMMA SavedType == TypeOK /\ StageInv => Saved \in RunRow
<1> SUFFICES ASSUME TypeOK, StageInv PROVE Saved \in RunRow
  OBVIOUS
<1>1. row \in RunRow
  BY DEF TypeOK, ActivityTypeOK
<1>2. wfPc = "saveWaiting" => attempt[Current].done \in Nat
  BY CurrentType DEF TypeOK, ActivityTypeOK, StageInv, Attempt
<1>3. \A n \in Nat, b \in BOOLEAN, s \in Status :
        SaveRunResults(row, [outs |-> n, runId |-> b], s) \in RunRow
  BY <1>1, RowWrites DEF Payload
<1>4. {"waiting", "success", "error"} \subseteq Status
  BY DEF Status
<1>5. wfPc = "saveWaiting" =>
        SaveRunResults(row, [outs |-> attempt[Current].done, runId |-> TRUE],
                       "waiting") \in RunRow
  BY <1>2, <1>3, <1>4
<1>6. SaveRunResults(row, [outs |-> 0, runId |-> final # "suspended"],
                     "success") \in RunRow
  <2>1. (final # "suspended") \in BOOLEAN
    OBVIOUS
  <2> QED
    BY <2>1, <1>3, <1>4
<1>7. SaveRunResults(row, SmallPayload, "error") \in RunRow
  BY <1>3, <1>4 DEF SmallPayload
<1> QED
  BY <1>1, <1>5, <1>6, <1>7 DEF Saved

\* A step of an attempt keeps the types.
LEMMA WorkerType ==
  ASSUME TypeOK, StageInv, NEW a \in Attempts, Worker(a)
  PROVE  TypeOK' /\ StageInv'
<1> USE ConstantsAssumption
<1>1. UNCHANGED <<workflowVars, apiVars>>
  BY DEF Worker
<1>2. WorkflowTypeOK' /\ ApiTypeOK' /\ StageInv'
  BY <1>1 DEF TypeOK, WorkflowTypeOK, ApiTypeOK, StageInv, workflowVars,
     apiVars, observed
<1>3. /\ row \in RunRow /\ pauseFlag \in BOOLEAN /\ armed \subseteq WaitNodes
      /\ attempt \in [Attempts -> Attempt] /\ overrun \in [Attempts -> Nat]
  BY DEF TypeOK, ActivityTypeOK
<1>4. /\ attempt[a].base \in Nat /\ attempt[a].done \in Nat
      /\ attempt[a].ahead \subseteq WaitNodes
      /\ attempt[a].reached \subseteq WaitNodes
  BY <1>3 DEF Attempt
<1>5. {"success", "error"} \subseteq Status
  BY DEF Status
<1>6. ASSUME NEW res \in Results, Return(a, res)
      PROVE  attempt' \in [Attempts -> Attempt]
  BY <1>3, <1>6 DEF Return, Attempt, AttemptPc
<1>7. CASE Begin(a)
  <2>1. row' \in RunRow
    BY <1>3, <1>4, <1>7, RowWrites DEF Begin, TryWrite
  <2>2. attempt' \in [Attempts -> Attempt]
    BY <1>3, <1>7 DEF Begin, AtChunkBoundary, Attempt, AttemptPc
  <2> QED
    BY <1>2, <1>3, <1>7, <2>1, <2>2 DEF Begin, TypeOK, ActivityTypeOK
<1>8. CASE Chunk(a)
  <2>1. row' \in RunRow
    <3>1. attempt[a].done + 1 \in Nat
      BY <1>4
    <3> QED
      BY <1>3, <1>8, <3>1, RowWrites DEF Chunk, TryWrite
  <2>2. PICK waits \in SUBSET attempt[a].ahead, paused \in PauseRead :
          /\ PersistWaitStates(waits)
          /\ attempt' = [attempt EXCEPT
                           ![a].pc = AtChunkBoundary(paused),
                           ![a].done = attempt[a].done + 1,
                           ![a].ahead = attempt[a].ahead \ waits,
                           ![a].reached = attempt[a].reached \cup waits]
    BY <1>8 DEF Chunk
  <2>3. armed' \subseteq WaitNodes
    BY <1>3, <1>4, <2>2 DEF PersistWaitStates
  <2>4. attempt' \in [Attempts -> Attempt]
    BY <1>3, <1>4, <2>2 DEF AtChunkBoundary, Attempt, AttemptPc
  <2>5. overrun' \in [Attempts -> Nat]
    BY <1>3, <1>8 DEF Chunk
  <2> QED
    BY <1>2, <1>3, <1>8, <2>1, <2>3, <2>4, <2>5 DEF Chunk, TypeOK, ActivityTypeOK
<1>9. CASE Poll(a)
  BY <1>2, <1>3, <1>9 DEF Poll, TypeOK, ActivityTypeOK, Attempt, AttemptPc
<1>10. CASE Finish(a)
  <2>1. row' \in RunRow
    BY <1>3, <1>4, <1>5, <1>10, RowWrites DEF Finish, TryWrite
  <2>2. attempt' \in [Attempts -> Attempt]
    BY <1>6, <1>10 DEF Finish, Results
  <2> QED
    BY <1>2, <1>3, <1>10, <2>1, <2>2 DEF Finish, TypeOK, ActivityTypeOK
<1>11. CASE NodeFails(a)
  <2>1. row' \in RunRow
    BY <1>3, <1>4, <1>5, <1>11, RowWrites DEF NodeFails, TryWrite
  <2>2. attempt' \in [Attempts -> Attempt]
    BY <1>6, <1>11 DEF NodeFails, Results
  <2> QED
    BY <1>2, <1>3, <1>11, <2>1, <2>2 DEF NodeFails, TypeOK, ActivityTypeOK
<1>12. CASE StreamCancelled(a)
  <2>1. row' \in RunRow
    BY <1>3, <1>4, <1>5, <1>12, RowWrites DEF StreamCancelled, TryWrite
  <2>2. attempt' \in [Attempts -> Attempt]
    BY <1>3, <1>12 DEF StreamCancelled, Attempt, AttemptPc
  <2> QED
    BY <1>2, <1>3, <1>12, <2>1, <2>2 DEF StreamCancelled, TypeOK, ActivityTypeOK
<1>13. CASE NeverStarted(a)
  BY <1>2, <1>3, <1>13
     DEF NeverStarted, TypeOK, ActivityTypeOK, Attempt, AttemptPc
<1>14. CASE Dies(a)
  BY <1>2, <1>3, <1>14 DEF Dies, TypeOK, ActivityTypeOK, Attempt, AttemptPc
<1> QED
  BY <1>7, <1>8, <1>9, <1>10, <1>11, <1>12, <1>13, <1>14
     DEF Worker, AttemptSteps, AttemptFaults

\* A step of the workflow keeps the types.
LEMMA WorkflowType ==
  ASSUME TypeOK, StageInv, Workflow
  PROVE  TypeOK' /\ StageInv'
<1> USE DEF pauseVars, waitVars, graphVars, activityVars
<1>1. ApiTypeOK'
  BY DEF Workflow, TypeOK, ApiTypeOK, apiVars, observed
<1>2. ActivityTypeOK /\ WorkflowTypeOK
  BY DEF TypeOK
<1>3. ASSUME UNCHANGED activityVars PROVE ActivityTypeOK'
  BY <1>2, <1>3 DEF ActivityTypeOK
<1>4. ASSUME NEW from \in WfPc, NEW to \in WfPc \ {"none", "pubStarted"},
             Publish(from, to),
             to \in {"gate", "held", "closed"}
      PROVE  ActivityTypeOK' /\ WorkflowTypeOK' /\ StageInv'
  BY <1>2, <1>3, <1>4 DEF Publish, WorkflowTypeOK, StageInv
<1>5. ASSUME NEW to \in {"saveFailed", "saveWaiting", "saveSuccess"},
             Branch(to), stage > 0
      PROVE  ActivityTypeOK' /\ WorkflowTypeOK' /\ StageInv'
  BY <1>2, <1>3, <1>5 DEF Branch, WorkflowTypeOK, WfPc, StageInv
<1>6. ASSUME NEW from \in WfPc, NEW to \in WfPc, SaveRun(from, to, Saved),
             \/ from = "saveWaiting" /\ to = "pubWaiting"
             \/ from = "saveSuccess" /\ to = "pubCompleted"
             \/ from = "saveFailed" /\ to = "pubFailed"
             \/ from = "saveError" /\ to = "pubError"
      PROVE  ActivityTypeOK' /\ WorkflowTypeOK' /\ StageInv'
  <2>1. ActivityTypeOK'
    BY <1>2, <1>6, SavedType DEF SaveRun, ActivityTypeOK
  <2> QED
    BY <1>2, <1>6, <2>1 DEF SaveRun, WorkflowTypeOK, WfPc, StageInv
<1>7. ASSUME NEW s \in 1 .. 2, NEW base \in Nat, ExecuteGraph(s, base)
      PROVE  /\ ActivityTypeOK' /\ wfPc' = "execute"
             /\ stage' \in 1 .. 2 /\ try' \in 1 .. MaximumAttempts
  <2>1. WaitsOf(s) \subseteq WaitNodes
    BY WaitsAssumption DEF WaitsOf
  <2>2. Scheduled(base, WaitsOf(s)) \in Attempt
    BY <1>7, <2>1 DEF Scheduled, Idle, Attempt, AttemptPc, Results
  <2>3. attempt' \in [Attempts -> Attempt]
    BY <1>2, <1>7, <2>2 DEF ExecuteGraph, ActivityTypeOK
  <2> QED
    BY <1>2, <1>7, <2>3 DEF ExecuteGraph, ActivityTypeOK, MaximumAttempts
<1>8. CASE PublishStarted \/ PublishPaused \/ PublishFailed
           \/ PublishCompleted \/ PublishError
  BY <1>1, <1>4, <1>8 DEF PublishStarted, PublishPaused, PublishFailed,
     PublishCompleted, PublishError, WfPc, TypeOK
<1>9. CASE EnterPause
  BY <1>1, <1>2, <1>3, <1>9
     DEF EnterPause, TypeOK, WorkflowTypeOK, WfPc, StageInv
<1>10. CASE LeavePause
  BY <1>1, <1>2, <1>3, <1>10
     DEF LeavePause, TypeOK, WorkflowTypeOK, WfPc, StageInv
<1>11. CASE RunGraph
  <2>1. ExecuteGraph(1, 0)
    BY <1>11 DEF RunGraph
  <2> QED
    BY <1>1, <1>2, <1>7, <1>11, <2>1
       DEF RunGraph, TypeOK, WorkflowTypeOK, WfPc, StageInv
<1>12. CASE GraphReturned
  <2>1. Current \in Attempts
    BY <1>12, CurrentType DEF GraphReturned, StageInv
  <2>2. attempt[Current].result \in Results
    BY <1>2, <2>1 DEF ActivityTypeOK, Attempt
  <2>3. attempt' \in [Attempts -> Attempt]
    BY <1>2, <1>12, <2>1
       DEF GraphReturned, ActivityTypeOK, Attempt, AttemptPc
  <2> QED
    BY <1>1, <1>2, <1>12, <2>2, <2>3
       DEF GraphReturned, TypeOK, ActivityTypeOK, WorkflowTypeOK, WfPc, StageInv
<1>13. CASE RetriesExhausted
  <2>1. attempt' \in [Attempts -> Attempt]
    BY <1>2, <1>13 DEF RetriesExhausted, ActivityTypeOK, Attempt
  <2> QED
    BY <1>1, <1>2, <1>13, <2>1 DEF RetriesExhausted, TypeOK, ActivityTypeOK,
       WorkflowTypeOK, WfPc, StageInv
<1>14. CASE GraphFailed \/ GraphSuspended \/ GraphSucceeded
  BY <1>1, <1>5, <1>14
     DEF GraphFailed, GraphSuspended, GraphSucceeded, TypeOK
<1>15. CASE SaveWaiting \/ SaveFailed \/ SaveSuccess \/ SaveError
  BY <1>1, <1>6, <1>15
     DEF SaveWaiting, SaveFailed, SaveSuccess, SaveError, TypeOK, WfPc
<1>16. CASE PublishWaiting
  BY <1>1, <1>2, <1>3, <1>16
     DEF PublishWaiting, TypeOK, WorkflowTypeOK, WfPc, StageInv
<1>17. CASE ResumeAfterWaits
  <2>1. Current \in Attempts
    BY <1>17, CurrentType DEF ResumeAfterWaits, StageInv
  <2>2. attempt[Current].done \in Nat
    BY <1>2, <2>1 DEF ActivityTypeOK, Attempt
  <2>3. ExecuteGraph(2, attempt[Current].done)
    BY <1>17 DEF ResumeAfterWaits
  <2>4. pendingWaits' \in [WaitNodes -> {"absent", "no", "yes"}]
    BY <1>17 DEF ResumeAfterWaits, NoWaits
  <2>5. ActivityTypeOK' /\ wfPc' = "execute"
        /\ stage' \in 1 .. 2 /\ try' \in 1 .. MaximumAttempts
    BY <1>7, <2>2, <2>3
  <2> QED
    BY <1>1, <1>2, <1>17, <2>4, <2>5
       DEF ResumeAfterWaits, TypeOK, WorkflowTypeOK, WfPc, StageInv
<1>18. CASE WaitTimedOut
  BY <1>1, <1>2, <1>3, <1>18
     DEF WaitTimedOut, TypeOK, WorkflowTypeOK, WfPc, StageInv
<1>19. CASE RetryGraph
  <2>1. Current \in Attempts
    BY <1>19, CurrentType DEF RetryGraph, AttemptLost, StageInv
  <2>2. attempt[Current].base \in Nat
    BY <1>2, <2>1 DEF ActivityTypeOK, Attempt
  <2>3. WaitsOf(stage) \subseteq WaitNodes
    BY WaitsAssumption DEF WaitsOf
  <2>4. Scheduled(attempt[Current].base, WaitsOf(stage)) \in Attempt
    BY <2>2, <2>3 DEF Scheduled, Idle, Attempt, AttemptPc, Results
  <2>5. [attempt[Current] EXCEPT !.abandoned = TRUE] \in Attempt
    BY <1>2, <2>1 DEF ActivityTypeOK, Attempt
  <2>6. attempt' \in [Attempts -> Attempt]
    BY <1>2, <1>19, <2>1, <2>4, <2>5 DEF RetryGraph, ActivityTypeOK
  <2>7. try' \in 1 .. MaximumAttempts
    BY <1>2, <1>19 DEF RetryGraph, WorkflowTypeOK, MaximumAttempts
  <2> QED
    BY <1>1, <1>2, <1>19, <2>6, <2>7
       DEF RetryGraph, TypeOK, ActivityTypeOK, WorkflowTypeOK, StageInv
<1>20. CASE ThrowCancel
  <2>1. attempt' \in [Attempts -> Attempt]
    BY <1>2, <1>20 DEF ThrowCancel, ActivityTypeOK, Attempt
  <2>2. row' \in RunRow
    BY <1>2, <1>20, SavedType DEF ThrowCancel, ActivityTypeOK
  <2> QED
    BY <1>1, <1>2, <1>20, <2>1, <2>2
       DEF ThrowCancel, TypeOK, ActivityTypeOK, WorkflowTypeOK, WfPc, StageInv
<1> QED
  BY <1>8, <1>9, <1>10, <1>11, <1>12, <1>13, <1>14, <1>15, <1>16, <1>17,
     <1>18, <1>19, <1>20 DEF Workflow, WorkflowSteps

\* StartWorkflow finds no workflow, and a handler that writes a status has
\* been asked for something.
ApiInv ==
  /\ starter = "queued" => wfPc = "none"
  /\ \A q \in Requests : request[q].op = "none" => request[q].pc = "idle"

\* A step of the API keeps the types.
LEMMA ApiType ==
  ASSUME TypeOK, StageInv, ApiInv,
         \/ Starter
         \/ \E q \in Requests : User(q)
         \/ \E n \in WaitNodes : EmitSignal(n)
  PROVE  TypeOK' /\ StageInv'
<1> USE DEF pauseVars, waitVars, graphVars, activityVars, workflowVars, apiVars,
        observed
<1>1. ActivityTypeOK /\ WorkflowTypeOK /\ ApiTypeOK
  BY DEF TypeOK
<1>2. ASSUME UNCHANGED activityVars PROVE ActivityTypeOK'
  BY <1>1, <1>2 DEF ActivityTypeOK
<1>3. ASSUME UNCHANGED workflowVars PROVE WorkflowTypeOK' /\ StageInv'
  BY <1>1, <1>3 DEF WorkflowTypeOK, StageInv
<1>4. ASSUME NEW q \in Requests, NEW pc \in RequestPc, Goto(q, pc)
      PROVE  request' \in [Requests -> Request]
  BY <1>1, <1>4 DEF Goto, ApiTypeOK, Request
<1>5. CASE StartWorkflow
  BY <1>1, <1>2, <1>5 DEF StartWorkflow, ApiInv, TypeOK, WorkflowTypeOK,
     WfPc, ApiTypeOK, StageInv
<1>6. CASE RecordStarted
  <2>1. row' \in RunRow /\ clobbered' \in BOOLEAN
    BY <1>1, <1>6, RowWrites
       DEF RecordStarted, CommitStatus, ActivityTypeOK, ApiTypeOK, Status
  <2> QED
    BY <1>1, <1>3, <1>6, <2>1
       DEF RecordStarted, TypeOK, ActivityTypeOK, ApiTypeOK
<1>7. ASSUME NEW q \in Requests, NEW op \in RequestOps, Ask(q, op)
      PROVE  TypeOK' /\ StageInv'
  <2>1. row.status \in Status
    BY <1>1 DEF ActivityTypeOK, RunRow
  <2>2. op \in {"cancel", "pause", "resume"}
    BY <1>7, RequestsAssumption
  <2>3. [op |-> op, pc |-> IF row.tid THEN "temporal" ELSE "flag",
         seen |-> row.status] \in Request
    BY <2>1, <2>2 DEF Request, RequestPc
  <2>4. request' \in [Requests -> Request]
    BY <1>1, <1>7, <2>3 DEF Ask, ApiTypeOK
  <2> QED
    BY <1>1, <1>2, <1>3, <1>7, <2>4 DEF Ask, TypeOK, ApiTypeOK
<1>8. ASSUME NEW q \in Requests, CancelTemporal(q) PROVE TypeOK' /\ StageInv'
  BY <1>1, <1>2, <1>4, <1>8 DEF CancelTemporal, TypeOK, WorkflowTypeOK,
     ApiTypeOK, StageInv, RequestPc
<1>9. ASSUME NEW q \in Requests, SignalTemporal(q) PROVE TypeOK' /\ StageInv'
  <2>1. request' \in [Requests -> Request]
    BY <1>4, <1>9 DEF SignalTemporal, RequestPc
  <2> QED
    BY <1>1, <1>2, <1>9, <2>1 DEF SignalTemporal, PauseSignal, ResumeSignal,
       TypeOK, WorkflowTypeOK, ApiTypeOK, StageInv
<1>10. ASSUME NEW q \in Requests, SetPauseFlag(q) PROVE TypeOK' /\ StageInv'
  <2>1. request' \in [Requests -> Request]
    BY <1>4, <1>10 DEF SetPauseFlag, RequestPc
  <2>2. pauseFlag' \in BOOLEAN
    BY <1>1, <1>10 DEF SetPauseFlag, ActivityTypeOK
  <2>3. overrun' \in [Attempts -> Nat]
    BY <1>1, <1>10 DEF SetPauseFlag, ActivityTypeOK
  <2> QED
    BY <1>1, <1>3, <1>10, <2>1, <2>2, <2>3
       DEF SetPauseFlag, TypeOK, ActivityTypeOK, ApiTypeOK
<1>11. ASSUME NEW q \in Requests, Commit(q) PROVE TypeOK' /\ StageInv'
  <2>1. request' \in [Requests -> Request]
    BY <1>4, <1>11 DEF Commit, RequestPc
  <2>2. request[q].op \in {"cancel", "pause", "resume"}
    BY <1>1, <1>11 DEF Commit, ApiInv, ApiTypeOK, Request
  <2>3. NewStatus(request[q].op) \in Status
    BY <2>2 DEF NewStatus, Status
  <2> QED
    BY <1>1, <1>3, <1>11, <2>1, <2>3, RowWrites
       DEF Commit, CommitStatus, TypeOK, ActivityTypeOK, ApiTypeOK
<1>12. ASSUME NEW n \in WaitNodes, EmitSignal(n) PROVE TypeOK' /\ StageInv'
  BY <1>1, <1>12 DEF EmitSignal, ReceiveSignal, TypeOK, ActivityTypeOK,
     WorkflowTypeOK, ApiTypeOK, StageInv
<1> QED
  BY <1>5, <1>6, <1>7, <1>8, <1>9, <1>10, <1>11, <1>12
     DEF Starter, User, RequestSteps

LEMMA ApiInvStep == TypeOK /\ ApiInv /\ [Next]_vars => ApiInv'
<1> SUFFICES ASSUME TypeOK, ApiInv, [Next]_vars PROVE ApiInv'
  OBVIOUS
<1> USE DEF pauseVars, waitVars, graphVars, activityVars, workflowVars, apiVars,
        observed
<1>1. request \in [Requests -> Request]
  BY DEF TypeOK, ApiTypeOK
<1>2. CASE \E a \in Attempts : Worker(a)
  BY <1>2 DEF Worker, ApiInv
<1>3. CASE Workflow
  <2>1. wfPc = "none" => wfPc' = "none"
    BY <1>3 DEF Workflow, WorkflowSteps, Publish, PublishStarted,
       PublishPaused, PublishFailed, PublishCompleted, PublishError,
       EnterPause, LeavePause, GateOpen, RunGraph, GraphReturned, AttemptLost,
       RetryGraph, RetriesExhausted, SaveRun, SaveWaiting, SaveSuccess,
       SaveFailed, SaveError, Branch, GraphFailed, GraphSuspended,
       GraphSucceeded, PublishWaiting, ResumeAfterWaits, WaitTimedOut,
       ThrowCancel, AwaitsInTry, OtherAwaits
  <2> QED
    BY <1>3, <2>1 DEF Workflow, ApiInv
<1>4. CASE Starter
  BY <1>4 DEF Starter, StartWorkflow, RecordStarted, ApiInv
<1>5. ASSUME NEW q \in Requests, User(q) PROVE ApiInv'
  <2>1. UNCHANGED <<starter, wfPc>>
    BY <1>5 DEF User, Ask, RequestSteps, CancelTemporal, SignalTemporal,
       SetPauseFlag, Commit
  <2>2. CASE \E op \in RequestOps : Ask(q, op)
    BY <1>1, <2>1, <2>2, RequestsAssumption DEF Ask, ApiInv
  <2>3. CASE RequestSteps(q)
    <3>1. request[q].op # "none" /\ \E pc \in RequestPc : Goto(q, pc)
      BY <2>3 DEF RequestSteps, CancelTemporal, SignalTemporal, SetPauseFlag,
         Commit, RequestPc, ApiInv
    <3> QED
      BY <1>1, <2>1, <3>1 DEF Goto, ApiInv
  <2> QED
    BY <1>5, <2>2, <2>3 DEF User
<1>6. CASE \E n \in WaitNodes : EmitSignal(n)
  BY <1>6 DEF EmitSignal, ApiInv
<1>7. CASE UNCHANGED vars
  BY <1>7 DEF vars, ApiInv
<1> QED
  BY <1>2, <1>3, <1>4, <1>5, <1>6, <1>7 DEF Next

\* The inductive type invariant.
TypeInv == TypeOK /\ StageInv /\ ApiInv

LEMMA TypeInvInit == Init => TypeInv
<1> SUFFICES ASSUME Init PROVE TypeInv
  OBVIOUS
<1> USE DEF Init, ActivityInit, WorkflowInit, ApiInit
<1>1. ActivityTypeOK
  BY DEF ActivityTypeOK, CreateRun, RunRow, Status, Idle, Attempt, AttemptPc,
     Results
<1>2. WorkflowTypeOK
  <2>1. pendingWaits \in [WaitNodes -> {"absent", "no", "yes"}]
    BY DEF NoWaits
  <2>2. try \in 1 .. MaximumAttempts /\ stage \in 0 .. 2
    BY DEF MaximumAttempts
  <2> QED
    BY <2>1, <2>2 DEF WorkflowTypeOK, WfPc, Results
<1>3. ApiTypeOK
  BY DEF ApiTypeOK, Request, RequestPc, Status
<1> QED
  BY <1>1, <1>2, <1>3 DEF TypeInv, TypeOK, StageInv, ApiInv

LEMMA TypeInvStep == TypeInv /\ [Next]_vars => TypeInv'
<1> SUFFICES ASSUME TypeInv, [Next]_vars PROVE TypeInv'
  OBVIOUS
<1>1. TypeOK /\ StageInv /\ ApiInv
  BY DEF TypeInv
<1>2. CASE \E a \in Attempts : Worker(a)
  BY <1>1, <1>2, WorkerType, ApiInvStep DEF TypeInv
<1>3. CASE Workflow
  BY <1>1, <1>3, WorkflowType, ApiInvStep DEF TypeInv
<1>4. CASE Starter \/ (\E q \in Requests : User(q))
           \/ (\E n \in WaitNodes : EmitSignal(n))
  BY <1>1, <1>4, ApiType, ApiInvStep DEF TypeInv
<1>5. CASE UNCHANGED vars
  BY <1>1, <1>5 DEF vars, activityVars, workflowVars, apiVars, observed, TypeInv,
     TypeOK, ActivityTypeOK, WorkflowTypeOK, ApiTypeOK, StageInv, ApiInv
<1> QED
  BY <1>2, <1>3, <1>4, <1>5 DEF Next

\* In every reachable state the row, the workflow, the attempts and the
\* handlers have their types, and an activity is awaited only for an
\* execution that has begun.
THEOREM TypeCorrect == Spec => []TypeOK
<1>1. Spec => []TypeInv
  BY TypeInvInit, TypeInvStep, PTL DEF Spec
<1> QED
  BY <1>1, PTL DEF TypeInv

-----------------------------------------------------------------------------
(* The waits of a suspended run                                            *)
(*                                                                         *)
(* ResumeNeedsEverySignal is not inductive: that the workflow counts the   *)
(* right waits follows from what it knows of the attempt it suspended on.  *)
(* That attempt was the first execution, it is done for good, and it had   *)
(* reached every wait node before it returned.                             *)

\* Attempts Temporal has not made yet.
Later(a) == a[1] > stage \/ (a[1] = stage /\ a[2] > try)

AttemptsInv ==
  \A a \in Attempts :
    /\ Later(a) => attempt[a].pc = "idle"
    /\ attempt[a].pc \in {"idle", "scheduled", "stream", "held"} =>
         attempt[a].result = "none"
    /\ attempt[a].pc \in {"returned", "delivered"} =>
         attempt[a].result # "none"
    /\ attempt[a].done = attempt[a].base + Supersteps =>
         attempt[a].ahead = {}
    /\ attempt[a].result = "suspended" => attempt[a].ahead = {}
    /\ a[1] = 1 /\ attempt[a].pc # "idle" =>
         attempt[a].ahead \cup attempt[a].reached = FirstWaits

\* The workflow has left the graph activity with its result.
Answered == wfPc \in {"gate", "pubPaused", "held", "pubRunning",
                      "saveWaiting", "pubWaiting", "waitSignals",
                      "saveFailed", "saveSuccess"}
            /\ stage > 0

FinalInv ==
  /\ stage = 0 \/ (stage = 1 /\ wfPc = "execute") => final = "none"
  /\ Answered => /\ attempt[Current].pc = "delivered"
                 /\ final = attempt[Current].result
  /\ wfPc \in {"saveWaiting", "pubWaiting", "waitSignals"} =>
       stage = 1 /\ final = "suspended"
  /\ wfPc = "saveSuccess" =>
       final = "ok" \/ (stage = 2 /\ final = "suspended")

WaitsInv ==
  /\ \A n \in WaitNodes : pendingWaits[n] = "yes" => n \in signalled
  /\ wfPc = "waitSignals" => \A n \in FirstWaits : pendingWaits[n] # "absent"
  /\ ResumeNeedsEverySignal

GraphInv == AttemptsInv /\ FinalInv /\ WaitsInv

LEMMA AttemptPair ==
  ASSUME NEW a \in Attempts
  PROVE  a[1] \in 1 .. 2 /\ a[2] \in 1 .. 2 /\ a = <<a[1], a[2]>>
BY DEF Attempts, MaximumAttempts

\* What AttemptsInv says of one attempt, apart from its place.
AttemptInv(a, t) ==
  /\ t.pc \in {"idle", "scheduled", "stream", "held"} => t.result = "none"
  /\ t.pc \in {"returned", "delivered"} => t.result # "none"
  /\ t.done = t.base + Supersteps => t.ahead = {}
  /\ t.result = "suspended" => t.ahead = {}
  /\ a[1] = 1 /\ t.pc # "idle" => t.ahead \cup t.reached = FirstWaits

LEMMA GraphInvWorker ==
  ASSUME TypeInv, GraphInv, NEW a \in Attempts, Worker(a)
  PROVE  GraphInv'
<1> USE DEF workflowVars, apiVars
<1> DEFINE t == attempt[a]
           u == attempt'[a]
<1>1. /\ attempt \in [Attempts -> Attempt] /\ t \in Attempt
      /\ t.base \in Nat /\ t.done \in Nat
      /\ Supersteps \in Nat \ {0}
  BY ConstantsAssumption DEF TypeInv, TypeOK, ActivityTypeOK, Attempt
<1>2. UNCHANGED workflowVars
  BY DEF Worker
<1>3. t.pc \notin {"idle", "delivered"} /\ AttemptInv(a, t)
  BY DEF Worker, AttemptSteps, AttemptFaults, Begin, Chunk, Poll, Finish,
     NeverStarted, StreamCancelled, NodeFails, Dies, GraphInv, AttemptsInv,
     AttemptInv
<1>4. /\ AttemptInv(a, u) /\ u.pc # "idle"
      /\ \A b \in Attempts : b # a => attempt'[b] = attempt[b]
  <2>1. CASE Begin(a)
    BY <1>1, <1>3, <2>1 DEF Begin, AtChunkBoundary, AttemptInv
  <2>2. CASE Chunk(a)
    <3>1. PICK waits \in SUBSET t.ahead, paused \in PauseRead :
            /\ t.done + 1 = t.base + Supersteps => waits = t.ahead
            /\ attempt' = [attempt EXCEPT
                             ![a].pc = AtChunkBoundary(paused),
                             ![a].done = t.done + 1,
                             ![a].ahead = t.ahead \ waits,
                             ![a].reached = t.reached \cup waits]
      BY <2>2 DEF Chunk
    <3>2. u = [t EXCEPT !.pc = AtChunkBoundary(paused), !.done = t.done + 1,
                        !.ahead = t.ahead \ waits,
                        !.reached = t.reached \cup waits]
      BY <1>1, <3>1
    <3>3. /\ u.pc \in {"held", "stream"} /\ u.done = t.done + 1
          /\ u.base = t.base /\ u.result = t.result
          /\ u.ahead = t.ahead \ waits /\ u.reached = t.reached \cup waits
      BY <1>1, <3>2 DEF Attempt, AtChunkBoundary
    <3>4. t.pc = "stream" /\ t.result = "none"
      BY <1>3, <2>2 DEF Chunk, AttemptInv
    <3>5. u.ahead \cup u.reached = t.ahead \cup t.reached
      BY <3>1, <3>3
    <3>6. u.done = u.base + Supersteps => u.ahead = {}
      BY <1>1, <3>1, <3>3
    <3>7. AttemptInv(a, u)
      BY <1>3, <3>3, <3>4, <3>5, <3>6 DEF AttemptInv
    <3> QED
      BY <1>1, <3>1, <3>3, <3>7
  <2>3. CASE Poll(a)
    BY <1>1, <1>3, <2>3 DEF Poll, AttemptInv
  <2>4. CASE Finish(a)
    <3>1. PICK res \in {"suspended", "ok"} : Return(a, res)
      BY <2>4 DEF Finish
    <3>2. /\ u.pc = "returned" /\ u.result = res
          /\ u.base = t.base /\ u.done = t.done
          /\ u.ahead = t.ahead /\ u.reached = t.reached
      BY <1>1, <3>1 DEF Return, Attempt
    <3>3. t.ahead = {}
      BY <1>3, <2>4 DEF Finish, AttemptInv
    <3> QED
      BY <1>1, <1>3, <3>1, <3>2, <3>3 DEF Return, AttemptInv
  <2>5. CASE NodeFails(a)
    BY <1>1, <1>3, <2>5 DEF NodeFails, Return, AttemptInv
  <2>6. CASE StreamCancelled(a)
    BY <1>1, <1>3, <2>6 DEF StreamCancelled, AttemptInv
  <2>7. CASE NeverStarted(a)
    BY <1>1, <1>3, <2>7 DEF NeverStarted, AttemptInv
  <2>8. CASE Dies(a)
    BY <1>1, <1>3, <2>8 DEF Dies, AttemptInv
  <2> QED
    BY <2>1, <2>2, <2>3, <2>4, <2>5, <2>6, <2>7, <2>8
       DEF Worker, AttemptSteps, AttemptFaults
<1>5. AttemptsInv'
  BY <1>2, <1>3, <1>4 DEF GraphInv, AttemptsInv, AttemptInv, Later
<1>6. FinalInv'
  <2>1. Answered => attempt'[Current] = attempt[Current]
    BY <1>3, <1>4, CurrentType DEF GraphInv, FinalInv, Answered, TypeInv
  <2> QED
    BY <1>2, <2>1 DEF GraphInv, FinalInv, Answered, Current
<1>7. WaitsInv'
  BY <1>2 DEF GraphInv, WaitsInv, ResumeNeedsEverySignal
<1> QED
  BY <1>5, <1>6, <1>7 DEF GraphInv

LEMMA GraphInvWorkflow ==
  ASSUME TypeInv, GraphInv, Workflow
  PROVE  GraphInv'
<1> USE DEF pauseVars, waitVars, graphVars, activityVars
<1>1. /\ attempt \in [Attempts -> Attempt]
      /\ pendingWaits \in [WaitNodes -> {"absent", "no", "yes"}]
      /\ stage \in 0 .. 2 /\ try \in 1 .. 2
  BY DEF TypeInv, TypeOK, ActivityTypeOK, WorkflowTypeOK, MaximumAttempts
<1>2. AttemptsInv /\ FinalInv /\ WaitsInv /\ StageInv
  BY DEF GraphInv, TypeInv
<1>3. ASSUME UNCHANGED <<attempt, stage, try>> PROVE AttemptsInv'
  BY <1>2, <1>3 DEF AttemptsInv, Later
<1>4. ASSUME UNCHANGED <<pendingWaits, signalled, stage>>,
             wfPc' # "waitSignals"
      PROVE  WaitsInv'
  BY <1>2, <1>4 DEF WaitsInv, ResumeNeedsEverySignal
<1>5. ASSUME UNCHANGED <<attempt, stage, try, final>>, Answered' => Answered,
             wfPc' \notin {"execute", "saveWaiting", "saveSuccess"},
             \/ wfPc' \notin {"pubWaiting", "waitSignals"}
             \/ wfPc \in {"saveWaiting", "pubWaiting"}
      PROVE  FinalInv'
  BY <1>2, <1>5 DEF FinalInv, Current
<1>6. CASE \/ PublishStarted \/ PublishPaused \/ PublishFailed
           \/ PublishCompleted \/ PublishError \/ EnterPause \/ LeavePause
           \/ WaitTimedOut
  <2>1. UNCHANGED <<attempt, stage, try, final, pendingWaits, signalled>>
    BY <1>6 DEF Publish, PublishStarted, PublishPaused, PublishFailed,
       PublishCompleted, PublishError, EnterPause, LeavePause, WaitTimedOut
  <2>2. /\ wfPc' \in {"gate", "pubPaused", "held", "pubRunning", "closed",
                      "saveError"}
        /\ Answered' => Answered
    BY <1>2, <1>6 DEF Publish, PublishStarted, PublishPaused, PublishFailed,
       PublishCompleted, PublishError, EnterPause, LeavePause, WaitTimedOut,
       Answered, StageInv
  <2> QED
    BY <1>3, <1>4, <1>5, <2>1, <2>2 DEF GraphInv
<1>7. CASE GraphFailed \/ GraphSuspended \/ GraphSucceeded
  <2>1. /\ UNCHANGED <<attempt, stage, try, final, pendingWaits, signalled>>
        /\ Answered /\ wfPc' # "waitSignals"
    BY <1>7 DEF Branch, GraphFailed, GraphSuspended, GraphSucceeded, GateOpen,
       Answered
  <2>2. FinalInv'
    BY <1>2, <1>7, <2>1 DEF Branch, GraphFailed, GraphSuspended,
       GraphSucceeded, FinalInv, Current
  <2> QED
    BY <1>3, <1>4, <2>1, <2>2 DEF GraphInv
<1>8. CASE SaveWaiting \/ SaveFailed \/ SaveSuccess \/ SaveError
  <2>1. /\ UNCHANGED <<attempt, stage, try, final, pendingWaits, signalled>>
        /\ wfPc' \in {"pubWaiting", "pubFailed", "pubCompleted", "pubError",
                      "saveError", "closed"}
        /\ wfPc' = "pubWaiting" => wfPc = "saveWaiting"
        /\ Answered' => Answered
    BY <1>8 DEF SaveRun, SaveWaiting, SaveFailed, SaveSuccess, SaveError,
       Answered
  <2> QED
    BY <1>3, <1>4, <1>5, <2>1 DEF GraphInv
<1>9. CASE PublishWaiting
  <2>1. /\ UNCHANGED <<attempt, stage, try, final, signalled>>
        /\ wfPc = "pubWaiting" /\ wfPc' = "waitSignals" /\ stage = 1
    BY <1>2, <1>9 DEF PublishWaiting, FinalInv
  <2>2. Current \in Attempts /\ Current[1] = 1
    BY <2>1, CurrentType DEF TypeInv, Current
  <2>3. attempt[Current].reached = FirstWaits
    <3>1. /\ attempt[Current].pc = "delivered"
          /\ attempt[Current].result = "suspended"
      BY <1>2, <2>1 DEF FinalInv, Answered
    <3>2. /\ attempt[Current].ahead = {}
          /\ attempt[Current].ahead \cup attempt[Current].reached = FirstWaits
      BY <1>2, <2>2, <3>1 DEF AttemptsInv
    <3> QED
      BY <3>2
  <2>4. WaitsInv'
    BY <1>2, <1>9, <2>1, <2>3, WaitsAssumption
       DEF PublishWaiting, WaitsInv, ResumeNeedsEverySignal
  <2> QED
    BY <1>3, <1>5, <2>1, <2>4 DEF GraphInv, Answered
<1>10. CASE GraphReturned
  <2>1. Current \in Attempts
    BY <1>2, <1>10, CurrentType DEF GraphReturned, StageInv, TypeInv
  <2>2. /\ attempt'[Current].pc = "delivered"
        /\ attempt'[Current].result = attempt[Current].result
        /\ \A a \in Attempts : a # Current => attempt'[a] = attempt[a]
        /\ attempt[Current].pc = "returned"
    BY <1>1, <1>10, <2>1 DEF GraphReturned, Attempt
  <2>3. AttemptInv(Current, attempt'[Current])
    BY <1>1, <1>2, <1>10, <2>1 DEF GraphReturned, AttemptsInv, AttemptInv, Attempt
  <2>4. AttemptsInv'
    BY <1>2, <1>10, <2>1, <2>2, <2>3
       DEF GraphReturned, AttemptsInv, AttemptInv, Later, Current
  <2>5. FinalInv'
    BY <1>2, <1>10, <2>2 DEF GraphReturned, FinalInv, Answered, Current, StageInv
  <2> QED
    BY <1>4, <1>10, <2>4, <2>5 DEF GraphReturned, GraphInv
<1>11. ASSUME NEW s \in 1 .. 2, NEW base \in Nat, ExecuteGraph(s, base),
              s = stage + 1, s = 1 => UNCHANGED final,
              \A a \in Attempts : a[1] = s => attempt[a].pc = "idle"
       PROVE  AttemptsInv' /\ FinalInv'
  <2>1. <<s, 1>> \in Attempts
    BY DEF Attempts, MaximumAttempts
  <2>2. /\ attempt'[<<s, 1>>] = Scheduled(base, WaitsOf(s))
        /\ \A a \in Attempts : a # <<s, 1>> => attempt'[a] = attempt[a]
        /\ stage' = s /\ try' = 1 /\ wfPc' = "execute"
    BY <1>1, <1>11, <2>1 DEF ExecuteGraph
  <2>3. AttemptInv(<<s, 1>>, Scheduled(base, WaitsOf(s)))
    BY <1>11, ConstantsAssumption DEF AttemptInv, Scheduled, Idle, WaitsOf
  <2>4. \A a \in Attempts : Later(a)' => a # <<s, 1>> /\ Later(a)
    BY <1>1, <1>11, <2>2, AttemptPair DEF Later
  <2>5. AttemptsInv'
    BY <1>2, <2>2, <2>3, <2>4 DEF AttemptsInv, AttemptInv
  <2>6. FinalInv'
    BY <1>1, <1>2, <1>11, <2>2 DEF FinalInv, Answered
  <2> QED
    BY <2>5, <2>6
<1>12. CASE RunGraph
  <2>1. \A a \in Attempts : attempt[a].pc = "idle"
    BY <1>2, <1>12, AttemptPair DEF RunGraph, AttemptsInv, Later
  <2>2. AttemptsInv' /\ FinalInv'
    BY <1>11, <1>12, <2>1 DEF RunGraph
  <2>3. WaitsInv'
    BY <1>2, <1>12
       DEF RunGraph, ExecuteGraph, WaitsInv, ResumeNeedsEverySignal
  <2> QED
    BY <2>2, <2>3 DEF GraphInv
<1>13. CASE ResumeAfterWaits
  <2>1. stage = 1 /\ Current \in Attempts
    BY <1>2, <1>13, CurrentType DEF ResumeAfterWaits, FinalInv, TypeInv
  <2>2. \A a \in Attempts : a[1] = 2 => attempt[a].pc = "idle"
    BY <1>2, <2>1, AttemptPair DEF AttemptsInv, Later
  <2>3. attempt[Current].done \in Nat
    BY <1>1, <2>1 DEF Attempt
  <2>4. AttemptsInv' /\ FinalInv'
    BY <1>11, <1>13, <2>1, <2>2, <2>3 DEF ResumeAfterWaits
  <2>5. FirstWaits \subseteq signalled
    BY <1>1, <1>2, <1>13, WaitsAssumption
       DEF ResumeAfterWaits, AllSatisfied, WaitsInv
  <2>6. WaitsInv'
    BY <1>13, <2>5 DEF ResumeAfterWaits, ExecuteGraph, NoWaits, WaitsInv,
       ResumeNeedsEverySignal
  <2> QED
    BY <2>4, <2>6 DEF GraphInv
<1>14. ASSUME RetryGraph PROVE GraphInv'
  <2>1. /\ Current \in Attempts /\ <<stage, try + 1>> \in Attempts
        /\ Current # <<stage, try + 1>> /\ stage \in 1 .. 2
    BY <1>1, <1>2, <1>14, CurrentType DEF RetryGraph, AttemptLost, StageInv,
       TypeInv, Current, Attempts, MaximumAttempts
  <2> DEFINE new == Scheduled(attempt[Current].base, WaitsOf(stage))
  <2>2. /\ attempt'[<<stage, try + 1>>] = new
        /\ attempt'[Current] = [attempt[Current] EXCEPT !.abandoned = TRUE]
        /\ \A a \in Attempts : a \notin {Current, <<stage, try + 1>>} =>
             attempt'[a] = attempt[a]
        /\ stage' = stage /\ try' = try + 1 /\ wfPc' = "execute"
        /\ UNCHANGED <<final, pendingWaits, signalled>>
    BY <1>1, <1>14, <2>1 DEF RetryGraph, AttemptLost
  <2>3. AttemptInv(<<stage, try + 1>>, new)
    <3>1. attempt[Current].base \in Nat
      BY <1>1, <2>1 DEF Attempt
    <3> QED
      BY <3>1, ConstantsAssumption DEF AttemptInv, Scheduled, Idle, WaitsOf
  <2>4. AttemptInv(Current, attempt'[Current])
    BY <1>1, <1>2, <2>1, <2>2 DEF AttemptsInv, AttemptInv, Attempt
  <2>5. \A a \in Attempts : Later(a)' =>
          Later(a) /\ a \notin {Current, <<stage, try + 1>>}
    BY <1>1, <2>2, AttemptPair DEF Later, Current
  <2>6. \A a \in Attempts : AttemptInv(a, attempt'[a])
    <3> TAKE a \in Attempts
    <3>1. AttemptInv(a, attempt[a])
      BY <1>2 DEF AttemptsInv, AttemptInv
    <3> QED
      BY <2>2, <2>3, <2>4, <3>1
  <2>7. \A a \in Attempts : Later(a)' => attempt'[a].pc = "idle"
    BY <1>2, <2>2, <2>5 DEF AttemptsInv
  <2>8. AttemptsInv'
    BY <2>6, <2>7 DEF AttemptsInv, AttemptInv
  <2>9. FinalInv'
    BY <1>2, <1>14, <2>2 DEF RetryGraph, AttemptLost, FinalInv, Answered
  <2> QED
    BY <1>4, <2>2, <2>8, <2>9 DEF GraphInv
<1>15. CASE RetriesExhausted \/ ThrowCancel
  <2>1. /\ UNCHANGED <<stage, try, final, pendingWaits, signalled>>
        /\ wfPc' \in {"saveError", "closed"}
    BY <1>15 DEF RetriesExhausted, ThrowCancel
  <2>2. \A a \in Attempts :
          attempt'[a] \in {attempt[a],
                           [attempt[a] EXCEPT !.abandoned = TRUE]}
    BY <1>1, <1>15 DEF RetriesExhausted, ThrowCancel
  <2>3. \A a \in Attempts :
          /\ attempt'[a].pc = attempt[a].pc
          /\ attempt'[a].result = attempt[a].result
          /\ attempt'[a].base = attempt[a].base
          /\ attempt'[a].done = attempt[a].done
          /\ attempt'[a].ahead = attempt[a].ahead
          /\ attempt'[a].reached = attempt[a].reached
    BY <1>1, <2>2 DEF Attempt
  <2>4. AttemptsInv'
    BY <1>2, <2>1, <2>3 DEF AttemptsInv, Later
  <2>5. FinalInv'
    BY <1>2, <2>1 DEF FinalInv, Answered
  <2> QED
    BY <1>4, <2>1, <2>4, <2>5 DEF GraphInv
<1> QED
  BY <1>6, <1>7, <1>8, <1>9, <1>10, <1>12, <1>13, <1>14, <1>15
     DEF Workflow, WorkflowSteps

LEMMA GraphInvApi ==
  ASSUME TypeInv, GraphInv,
         \/ Starter
         \/ \E q \in Requests : User(q)
         \/ \E n \in WaitNodes : EmitSignal(n)
  PROVE  GraphInv'
<1> USE DEF pauseVars, waitVars, graphVars, activityVars, workflowVars
<1>1. UNCHANGED <<attempt, stage, try, final>>
  BY DEF Starter, StartWorkflow, RecordStarted, User, Ask, RequestSteps,
     CancelTemporal, SignalTemporal, SetPauseFlag, Commit, EmitSignal
<1>2. wfPc' = wfPc \/ wfPc' \in {"none", "pubStarted"}
  BY DEF Starter, StartWorkflow, RecordStarted, User, Ask, RequestSteps,
     CancelTemporal, SignalTemporal, SetPauseFlag, Commit, EmitSignal
<1>3. AttemptsInv'
  BY <1>1 DEF GraphInv, AttemptsInv, Later
<1>4. FinalInv'
  BY <1>1, <1>2 DEF GraphInv, FinalInv, Answered, Current
<1>5. CASE UNCHANGED waitVars
  BY <1>1, <1>2, <1>3, <1>4, <1>5
     DEF GraphInv, WaitsInv, ResumeNeedsEverySignal
<1>6. ASSUME NEW n \in WaitNodes, ReceiveSignal(n) PROVE WaitsInv'
  <2>1. pendingWaits \in [WaitNodes -> {"absent", "no", "yes"}]
    BY DEF TypeInv, TypeOK, WorkflowTypeOK
  <2> QED
    BY <1>1, <1>2, <1>6, <2>1, WaitsAssumption
       DEF ReceiveSignal, GraphInv, WaitsInv, ResumeNeedsEverySignal
<1>7. UNCHANGED waitVars \/ \E n \in WaitNodes : ReceiveSignal(n)
  BY DEF Starter, StartWorkflow, RecordStarted, User, Ask, RequestSteps,
     CancelTemporal, SignalTemporal, SetPauseFlag, Commit, EmitSignal
<1> QED
  BY <1>3, <1>4, <1>5, <1>6, <1>7 DEF GraphInv

LEMMA GraphInvInit == Init => GraphInv
<1> SUFFICES ASSUME Init PROVE GraphInv
  OBVIOUS
<1> USE DEF Init, ActivityInit, WorkflowInit
<1>1. AttemptsInv
  BY ConstantsAssumption DEF AttemptsInv, Idle
<1>2. FinalInv /\ WaitsInv
  BY DEF FinalInv, Answered, WaitsInv, ResumeNeedsEverySignal, NoWaits
<1> QED
  BY <1>1, <1>2 DEF GraphInv

LEMMA GraphInvStep == TypeInv /\ GraphInv /\ [Next]_vars => GraphInv'
<1> SUFFICES ASSUME TypeInv, GraphInv, [Next]_vars PROVE GraphInv'
  OBVIOUS
<1>1. CASE \E a \in Attempts : Worker(a)
  BY <1>1, GraphInvWorker
<1>2. CASE Workflow
  BY <1>2, GraphInvWorkflow
<1>3. CASE Starter \/ (\E q \in Requests : User(q))
           \/ (\E n \in WaitNodes : EmitSignal(n))
  BY <1>3, GraphInvApi
<1>4. CASE UNCHANGED vars
  BY <1>4 DEF vars, activityVars, workflowVars, GraphInv, AttemptsInv,
     FinalInv, WaitsInv, ResumeNeedsEverySignal, Later, Answered, Current
<1> QED
  BY <1>1, <1>2, <1>3, <1>4 DEF Next

\* The two inductive invariants together.
RunInv == TypeInv /\ GraphInv

LEMMA RunInvariant == Spec => []RunInv
<1>1. Init => RunInv
  BY TypeInvInit, GraphInvInit DEF RunInv
<1>2. RunInv /\ [Next]_vars => RunInv'
  BY TypeInvStep, GraphInvStep DEF RunInv
<1> QED
  BY <1>1, <1>2, PTL DEF Spec

\* Whatever graph, number of wait nodes, faults and requests: the graph is
\* executed again only after receive_signal has named every wait node the
\* first execution was suspended at.
THEOREM WaitSafety == Spec => []ResumeNeedsEverySignal
<1>1. RunInv => ResumeNeedsEverySignal
  BY DEF RunInv, GraphInv, WaitsInv
<1> QED
  BY <1>1, RunInvariant, PTL

-----------------------------------------------------------------------------
(* Pause                                                                   *)

\* An attempt that has yielded a chunk under the flag is not streaming.
PauseInv ==
  "redis" \notin Faults =>
    \A a \in Attempts :
      /\ overrun[a] <= 1
      /\ pauseFlag /\ overrun[a] # 0 => attempt[a].pc # "stream"

LEMMA PauseInvWorker ==
  ASSUME TypeInv, PauseInv, NEW a \in Attempts, Worker(a)
  PROVE  PauseInv'
<1> SUFFICES ASSUME "redis" \notin Faults PROVE PauseInv'
  BY DEF PauseInv
<1>1. /\ attempt \in [Attempts -> Attempt] /\ overrun \in [Attempts -> Nat]
      /\ pauseFlag \in BOOLEAN
  BY DEF TypeInv, TypeOK, ActivityTypeOK
<1>2. PauseRead = {pauseFlag} /\ pauseFlag' = pauseFlag
  BY DEF PauseRead, Worker, AttemptSteps, AttemptFaults, Begin, Chunk, Poll,
     Finish, NeverStarted, StreamCancelled, NodeFails, Dies
<1>3. \A b \in Attempts : b # a =>
        overrun'[b] = overrun[b] /\ attempt'[b] = attempt[b]
  BY <1>1 DEF Worker, AttemptSteps, AttemptFaults, Begin, Chunk, Poll, Finish,
     Return, NeverStarted, StreamCancelled, NodeFails, Dies
<1>4. overrun'[a] <= 1 /\ (pauseFlag /\ overrun'[a] # 0 =>
                             attempt'[a].pc # "stream")
  <2>1. CASE Chunk(a)
    <3>1. overrun'[a] = IF pauseFlag THEN overrun[a] + 1 ELSE 0
      BY <1>1, <2>1 DEF Chunk
    <3>2. pauseFlag => overrun[a] = 0
      BY <1>1, <2>1 DEF Chunk, PauseInv
    <3>3. pauseFlag => attempt'[a].pc = "held"
      BY <1>1, <1>2, <2>1 DEF Chunk, AtChunkBoundary, Attempt
    <3> QED
      BY <3>1, <3>2, <3>3
  <2>2. CASE Begin(a) \/ Poll(a)
    <3>1. pauseFlag => attempt'[a].pc # "stream"
      BY <1>1, <1>2, <2>2 DEF Begin, Poll, AtChunkBoundary, Attempt
    <3> QED
      BY <1>1, <2>2, <3>1 DEF Begin, Poll, PauseInv
  <2>3. CASE \/ Finish(a) \/ NeverStarted(a) \/ StreamCancelled(a)
             \/ NodeFails(a) \/ Dies(a)
    <3>1. attempt'[a].pc \in {"returned", "gone"}
      BY <1>1, <2>3 DEF Finish, Return, NeverStarted, StreamCancelled,
         NodeFails, Dies, Attempt
    <3> QED
      BY <1>1, <2>3, <3>1 DEF Finish, NeverStarted, StreamCancelled, NodeFails,
         Dies, PauseInv
  <2> QED
    BY <2>1, <2>2, <2>3 DEF Worker, AttemptSteps, AttemptFaults
<1> QED
  BY <1>2, <1>3, <1>4 DEF PauseInv

LEMMA PauseInvStep == TypeInv /\ PauseInv /\ [Next]_vars => PauseInv'
<1> SUFFICES ASSUME TypeInv, PauseInv, [Next]_vars PROVE PauseInv'
  OBVIOUS
<1> USE DEF pauseVars, waitVars, graphVars, activityVars, workflowVars
<1>1. /\ attempt \in [Attempts -> Attempt] /\ overrun \in [Attempts -> Nat]
      /\ StageInv
  BY DEF TypeInv, TypeOK, ActivityTypeOK
<1>2. ASSUME UNCHANGED <<pauseFlag, overrun>>,
             \A a \in Attempts :
               attempt'[a].pc \in {attempt[a].pc, "scheduled", "delivered"}
      PROVE  PauseInv'
  BY <1>2 DEF PauseInv
<1>3. CASE \E a \in Attempts : Worker(a)
  BY <1>3, PauseInvWorker
<1>4. CASE Workflow
  <2>1. UNCHANGED <<pauseFlag, overrun>>
    BY <1>4 DEF Workflow, WorkflowSteps, Publish, PublishStarted,
       PublishPaused, PublishFailed, PublishCompleted, PublishError,
       EnterPause, LeavePause, RunGraph, ExecuteGraph, GraphReturned,
       RetryGraph, RetriesExhausted, SaveRun, SaveWaiting, SaveSuccess,
       SaveFailed, SaveError, Branch, GraphFailed, GraphSuspended,
       GraphSucceeded, PublishWaiting, ResumeAfterWaits, WaitTimedOut,
       ThrowCancel
  <2>2. \A a \in Attempts :
          attempt'[a].pc \in {attempt[a].pc, "scheduled", "delivered"}
    <3>1. CASE UNCHANGED attempt
      BY <3>1
    <3>2. ASSUME NEW s, NEW base, ExecuteGraph(s, base)
          PROVE  \A a \in Attempts :
                   attempt'[a].pc \in {attempt[a].pc, "scheduled"}
      BY <1>1, <3>2 DEF ExecuteGraph, Scheduled, Idle
    <3>3. CASE RunGraph \/ ResumeAfterWaits
      BY <3>2, <3>3 DEF RunGraph, ResumeAfterWaits
    <3>4. CASE GraphReturned
      BY <1>1, <3>4 DEF GraphReturned, Attempt
    <3>5. CASE RetriesExhausted \/ ThrowCancel
      BY <1>1, <3>5 DEF RetriesExhausted, ThrowCancel, Attempt
    <3>6. CASE RetryGraph
      BY <1>1, <3>6 DEF RetryGraph, Scheduled, Idle, Attempt
    <3>7. \/ UNCHANGED attempt \/ RunGraph \/ ResumeAfterWaits
          \/ GraphReturned \/ RetriesExhausted \/ ThrowCancel \/ RetryGraph
      BY <1>4 DEF Workflow, WorkflowSteps, Publish, PublishStarted,
         PublishPaused, PublishFailed, PublishCompleted, PublishError,
         EnterPause, LeavePause, SaveRun, SaveWaiting, SaveSuccess,
         SaveFailed, SaveError, Branch, GraphFailed, GraphSuspended,
         GraphSucceeded, PublishWaiting, WaitTimedOut
    <3> QED
      BY <3>1, <3>3, <3>4, <3>5, <3>6, <3>7
  <2> QED
    BY <1>2, <2>1, <2>2
<1>5. ASSUME NEW q \in Requests, SetPauseFlag(q) PROVE PauseInv'
  <2>1. UNCHANGED attempt
    BY <1>5 DEF SetPauseFlag
  <2>2. pauseFlag' /\ ~pauseFlag => \A a \in Attempts : overrun'[a] = 0
    BY <1>5 DEF SetPauseFlag
  <2>3. ~(pauseFlag' /\ ~pauseFlag) => UNCHANGED overrun
    BY <1>5 DEF SetPauseFlag
  <2> QED
    BY <2>1, <2>2, <2>3 DEF PauseInv
<1>6. CASE Starter \/ (\E n \in WaitNodes : EmitSignal(n))
  BY <1>2, <1>6 DEF Starter, StartWorkflow, RecordStarted, EmitSignal
<1>7. ASSUME NEW q \in Requests, User(q), ~SetPauseFlag(q) PROVE PauseInv'
  BY <1>2, <1>7 DEF User, Ask, RequestSteps, CancelTemporal, SignalTemporal,
     Commit
<1>8. CASE UNCHANGED vars
  BY <1>2, <1>8 DEF vars
<1> QED
  BY <1>3, <1>4, <1>5, <1>6, <1>7, <1>8 DEF Next

\* Whatever else happens to a run, and however many of its attempts overlap,
\* no attempt yields a second chunk under the pause flag as long as the flag
\* can be read.
THEOREM PauseSafety == Spec => []PauseHaltsAtNextChunk
<1>1. Init => PauseInv
  BY DEF Init, ActivityInit, PauseInv
<1>2. PauseInv => PauseHaltsAtNextChunk
  BY DEF PauseInv, PauseHaltsAtNextChunk
<1>3. Spec => []TypeInv
  BY TypeInvInit, TypeInvStep, PTL DEF Spec
<1> QED
  BY <1>1, <1>2, <1>3, PauseInvStep, PTL DEF Spec

-----------------------------------------------------------------------------
(* The run system implements the durable run                               *)

\* Every step of the workflow is a step of the durable run, or none.
LEMMA WorkflowRefines ==
  ASSUME RunInv, RunInv', Workflow
  PROVE  [Durable!Next]_<<Phase, signalled>>
<1> USE DEF pauseVars, waitVars, graphVars, activityVars
<1>1. FinalInv /\ StageInv /\ stage \in 0 .. 2
  BY DEF RunInv, GraphInv, TypeInv, TypeOK, WorkflowTypeOK
<1>2. UNCHANGED signalled
  BY DEF Workflow, WorkflowSteps, Publish, PublishStarted,
     PublishPaused, PublishFailed, PublishCompleted, PublishError,
     EnterPause, LeavePause, RunGraph, ExecuteGraph, GraphReturned,
     RetryGraph, RetriesExhausted, SaveRun, SaveWaiting, SaveSuccess,
     SaveFailed, SaveError, Branch, GraphFailed, GraphSuspended,
     GraphSucceeded, PublishWaiting, ResumeAfterWaits, WaitTimedOut,
     ThrowCancel
<1>3. Open
  BY DEF Open, Workflow, WorkflowSteps, Publish, PublishStarted,
     PublishPaused, PublishFailed, PublishCompleted, PublishError,
     EnterPause, LeavePause, GateOpen, RunGraph, GraphReturned, AttemptLost,
     RetryGraph, RetriesExhausted, SaveRun, SaveWaiting, SaveSuccess,
     SaveFailed, SaveError, Branch, GraphFailed, GraphSuspended,
     GraphSucceeded, PublishWaiting, ResumeAfterWaits, WaitTimedOut,
     ThrowCancel, AwaitsInTry, OtherAwaits
<1>4. CASE wfPc' = "closed"
  <2>1. Phase \notin {"new", "ended"} /\ Phase' = "ended"
    BY <1>3, <1>4 DEF Phase, Open
  <2> QED
    BY <1>2, <2>1 DEF Durable!Next, Durable!End
<1>5. CASE Open' /\ UNCHANGED <<stage, final>>
  BY <1>2, <1>3, <1>5 DEF Phase, Open
<1>6. CASE RunGraph
  <2>1. stage = 0 /\ stage' = 1 /\ final = "none" /\ final' = "none" /\ Open'
    BY <1>1, <1>6 DEF RunGraph, ExecuteGraph, FinalInv, Open
  <2> QED
    BY <1>2, <1>3, <2>1 DEF Phase, Open
<1>7. CASE GraphReturned
  <2>1. /\ Open' /\ stage' = stage /\ stage \in 1 .. 2
        /\ stage = 1 => final = "none"
    BY <1>1, <1>7 DEF GraphReturned, FinalInv, StageInv, Open
  <2>2. CASE stage = 2
    BY <1>2, <1>3, <2>1, <2>2 DEF Phase, Open
  <2>3. CASE stage = 1
    <3>1. Phase = "executing" /\ Phase' \in {"executing", "suspended"}
      BY <1>3, <2>1, <2>3 DEF Phase, Open
    <3> QED
      BY <1>2, <3>1 DEF Durable!Next, Durable!Suspend
  <2> QED
    BY <2>1, <2>2, <2>3
<1>8. CASE ResumeAfterWaits
  <2>1. stage = 1 /\ final = "suspended" /\ stage' = 2 /\ Open'
    BY <1>1, <1>8 DEF ResumeAfterWaits, ExecuteGraph, FinalInv, Open
  <2>2. FirstWaits \subseteq signalled
    BY <1>2, <2>1 DEF RunInv, GraphInv, WaitsInv, ResumeNeedsEverySignal
  <2>3. Phase = "suspended" /\ Phase' = "resumed"
    BY <1>3, <2>1 DEF Phase, Open
  <2> QED
    BY <1>2, <2>2, <2>3 DEF Durable!Next, Durable!Resume
<1>9. \/ wfPc' = "closed" \/ (Open' /\ UNCHANGED <<stage, final>>)
      \/ RunGraph \/ GraphReturned \/ ResumeAfterWaits
  BY DEF Open, Workflow, WorkflowSteps, Publish, PublishStarted,
     PublishPaused, PublishFailed, PublishCompleted, PublishError,
     EnterPause, LeavePause, RetryGraph, AttemptLost, RetriesExhausted,
     SaveRun, SaveWaiting, SaveSuccess, SaveFailed, SaveError, Branch,
     GraphFailed, GraphSuspended, GraphSucceeded, PublishWaiting,
     WaitTimedOut, ThrowCancel
<1> QED
  BY <1>4, <1>5, <1>6, <1>7, <1>8, <1>9

LEMMA StepRefines ==
  RunInv /\ RunInv' /\ [Next]_vars => [Durable!Next]_<<Phase, signalled>>
<1> SUFFICES ASSUME RunInv, RunInv', [Next]_vars
             PROVE  [Durable!Next]_<<Phase, signalled>>
  OBVIOUS
<1> USE DEF pauseVars, waitVars, graphVars, activityVars, workflowVars
<1>1. ASSUME UNCHANGED <<wfPc, stage, final, signalled>>
      PROVE  UNCHANGED <<Phase, signalled>>
  BY <1>1 DEF Phase, Open
<1>2. CASE \E a \in Attempts : Worker(a)
  BY <1>1, <1>2 DEF Worker
<1>3. CASE Workflow
  BY <1>3, WorkflowRefines
<1>4. CASE StartWorkflow
  <2>1. wfPc = "none" /\ stage = 0 /\ final = "none"
    BY <1>4 DEF StartWorkflow, RunInv, TypeInv, ApiInv, StageInv
  <2>2. UNCHANGED <<stage, final, signalled>> /\ wfPc' \in {"none", "pubStarted"}
    BY <1>4, <2>1 DEF StartWorkflow
  <2>3. Phase = "new" /\ Phase' \in {"new", "executing"}
    BY <2>1, <2>2 DEF Phase, Open
  <2> QED
    BY <2>2, <2>3 DEF Durable!Next, Durable!Begin
<1>5. CASE RecordStarted \/ (\E q \in Requests : User(q)) \/ UNCHANGED vars
  BY <1>1, <1>5 DEF RecordStarted, User, Ask, RequestSteps, CancelTemporal,
     SignalTemporal, SetPauseFlag, Commit, vars
<1>6. ASSUME NEW n \in WaitNodes, EmitSignal(n)
      PROVE  [Durable!Next]_<<Phase, signalled>>
  <2>1. UNCHANGED <<wfPc, stage, final>>
    BY <1>6 DEF EmitSignal
  <2>2. Phase' = Phase
    BY <2>1 DEF Phase, Open
  <2>3. CASE UNCHANGED waitVars
    BY <2>2, <2>3
  <2>4. CASE ReceiveSignal(n)
    <3>1. Phase \notin {"new", "ended"} /\ signalled \subseteq signalled'
      BY <2>4 DEF ReceiveSignal, Phase, Open
    <3> QED
      BY <2>2, <3>1 DEF Durable!Next, Durable!Hear
  <2> QED
    BY <1>6, <2>3, <2>4 DEF EmitSignal
<1> QED
  BY <1>2, <1>3, <1>4, <1>5, <1>6 DEF Next, Starter

\* Every behaviour of the run system is one of the durable run.
THEOREM Implementation == Spec => ImplementsDurableRun
<1>1. Init => Durable!Init
  BY DEF Init, WorkflowInit, Durable!Init, Phase
<1> QED
  BY <1>1, StepRefines, RunInvariant, PTL
     DEF Spec, ImplementsDurableRun, Durable!Spec

-----------------------------------------------------------------------------
(* Success is earned                                                       *)

Earned == \E a \in Attempts : \/ attempt[a].result = "ok"
                              \/ a[1] = 2 /\ attempt[a].result = "suspended"

\* An attempt that has a result keeps it.
LEMMA ResultsKept ==
  ASSUME RunInv, [Next]_vars, NEW a \in Attempts, attempt[a].result # "none"
  PROVE  attempt'[a].result = attempt[a].result
<1> USE DEF pauseVars, waitVars, graphVars, activityVars, workflowVars
<1>1. attempt \in [Attempts -> Attempt] /\ AttemptsInv /\ FinalInv /\ StageInv
  BY DEF RunInv, TypeInv, TypeOK, ActivityTypeOK, GraphInv
<1>2. attempt[a].pc \notin {"idle", "scheduled", "stream", "held"}
      /\ ~Later(a)
  BY <1>1 DEF AttemptsInv
<1>3. ASSUME NEW b \in Attempts, Worker(b) PROVE UNCHANGED attempt[a].result
  <2>1. CASE b # a
    BY <1>1, <1>3, <2>1 DEF Worker, AttemptSteps, AttemptFaults, Begin, Chunk,
       Poll, Finish, Return, NeverStarted, StreamCancelled, NodeFails, Dies
  <2>2. CASE b = a
    BY <1>1, <1>2, <1>3, <2>2 DEF Worker, AttemptSteps, AttemptFaults, Begin,
       Chunk, Poll, Finish, NeverStarted, StreamCancelled, NodeFails, Dies,
       Attempt
  <2> QED
    BY <2>1, <2>2
<1>4. ASSUME Workflow PROVE UNCHANGED attempt[a].result
  <2>1. CASE UNCHANGED attempt
    BY <2>1
  <2>2. CASE RunGraph \/ ResumeAfterWaits
    <3>1. PICK s \in 1 .. 2 : (\E base : ExecuteGraph(s, base)) /\ s = stage + 1
      BY <1>1, <2>2 DEF RunGraph, ResumeAfterWaits, FinalInv
    <3>2. stage \in 0 .. 2
      BY DEF RunInv, TypeInv, TypeOK, WorkflowTypeOK
    <3>3. a # <<s, 1>>
      BY <1>2, <3>1, <3>2 DEF Later
    <3> QED
      BY <1>1, <3>1, <3>3 DEF ExecuteGraph
  <2>3. CASE GraphReturned \/ RetriesExhausted \/ ThrowCancel
    BY <1>1, <2>3 DEF GraphReturned, RetriesExhausted, ThrowCancel, Attempt
  <2>4. CASE RetryGraph
    <3>1. try \in 1 .. 2
      BY DEF RunInv, TypeInv, TypeOK, WorkflowTypeOK, MaximumAttempts
    <3>2. a # <<stage, try + 1>>
      BY <1>2, <3>1 DEF Later
    <3> QED
      BY <1>1, <2>4, <3>2 DEF RetryGraph, Attempt
  <2>5. \/ UNCHANGED attempt \/ RunGraph \/ ResumeAfterWaits
        \/ GraphReturned \/ RetriesExhausted \/ ThrowCancel \/ RetryGraph
    BY <1>4 DEF Workflow, WorkflowSteps, Publish, PublishStarted,
       PublishPaused, PublishFailed, PublishCompleted, PublishError,
       EnterPause, LeavePause, SaveRun, SaveWaiting, SaveSuccess,
       SaveFailed, SaveError, Branch, GraphFailed, GraphSuspended,
       GraphSucceeded, PublishWaiting, WaitTimedOut
  <2> QED
    BY <2>1, <2>2, <2>3, <2>4, <2>5
<1>5. Starter \/ (\E q \in Requests : User(q))
      \/ (\E n \in WaitNodes : EmitSignal(n)) \/ UNCHANGED vars
      => UNCHANGED attempt
  BY DEF Starter, StartWorkflow, RecordStarted, User, Ask, RequestSteps,
     CancelTemporal, SignalTemporal, SetPauseFlag, Commit, EmitSignal, vars
<1> QED
  BY <1>3, <1>4, <1>5 DEF Next

\* The workflow saves a success only for a result that earns it.
LEMMA SaveSuccessEarned == RunInv /\ wfPc = "saveSuccess" => Earned
<1> SUFFICES ASSUME RunInv, wfPc = "saveSuccess" PROVE Earned
  OBVIOUS
<1>1. FinalInv /\ StageInv
  BY DEF RunInv, GraphInv, TypeInv
<1>2. stage > 0 /\ Current \in Attempts
  BY <1>1, CurrentType DEF StageInv, RunInv, TypeInv
<1>3. final = attempt[Current].result
  BY <1>1, <1>2 DEF FinalInv, Answered
<1>4. Current[1] = stage
  BY DEF Current
<1> QED
  BY <1>1, <1>2, <1>3, <1>4 DEF FinalInv, Earned

\* A step that makes the row say "success" is the end of an attempt or the
\* save of the workflow.
LEMMA SuccessWritten ==
  ASSUME RunInv, [Next]_vars, row.status # "success", row'.status = "success"
  PROVE  wfPc = "saveSuccess"
         \/ \E a \in Attempts : attempt'[a].result = "ok"
<1> USE DEF pauseVars, waitVars, graphVars, activityVars, workflowVars
<1>1. row \in RunRow /\ attempt \in [Attempts -> Attempt]
      /\ ApiInv /\ request \in [Requests -> Request]
  BY DEF RunInv, TypeInv, TypeOK, ActivityTypeOK, ApiTypeOK
<1>2. row' # row
  OBVIOUS
<1>3. ASSUME NEW a \in Attempts, Worker(a) PROVE attempt'[a].result = "ok"
  <2>1. ASSUME NEW n PROVE PersistPartial(row, n).status # "success"
    BY <1>1 DEF PersistPartial, RunRow
  <2>2. ASSUME NEW n, NEW s PROVE PersistFinal(row, n, s).status = s
    BY <1>1 DEF PersistFinal, RunRow
  <2>3. CASE Begin(a) \/ Chunk(a)
    BY <1>2, <2>1, <2>3 DEF Begin, Chunk, TryWrite
  <2>4. CASE NodeFails(a) \/ StreamCancelled(a)
    BY <1>2, <2>2, <2>4 DEF NodeFails, StreamCancelled, PersistOnCancel, TryWrite
  <2>5. CASE Finish(a)
    <3>1. Return(a, "ok")
      BY <1>2, <2>5 DEF Finish
    <3>2. attempt' = [attempt EXCEPT ![a] =
                        [attempt[a] EXCEPT !.pc = "returned", !.result = "ok"]]
      BY <3>1 DEF Return
    <3>3. attempt[a] \in Attempt /\ a \in Attempts
      BY <1>1
    <3> QED
      BY <1>1, <3>2, <3>3 DEF Attempt
  <2>6. CASE Poll(a) \/ NeverStarted(a) \/ Dies(a)
    BY <1>2, <2>6 DEF Poll, NeverStarted, Dies
  <2> QED
    BY <1>3, <2>3, <2>4, <2>5, <2>6 DEF Worker, AttemptSteps, AttemptFaults
<1>4. ASSUME Workflow PROVE wfPc = "saveSuccess"
  <2>1. row' = Saved
    BY <1>2, <1>4 DEF Workflow, WorkflowSteps, Publish, PublishStarted,
       PublishPaused, PublishFailed, PublishCompleted, PublishError,
       EnterPause, LeavePause, RunGraph, ExecuteGraph, GraphReturned,
       RetryGraph, RetriesExhausted, SaveRun, SaveWaiting, SaveSuccess,
       SaveFailed, SaveError, Branch, GraphFailed, GraphSuspended,
       GraphSucceeded, PublishWaiting, ResumeAfterWaits, WaitTimedOut,
       ThrowCancel
  <2>2. ASSUME NEW p, NEW s \in {"waiting", "error"}
        PROVE  SaveRunResults(row, p, s).status # "success"
    BY <1>1 DEF SaveRunResults, SetStatus, PersistFinal, RunRow
  <2> QED
    BY <1>2, <2>1, <2>2 DEF Saved
<1>5. ~Starter
  <2>1. RecordWorkflow(row).status # "success"
        /\ SetStatus(row, "error").status # "success"
    BY <1>1 DEF RecordWorkflow, SetStatus, RunRow
  <2> QED
    BY <1>2, <2>1 DEF Starter, StartWorkflow, RecordStarted, CommitStatus
<1>6. ASSUME NEW q \in Requests, User(q) PROVE FALSE
  <2>1. CASE Commit(q)
    <3>1. request[q].op \in {"cancel", "pause", "resume"}
      BY <1>1, <2>1 DEF Commit, ApiInv, Request
    <3>2. NewStatus(request[q].op) # "success"
      BY <3>1 DEF NewStatus
    <3>3. SetStatus(row, NewStatus(request[q].op)).status # "success"
      BY <1>1, <3>2 DEF SetStatus, RunRow
    <3> QED
      BY <1>2, <2>1, <3>3 DEF Commit, CommitStatus
  <2> QED
    BY <1>2, <1>6, <2>1 DEF User, Ask, RequestSteps, CancelTemporal,
       SignalTemporal, SetPauseFlag
<1>7. ~(\E n \in WaitNodes : EmitSignal(n)) /\ ~UNCHANGED vars
  BY <1>2 DEF EmitSignal, vars
<1> QED
  BY <1>3, <1>4, <1>5, <1>6, <1>7 DEF Next

\* No interleaving of attempts, saves, handlers and faults reports a success
\* that no attempt has computed.
THEOREM SuccessSafety == Spec => []SuccessIsEarned
<1>1. Init => SuccessIsEarned
  BY DEF Init, ActivityInit, CreateRun, SuccessIsEarned
<1>2. RunInv /\ SuccessIsEarned /\ [Next]_vars => SuccessIsEarned'
  <2> SUFFICES ASSUME RunInv, SuccessIsEarned, [Next]_vars,
                      row'.status = "success"
               PROVE  Earned'
    BY DEF SuccessIsEarned, Earned
  <2>1. Earned => Earned'
    <3> SUFFICES ASSUME NEW a \in Attempts,
                        \/ attempt[a].result = "ok"
                        \/ a[1] = 2 /\ attempt[a].result = "suspended"
                 PROVE  Earned'
      BY DEF Earned
    <3>1. attempt'[a].result = attempt[a].result
      BY ResultsKept
    <3> QED
      BY <3>1 DEF Earned
  <2>2. CASE row.status = "success"
    BY <2>1, <2>2 DEF SuccessIsEarned, Earned
  <2>3. CASE row.status # "success"
    BY <2>1, <2>3, SuccessWritten, SaveSuccessEarned DEF Earned
  <2> QED
    BY <2>2, <2>3
<1> QED
  BY <1>1, <1>2, RunInvariant, PTL DEF Spec

-----------------------------------------------------------------------------
(* The outputs in the row                                                  *)
(*                                                                         *)
(* What a late save or a dying attempt may do to the outputs of the row    *)
(* depends on how many outputs the attempts hold: an execution that        *)
(* follows a wait starts from some, one that has returned holds some, and  *)
(* as long as the first execution is not retried its attempt holds some    *)
(* whenever the row does.                                                  *)

Live == {"scheduled", "stream", "held", "returned"}

\* What is known of the outputs one attempt holds.
Progress(a, t) ==
  /\ t.pc = "idle" => t.done = 0
  /\ t.pc = "scheduled" => t.done = t.base
  /\ t.done >= t.base
  /\ a[1] = 2 /\ t.pc # "idle" => t.base > 0
  /\ t.result \in {"ok", "suspended"} => t.done > 0

KeptInv ==
  attempt[<<1, 2>>].pc = "idle" /\ (row.outs > 0 \/ stage = 2)
    => attempt[<<1, 1>>].done > 0

OutputsInv ==
  /\ \A a \in Attempts : Progress(a, attempt[a])
  /\ stage > 0 => attempt[Current].pc # "idle"
  /\ KeptInv

\* What a step of an attempt does to it and to the row.
LEMMA WorkerEffect ==
  ASSUME RunInv, OutputsInv, NEW a \in Attempts, Worker(a)
  PROVE  /\ \A b \in Attempts : b # a => attempt'[b] = attempt[b]
         /\ attempt[a].pc \in Live
         /\ attempt'[a].pc \in {"stream", "held", "returned", "gone"}
         /\ attempt'[a].done >= attempt[a].done
         /\ Progress(a, attempt'[a])
         /\ /\ attempt'[a].pc = "returned" /\ attempt'[a].result = "ok"
            /\ "db" \notin Faults
            => row'.completed /\ row'.outs = attempt'[a].done
         /\ \/ row' = row
            \/ row' = PersistPartial(row, attempt'[a].done)
            \/ \E s \in Terminal : row' = PersistFinal(row, attempt'[a].done, s)
<1> DEFINE t == attempt[a]
           u == attempt'[a]
<1>1. /\ attempt \in [Attempts -> Attempt] /\ t \in Attempt
      /\ t.base \in Nat /\ t.done \in Nat
      /\ Supersteps \in Nat \ {0} /\ row \in RunRow
  BY ConstantsAssumption DEF RunInv, TypeInv, TypeOK, ActivityTypeOK, Attempt
<1>2. t.pc \in Live
  BY DEF Worker, AttemptSteps, AttemptFaults, Begin, Chunk, Poll, Finish,
     NeverStarted, StreamCancelled, NodeFails, Dies, Live
<1>3. Progress(a, t) /\ (t.pc \in {"scheduled", "stream", "held"} =>
                           t.result = "none")
  BY DEF OutputsInv, RunInv, GraphInv, AttemptsInv
<1>4. \A b \in Attempts : b # a => attempt'[b] = attempt[b]
  BY <1>1 DEF Worker, AttemptSteps, AttemptFaults, Begin, Chunk, Poll, Finish,
     Return, NeverStarted, StreamCancelled, NodeFails, Dies
<1> DEFINE Written ==
             \/ row' = row
             \/ row' = PersistPartial(row, u.done)
             \/ \E s \in Terminal : row' = PersistFinal(row, u.done, s)
           Kept == /\ u.base = t.base /\ u.done = t.done /\ u.result = t.result
                   /\ u.pc \in {"stream", "held", "gone"}
<1>5. ASSUME Kept PROVE u.done >= t.done /\ Progress(a, u)
  BY <1>1, <1>2, <1>3, <1>5 DEF Progress, Live
<1>6. CASE Begin(a)
  <2>1. Kept /\ t.done = t.base
    BY <1>1, <1>3, <1>6 DEF Begin, AtChunkBoundary, Attempt, Progress
  <2>2. Written
    BY <1>6, <2>1 DEF Begin, TryWrite
  <2> QED
    BY <1>2, <1>4, <1>5, <2>1, <2>2
<1>7. CASE Chunk(a)
  <2>1. PICK waits \in SUBSET t.ahead, paused \in PauseRead :
          attempt' = [attempt EXCEPT
                        ![a].pc = AtChunkBoundary(paused),
                        ![a].done = t.done + 1,
                        ![a].ahead = t.ahead \ waits,
                        ![a].reached = t.reached \cup waits]
    BY <1>7 DEF Chunk
  <2>2. /\ u.pc \in {"held", "stream"} /\ u.done = t.done + 1
        /\ u.base = t.base /\ u.result = t.result
    BY <1>1, <2>1 DEF Attempt, AtChunkBoundary
  <2>3. Written
    BY <1>7, <2>2 DEF Chunk, TryWrite
  <2>4. t.pc = "stream"
    BY <1>7 DEF Chunk
  <2>5. Progress(a, u) /\ u.done >= t.done
    BY <1>1, <1>3, <2>2, <2>4 DEF Progress
  <2> QED
    BY <1>2, <1>4, <2>2, <2>3, <2>5
<1>8. CASE Poll(a) \/ NeverStarted(a) \/ Dies(a)
  <2>1. row' = row /\ \E pc \in {"stream", "gone"} :
          attempt' = [attempt EXCEPT ![a].pc = pc]
    BY <1>8 DEF Poll, NeverStarted, Dies
  <2>2. Kept
    BY <1>1, <2>1 DEF Attempt
  <2> QED
    BY <1>2, <1>4, <1>5, <2>1, <2>2
<1>9. CASE StreamCancelled(a)
  <2>1. Kept
    BY <1>1, <1>9 DEF StreamCancelled, Attempt
  <2>2. Written
    BY <1>9, <2>1 DEF StreamCancelled, TryWrite, PersistOnCancel, Terminal
  <2> QED
    BY <1>2, <1>4, <1>5, <2>1, <2>2
<1>10. CASE NodeFails(a)
  <2>1. /\ u.base = t.base /\ u.done = t.done /\ u.result = "failed"
        /\ u.pc = "returned"
    BY <1>1, <1>10 DEF NodeFails, Return, Attempt
  <2>2. Written
    BY <1>10, <2>1 DEF NodeFails, TryWrite, Terminal
  <2>3. Progress(a, u) /\ u.done >= t.done
    BY <1>1, <1>2, <1>3, <2>1 DEF Progress, Live
  <2> QED
    BY <1>2, <1>4, <2>1, <2>2, <2>3
<1>11. CASE Finish(a)
  <2>1. /\ u.base = t.base /\ u.done = t.done
        /\ u.pc = "returned" /\ u.done > 0
    BY <1>1, <1>11 DEF Finish, Return, Attempt
  <2>2. Progress(a, u) /\ u.done >= t.done
    BY <1>1, <1>2, <1>3, <2>1 DEF Progress, Live
  <2>3. CASE t.reached # {}
    <3>1. u.result = "suspended" /\ row' = row
      BY <1>1, <1>11, <2>3 DEF Finish, Return, Attempt
    <3> QED
      BY <1>2, <1>4, <2>1, <2>2, <3>1
  <2>4. CASE t.reached = {}
    <3>1. TryWrite(PersistFinal(row, u.done, "success"))
      BY <1>11, <2>1, <2>4 DEF Finish
    <3>2. LET r == PersistFinal(row, u.done, "success")
          IN  r.completed /\ r.outs = u.done
      BY <1>1 DEF PersistFinal, RunRow
    <3> QED
      BY <1>2, <1>4, <2>1, <2>2, <3>1, <3>2 DEF TryWrite, Terminal
  <2> QED
    BY <2>3, <2>4
<1> QED
  BY <1>6, <1>7, <1>8, <1>9, <1>10, <1>11 DEF Worker, AttemptSteps, AttemptFaults

\* A step of the workflow writes what it was about to save, or nothing.
LEMMA WorkflowWrites == Workflow => row' \in {row, Saved}
BY DEF Workflow, WorkflowSteps, Publish, PublishStarted, PublishPaused,
   PublishFailed, PublishCompleted, PublishError, EnterPause, LeavePause,
   RunGraph, ExecuteGraph, GraphReturned, RetryGraph, RetriesExhausted, SaveRun,
   SaveWaiting, SaveSuccess, SaveFailed, SaveError, Branch, GraphFailed,
   GraphSuspended, GraphSucceeded, PublishWaiting, ResumeAfterWaits,
   WaitTimedOut, ThrowCancel, activityVars

\* Apart from the steps that schedule an attempt, the workflow leaves the
\* outputs the attempts hold alone.
SameOutputs ==
  /\ UNCHANGED <<stage, try>>
  /\ \A a \in Attempts :
       /\ attempt'[a].base = attempt[a].base
       /\ attempt'[a].done = attempt[a].done
       /\ attempt'[a].result = attempt[a].result
       /\ \/ attempt'[a].pc = attempt[a].pc
          \/ attempt[a].pc = "returned" /\ attempt'[a].pc = "delivered"

LEMMA WorkflowOutputs ==
  ASSUME RunInv, Workflow
  PROVE  SameOutputs \/ RunGraph \/ ResumeAfterWaits \/ RetryGraph
<1> USE DEF pauseVars, waitVars, graphVars, activityVars
<1>1. attempt \in [Attempts -> Attempt]
  BY DEF RunInv, TypeInv, TypeOK, ActivityTypeOK
<1>2. CASE UNCHANGED <<attempt, stage, try>>
  BY <1>2 DEF SameOutputs
<1>3. CASE GraphReturned
  <2>1. UNCHANGED <<stage, try>> /\ attempt[Current].pc = "returned"
    BY <1>3 DEF GraphReturned
  <2>2. attempt' = [attempt EXCEPT ![Current].pc = "delivered"]
    BY <1>3 DEF GraphReturned
  <2> QED
    BY <1>1, <2>1, <2>2 DEF SameOutputs, Attempt
<1>4. CASE RetriesExhausted \/ ThrowCancel
  <2>1. UNCHANGED <<stage, try>>
    BY <1>4 DEF RetriesExhausted, ThrowCancel
  <2>2. \/ UNCHANGED attempt
        \/ attempt' = [attempt EXCEPT ![Current].abandoned = TRUE]
    BY <1>4 DEF RetriesExhausted, ThrowCancel
  <2> QED
    BY <1>1, <2>1, <2>2 DEF SameOutputs, Attempt
<1>5. \/ UNCHANGED <<attempt, stage, try>> \/ GraphReturned
      \/ RetriesExhausted \/ ThrowCancel
      \/ RunGraph \/ ResumeAfterWaits \/ RetryGraph
  BY DEF Workflow, WorkflowSteps, Publish, PublishStarted,
     PublishPaused, PublishFailed, PublishCompleted, PublishError,
     EnterPause, LeavePause, SaveRun, SaveWaiting, SaveSuccess,
     SaveFailed, SaveError, Branch, GraphFailed, GraphSuspended,
     GraphSucceeded, PublishWaiting, WaitTimedOut
<1> QED
  BY <1>2, <1>3, <1>4, <1>5

\* As long as the first execution has made one try, that is the current one.
LEMMA FirstTry ==
  ASSUME RunInv, OutputsInv, stage = 1, attempt[<<1, 2>>].pc = "idle"
  PROVE  Current = <<1, 1>>
<1>1. try \in 1 .. 2 /\ attempt[Current].pc # "idle"
  BY DEF RunInv, TypeInv, TypeOK, WorkflowTypeOK, MaximumAttempts, OutputsInv
<1> QED
  BY <1>1 DEF Current

\* A run that is suspended, or about to be, holds the outputs of its first
\* execution.
LEMMA SuspendedHolds ==
  ASSUME RunInv, OutputsInv,
         wfPc \in {"saveWaiting", "pubWaiting", "waitSignals"}
  PROVE  /\ stage = 1 /\ Current \in Attempts
         /\ attempt[Current].done \in Nat /\ attempt[Current].done > 0
<1>1. stage = 1 /\ attempt[Current].result = "suspended"
  BY DEF RunInv, GraphInv, FinalInv, Answered
<1>2. Current \in Attempts /\ attempt \in [Attempts -> Attempt]
  BY <1>1, CurrentType DEF RunInv, TypeInv, TypeOK, ActivityTypeOK
<1> QED
  BY <1>1, <1>2 DEF OutputsInv, Progress, Attempt

\* Only the save of a suspended run puts outputs into a row without any.
LEMMA SavedOutputs ==
  ASSUME RunInv, row.outs = 0, Saved.outs > 0
  PROVE  wfPc = "saveWaiting"
<1>1. row \in RunRow
  BY DEF RunInv, TypeInv, TypeOK, ActivityTypeOK
<1>2. ASSUME NEW s \in Status, NEW b \in BOOLEAN
      PROVE  SaveRunResults(row, [outs |-> 0, runId |-> b], s).outs = 0
  BY <1>1 DEF SaveRunResults, AlreadyPersisted, PreservePartial, PersistFinal,
     SetStatus, RunRow
<1>3. {"success", "error"} \subseteq Status /\ (final # "suspended") \in BOOLEAN
  BY DEF Status
<1>4. SaveRunResults(row, [outs |-> 0, runId |-> final # "suspended"],
                     "success").outs = 0
  BY <1>2, <1>3
<1>5. SaveRunResults(row, SmallPayload, "error").outs = 0
  BY <1>2, <1>3 DEF SmallPayload
<1> QED
  BY <1>4, <1>5 DEF Saved

LEMMA OutputsWorkflow ==
  ASSUME RunInv, OutputsInv, Workflow
  PROVE  OutputsInv'
<1> USE DEF pauseVars, waitVars, graphVars
<1>1. /\ attempt \in [Attempts -> Attempt] /\ row \in RunRow
      /\ stage \in 0 .. 2 /\ try \in 1 .. 2
      /\ \A a \in Attempts : attempt[a].base \in Nat /\ attempt[a].done \in Nat
  BY DEF RunInv, TypeInv, TypeOK, ActivityTypeOK, WorkflowTypeOK,
     MaximumAttempts, Attempt
<1>2. /\ \A a \in Attempts : Progress(a, attempt[a])
      /\ stage > 0 => Current \in Attempts /\ attempt[Current].pc # "idle"
      /\ KeptInv
  BY CurrentType DEF OutputsInv, RunInv, TypeInv
<1>3. <<1, 1>> \in Attempts /\ <<1, 2>> \in Attempts
  BY DEF Attempts, MaximumAttempts
<1>4. CASE SameOutputs
  <2>1. \A a \in Attempts : Progress(a, attempt'[a])
    BY <1>2, <1>4 DEF SameOutputs, Progress
  <2>2. stage' > 0 => attempt'[Current'].pc # "idle"
    BY <1>2, <1>4 DEF SameOutputs, Current
  <2>3. ASSUME attempt'[<<1, 2>>].pc = "idle", row'.outs > 0 \/ stage' = 2
        PROVE  attempt'[<<1, 1>>].done > 0
    <3>1. /\ attempt[<<1, 2>>].pc = "idle" /\ stage' = stage
          /\ attempt'[<<1, 1>>].done = attempt[<<1, 1>>].done
      BY <1>3, <1>4, <2>3 DEF SameOutputs
    <3>2. CASE row.outs > 0 \/ stage = 2
      BY <1>2, <3>1, <3>2 DEF KeptInv
    <3>3. CASE row.outs = 0 /\ stage # 2
      <4>1. wfPc = "saveWaiting"
        BY <2>3, <3>1, <3>3, WorkflowWrites, SavedOutputs
      <4> QED
        BY <3>1, <4>1, SuspendedHolds, FirstTry
    <3> QED
      BY <1>1, <3>2, <3>3 DEF RunRow
  <2> QED
    BY <2>1, <2>2, <2>3 DEF OutputsInv, KeptInv
<1>5. ASSUME NEW p \in Attempts, NEW base \in Nat, NEW waits,
             p = Current',
             attempt'[p] = Scheduled(base, waits),
             p[1] = 2 => base > 0,
             \A a \in Attempts : a # p =>
               /\ attempt'[a].base = attempt[a].base
               /\ attempt'[a].done = attempt[a].done
               /\ attempt'[a].result = attempt[a].result
               /\ attempt'[a].pc = attempt[a].pc
      PROVE  /\ \A a \in Attempts : Progress(a, attempt'[a])
             /\ attempt'[Current'].pc # "idle"
  <2>1. Progress(p, attempt'[p]) /\ attempt'[p].pc # "idle"
    BY <1>5 DEF Progress, Scheduled, Idle
  <2>2. ASSUME NEW a \in Attempts, a # p PROVE Progress(a, attempt'[a])
    BY <1>2, <1>5, <2>2 DEF Progress
  <2> QED
    BY <1>5, <2>1, <2>2
<1>6. CASE RunGraph
  <2>1. /\ stage = 0 /\ stage' = 1 /\ try' = 1 /\ row' = row
        /\ attempt' = [attempt EXCEPT ![<<1, 1>>] = Scheduled(0, WaitsOf(1))]
    BY <1>6 DEF RunGraph, ExecuteGraph
  <2>2. attempt[<<1, 1>>].pc = "idle" /\ attempt[<<1, 2>>].pc = "idle"
    BY <1>3, <2>1 DEF RunInv, GraphInv, AttemptsInv, Later
  <2>3. row.outs = 0
    BY <1>1, <1>2, <1>3, <2>2 DEF KeptInv, Progress, RunRow
  <2>4. Current' = <<1, 1>>
    BY <2>1 DEF Current
  <2>5. /\ \A a \in Attempts : Progress(a, attempt'[a])
        /\ attempt'[Current'].pc # "idle"
    BY <1>1, <1>3, <1>5, <2>1, <2>4
  <2> QED
    BY <2>1, <2>3, <2>5 DEF OutputsInv, KeptInv
<1>7. CASE ResumeAfterWaits
  <2> DEFINE base == attempt[Current].done
  <2>1. /\ stage' = 2 /\ try' = 1 /\ row' = row /\ wfPc = "waitSignals"
        /\ attempt' = [attempt EXCEPT ![<<2, 1>>] = Scheduled(base, WaitsOf(2))]
    BY <1>7 DEF ResumeAfterWaits, ExecuteGraph
  <2>2. stage = 1 /\ Current \in Attempts /\ base \in Nat /\ base > 0
    BY <2>1, SuspendedHolds
  <2>3. Current' = <<2, 1>> /\ <<2, 1>> \in Attempts
    BY <2>1 DEF Current, Attempts, MaximumAttempts
  <2> HIDE DEF base
  <2>4. /\ \A a \in Attempts : Progress(a, attempt'[a])
        /\ attempt'[Current'].pc # "idle"
    BY <1>1, <1>5, <2>1, <2>2, <2>3
  <2>5. attempt'[<<1, 2>>].pc = "idle" => attempt'[<<1, 1>>].done > 0
    <3>1. /\ attempt'[<<1, 2>>] = attempt[<<1, 2>>]
          /\ attempt'[<<1, 1>>] = attempt[<<1, 1>>]
      BY <1>1, <1>3, <2>1
    <3> QED
      BY <2>2, <3>1, FirstTry DEF base
  <2> QED
    BY <2>4, <2>5 DEF OutputsInv, KeptInv
<1>8. ASSUME RetryGraph PROVE OutputsInv'
  <2> DEFINE base == attempt[Current].base
             p == <<stage, try + 1>>
  <2>1. /\ Current \in Attempts /\ p \in Attempts /\ Current # p
        /\ stage \in 1 .. 2
    BY <1>1, <1>8, CurrentType DEF RetryGraph, AttemptLost, RunInv, TypeInv,
       StageInv, Current, Attempts, MaximumAttempts
  <2>2. /\ stage' = stage /\ try' = try + 1 /\ row' = row
        /\ attempt'[p] = Scheduled(base, WaitsOf(stage))
        /\ attempt'[Current] = [attempt[Current] EXCEPT !.abandoned = TRUE]
        /\ \A a \in Attempts : a \notin {Current, p} => attempt'[a] = attempt[a]
    BY <1>1, <1>8, <2>1 DEF RetryGraph, AttemptLost
  <2>3. Current' = p /\ Current[1] = stage /\ p[1] = stage
    BY <2>2 DEF Current
  <2>4. base \in Nat /\ (stage = 2 => base > 0)
    BY <1>1, <1>2, <2>1, <2>3 DEF Progress
  <2>5. /\ \A a \in Attempts : Progress(a, attempt'[a])
        /\ attempt'[Current'].pc # "idle"
    <3>1. \A a \in Attempts : a # p =>
            /\ attempt'[a].base = attempt[a].base
            /\ attempt'[a].done = attempt[a].done
            /\ attempt'[a].result = attempt[a].result
            /\ attempt'[a].pc = attempt[a].pc
      BY <1>1, <2>1, <2>2 DEF Attempt
    <3> HIDE DEF base, p
    <3> QED
      BY <1>5, <2>1, <2>2, <2>3, <2>4, <3>1
  <2>6. KeptInv'
    <3>1. CASE stage = 1
      <4>1. p = <<1, 2>>
        BY <1>8, <1>1, <3>1 DEF RetryGraph, MaximumAttempts
      <4> QED
        BY <2>2, <4>1 DEF KeptInv, Scheduled, Idle
    <3>2. CASE stage = 2
      <4>1. <<1, 1>> \notin {Current, p} /\ <<1, 2>> \notin {Current, p}
        BY <3>2 DEF Current
      <4> QED
        BY <1>2, <1>3, <2>2, <3>2, <4>1 DEF KeptInv
    <3> QED
      BY <2>1, <3>1, <3>2
  <2> QED
    BY <2>5, <2>6 DEF OutputsInv
<1> QED
  BY <1>4, <1>6, <1>7, <1>8, WorkflowOutputs

\* The steps of the server and the users leave the outputs alone.
LEMMA ApiOutputs ==
  ASSUME RunInv,
         \/ Starter
         \/ \E q \in Requests : User(q)
         \/ \E n \in WaitNodes : EmitSignal(n)
         \/ UNCHANGED vars
  PROVE  /\ UNCHANGED <<attempt, stage, try, final>>
         /\ row'.outs = row.outs /\ row'.completed = row.completed
<1> USE DEF pauseVars, waitVars, graphVars, activityVars, workflowVars, vars
<1>1. row \in RunRow
  BY DEF RunInv, TypeInv, TypeOK, ActivityTypeOK
<1>2. UNCHANGED <<attempt, stage, try, final>>
  BY DEF Starter, StartWorkflow, RecordStarted, User, Ask, RequestSteps,
     CancelTemporal, SignalTemporal, SetPauseFlag, Commit, EmitSignal
<1>3. \/ row' = row \/ row' = RecordWorkflow(row)
      \/ \E s : row' = SetStatus(row, s)
  BY DEF Starter, StartWorkflow, RecordStarted, User, Ask, RequestSteps,
     CancelTemporal, SignalTemporal, SetPauseFlag, Commit, CommitStatus,
     EmitSignal
<1> QED
  BY <1>1, <1>2, <1>3 DEF RecordWorkflow, SetStatus, RunRow

LEMMA OutputsWorker ==
  ASSUME RunInv, OutputsInv, NEW a \in Attempts, Worker(a)
  PROVE  OutputsInv'
<1>1. /\ row \in RunRow /\ stage \in 0 .. 2
      /\ \A b \in Attempts : attempt[b].done \in Nat
      /\ attempt'[a].done \in Nat
  <2>1. row \in RunRow /\ attempt \in [Attempts -> Attempt] /\ stage \in 0 .. 2
    BY DEF RunInv, TypeInv, TypeOK, ActivityTypeOK, WorkflowTypeOK
  <2>2. attempt' \in [Attempts -> Attempt]
    BY WorkerType DEF RunInv, TypeInv, TypeOK, ActivityTypeOK
  <2> QED
    BY <2>1, <2>2 DEF Attempt
<1>2. UNCHANGED <<stage, try>>
  BY DEF Worker, workflowVars, graphVars
<1>3. /\ \A b \in Attempts : b # a => attempt'[b] = attempt[b]
      /\ attempt[a].pc # "idle" /\ attempt'[a].pc # "idle"
      /\ attempt'[a].done >= attempt[a].done
      /\ Progress(a, attempt'[a])
  BY WorkerEffect DEF Live
<1>4. \A b \in Attempts : Progress(b, attempt'[b])
  BY <1>3 DEF OutputsInv
<1>5. stage' > 0 => attempt'[Current'].pc # "idle"
  <2>1. stage > 0 => Current \in Attempts /\ attempt[Current].pc # "idle"
    BY CurrentType DEF OutputsInv, RunInv, TypeInv
  <2>2. Current' = Current
    BY <1>2 DEF Current
  <2> QED
    BY <1>2, <1>3, <2>1, <2>2
<1>6. ASSUME attempt'[<<1, 2>>].pc = "idle", row'.outs > 0 \/ stage' = 2
      PROVE  attempt'[<<1, 1>>].done > 0
  <2>1. <<1, 1>> \in Attempts /\ <<1, 2>> \in Attempts
    BY DEF Attempts, MaximumAttempts
  <2>2. attempt[<<1, 2>>].pc = "idle" /\ a # <<1, 2>>
    BY <1>3, <1>6, <2>1
  <2>3. attempt'[<<1, 1>>].done >= attempt[<<1, 1>>].done
    BY <1>1, <1>3, <2>1
  <2>4. CASE row.outs > 0 \/ stage = 2
    <3>1. attempt[<<1, 1>>].done > 0
      BY <2>2, <2>4 DEF OutputsInv, KeptInv
    <3> QED
      BY <1>1, <1>3, <2>1, <2>3, <3>1
  <2>5. CASE row.outs = 0 /\ stage # 2
    <3>1. row'.outs > 0 /\ row' # row
      BY <1>2, <1>6, <2>5
    <3>2. row'.outs \in {row.outs, attempt'[a].done}
      BY <1>1, WorkerEffect DEF PersistPartial, PersistFinal, RunRow
    <3>3. a = <<1, 1>>
      BY <1>1, <1>3, <2>2, <2>5, AttemptPair
         DEF RunInv, GraphInv, AttemptsInv, Later
    <3> QED
      BY <2>5, <3>1, <3>2, <3>3
  <2> QED
    BY <1>1, <2>4, <2>5 DEF RunRow
<1> QED
  BY <1>4, <1>5, <1>6 DEF OutputsInv, KeptInv

LEMMA OutputsInvStep == RunInv /\ OutputsInv /\ [Next]_vars => OutputsInv'
<1> SUFFICES ASSUME RunInv, OutputsInv, [Next]_vars PROVE OutputsInv'
  OBVIOUS
<1>1. CASE \E a \in Attempts : Worker(a)
  BY <1>1, OutputsWorker
<1>2. CASE Workflow
  BY <1>2, OutputsWorkflow
<1>3. CASE \/ Starter \/ (\E q \in Requests : User(q))
           \/ (\E n \in WaitNodes : EmitSignal(n)) \/ UNCHANGED vars
  BY <1>3, ApiOutputs DEF OutputsInv, KeptInv, Current
<1> QED
  BY <1>1, <1>2, <1>3 DEF Next

LEMMA OutputsInvInit == Init => OutputsInv
BY DEF Init, ActivityInit, WorkflowInit, OutputsInv, Progress, KeptInv, Idle,
   CreateRun, Attempts, MaximumAttempts

\* The two invariants together.
LEMMA OutputsInvariant == Spec => [](RunInv /\ OutputsInv)
BY OutputsInvInit, OutputsInvStep, RunInvariant, PTL DEF Spec

\* What an attempt that came to its end without failed writes has left.
OkInv ==
  /\ wfPc = "execute" => final # "ok"
  /\ "db" \notin Faults =>
       \A a \in Attempts : attempt[a].result = "ok" => row.completed

\* completed_at is never taken back.
LEMMA CompletedStays ==
  ASSUME RunInv, OutputsInv, [Next]_vars, row.completed
  PROVE  row'.completed
<1>1. row \in RunRow
  BY DEF RunInv, TypeInv, TypeOK, ActivityTypeOK
<1>2. ASSUME NEW a \in Attempts, Worker(a) PROVE row'.completed
  <2> DEFINE n == attempt'[a].done
  <2>1. \/ row' = row
        \/ row' = PersistPartial(row, n)
        \/ \E s : row' = PersistFinal(row, n, s)
    BY <1>2, WorkerEffect
  <2> HIDE DEF n
  <2> QED
    BY <1>1, <2>1 DEF PersistPartial, PersistFinal, RunRow
<1>3. Saved.completed
  <2>1. ASSUME NEW q, NEW s PROVE SaveRunResults(row, q, s).completed
    BY <1>1 DEF SaveRunResults, SetStatus, PersistFinal, RunRow
  <2> DEFINE saved(q, s) == SaveRunResults(row, q, s)
  <2>2. Saved = row \/ \E q, s : Saved = saved(q, s)
    BY DEF Saved
  <2> QED
    BY <2>1, <2>2
<1>4. CASE Workflow
  BY <1>3, <1>4, WorkflowWrites
<1>5. CASE \/ Starter \/ (\E q \in Requests : User(q))
           \/ (\E n \in WaitNodes : EmitSignal(n)) \/ UNCHANGED vars
  BY <1>5, ApiOutputs
<1> QED
  BY <1>2, <1>4, <1>5 DEF Next

\* An attempt gets its result when it returns.
LEMMA ResultIsReturned ==
  ASSUME RunInv, NEW a \in Attempts, Worker(a)
  PROVE  attempt'[a].pc = "returned" \/ attempt'[a].result = attempt[a].result
<1>1. attempt \in [Attempts -> Attempt]
  BY DEF RunInv, TypeInv, TypeOK, ActivityTypeOK
<1>2. CASE NodeFails(a) \/ Finish(a)
  <2>1. \E result : Return(a, result)
    BY <1>2 DEF NodeFails, Finish
  <2> QED
    BY <1>1, <2>1 DEF Return, Attempt
<1>3. CASE Begin(a) \/ Chunk(a)
  <2>1. \E pc, done, ahead, reached :
          attempt' = [attempt EXCEPT ![a].pc = pc, ![a].done = done,
                                     ![a].ahead = ahead, ![a].reached = reached]
    <3>1. CASE Begin(a)
      <4>1. PICK paused \in PauseRead :
              attempt' = [attempt EXCEPT ![a].pc = AtChunkBoundary(paused)]
        BY <3>1 DEF Begin
      <4> DEFINE t == attempt[a]
      <4>2. attempt' = [attempt EXCEPT ![a].pc = AtChunkBoundary(paused),
                          ![a].done = t.done, ![a].ahead = t.ahead,
                          ![a].reached = t.reached]
        BY <1>1, <4>1 DEF Attempt
      <4> QED
        BY <4>2
    <3>2. CASE Chunk(a)
      <4> DEFINE t == attempt[a]
      <4>1. PICK waits, paused :
              attempt' = [attempt EXCEPT
                            ![a].pc = AtChunkBoundary(paused),
                            ![a].done = t.done + 1,
                            ![a].ahead = t.ahead \ waits,
                            ![a].reached = t.reached \cup waits]
        BY <3>2 DEF Chunk
      <4> QED
        BY <4>1
    <3> QED
      BY <1>3, <3>1, <3>2
  <2> QED
    BY <1>1, <2>1 DEF Attempt
<1>4. CASE Poll(a) \/ NeverStarted(a) \/ StreamCancelled(a) \/ Dies(a)
  BY <1>1, <1>4 DEF Poll, NeverStarted, StreamCancelled, Dies, Attempt
<1> QED
  BY <1>2, <1>3, <1>4 DEF Worker, AttemptSteps, AttemptFaults

\* The workflow gives no attempt a result, and takes one from none but those
\* it schedules.
LEMMA WorkflowResults ==
  ASSUME RunInv, Workflow, NEW a \in Attempts
  PROVE  \/ attempt'[a].pc = "scheduled" /\ attempt'[a].result = "none" /\ Later(a)
         \/ /\ attempt'[a].result = attempt[a].result
            /\ \/ attempt'[a].pc = attempt[a].pc
               \/ attempt[a].pc = "returned" /\ attempt'[a].pc = "delivered"
<1>1. /\ attempt \in [Attempts -> Attempt] /\ stage \in 0 .. 2 /\ try \in 1 .. 2
      /\ FinalInv
  BY DEF RunInv, GraphInv, TypeInv, TypeOK, ActivityTypeOK, WorkflowTypeOK,
     MaximumAttempts
<1>2. CASE SameOutputs
  BY <1>2 DEF SameOutputs
<1>3. CASE RunGraph \/ ResumeAfterWaits
  <2>1. PICK s \in 1 .. 2 : (\E base : ExecuteGraph(s, base)) /\ s = stage + 1
    BY <1>1, <1>3 DEF RunGraph, ResumeAfterWaits, FinalInv
  <2>2. PICK base : ExecuteGraph(s, base)
    BY <2>1
  <2>3. CASE a = <<s, 1>>
    BY <1>1, <2>1, <2>2, <2>3 DEF ExecuteGraph, Scheduled, Idle, Later
  <2>4. CASE a # <<s, 1>>
    BY <1>1, <2>2, <2>4 DEF ExecuteGraph
  <2> QED
    BY <2>3, <2>4
<1>4. CASE RetryGraph
  <2>1. attempt' = [attempt EXCEPT
                      ![Current].abandoned = TRUE,
                      ![<<stage, try + 1>>] =
                         Scheduled(attempt[Current].base, WaitsOf(stage))]
    BY <1>4 DEF RetryGraph
  <2>2. CASE a = <<stage, try + 1>>
    BY <1>1, <2>1, <2>2 DEF Scheduled, Idle, Later
  <2>3. CASE a # <<stage, try + 1>>
    BY <1>1, <2>1, <2>3 DEF Attempt
  <2> QED
    BY <2>2, <2>3
<1> QED
  BY <1>2, <1>3, <1>4, WorkflowOutputs

LEMMA OkInvStep == RunInv /\ OutputsInv /\ OkInv /\ [Next]_vars => OkInv'
<1> SUFFICES ASSUME RunInv, OutputsInv, OkInv, [Next]_vars PROVE OkInv'
  OBVIOUS
<1>1. wfPc' = "execute" => final' # "ok"
  <2>1. CASE Workflow
    <3>1. FinalInv
      BY DEF RunInv, GraphInv
    <3> QED
      BY <2>1, <3>1 DEF OkInv, FinalInv, Workflow, WorkflowSteps, Publish,
         PublishStarted, PublishPaused, PublishFailed, PublishCompleted,
         PublishError, EnterPause, LeavePause, RunGraph, ExecuteGraph,
         GraphReturned, RetryGraph, RetriesExhausted, SaveRun, SaveWaiting,
         SaveSuccess, SaveFailed, SaveError, Branch, GraphFailed,
         GraphSuspended, GraphSucceeded, PublishWaiting, ResumeAfterWaits,
         WaitTimedOut, ThrowCancel, AwaitsInTry, graphVars
  <2>2. CASE \E a \in Attempts : Worker(a)
    BY <2>2 DEF OkInv, Worker, workflowVars, graphVars
  <2>3. CASE \/ Starter \/ (\E q \in Requests : User(q))
             \/ (\E n \in WaitNodes : EmitSignal(n)) \/ UNCHANGED vars
    BY <2>3 DEF OkInv, Starter, StartWorkflow, RecordStarted, User, Ask,
       RequestSteps, CancelTemporal, SignalTemporal, SetPauseFlag, Commit,
       EmitSignal, vars, workflowVars, graphVars
  <2> QED
    BY <2>1, <2>2, <2>3 DEF Next
<1>2. ASSUME "db" \notin Faults, NEW a \in Attempts, attempt'[a].result = "ok"
      PROVE  row'.completed
  <2>1. CASE attempt[a].result = "ok"
    BY <1>2, <2>1, CompletedStays DEF OkInv
  <2>2. CASE attempt[a].result # "ok"
    <3>1. ASSUME NEW b \in Attempts, Worker(b) PROVE row'.completed
      <4>1. b = a
        BY <1>2, <2>2, <3>1, WorkerEffect
      <4> QED
        BY <1>2, <2>2, <3>1, <4>1, WorkerEffect, ResultIsReturned
    <3>2. ~Workflow
      BY <1>2, <2>2, WorkflowResults
    <3>3. ~ (\/ Starter \/ (\E q \in Requests : User(q))
             \/ (\E n \in WaitNodes : EmitSignal(n)) \/ UNCHANGED vars)
      BY <1>2, <2>2, ApiOutputs
    <3> QED
      BY <3>1, <3>2, <3>3 DEF Next
  <2> QED
    BY <2>1, <2>2
<1> QED
  BY <1>1, <1>2 DEF OkInv

\* The invariants of the outputs together.
LEMMA OkInvariant == Spec => [](RunInv /\ OutputsInv /\ OkInv)
<1>1. Init => OkInv
  BY DEF Init, ActivityInit, WorkflowInit, OkInv, Idle
<1> QED
  BY <1>1, OkInvStep, OutputsInvariant, PTL DEF Spec

\* A step takes the last output from a row only where the code forfeits it.
LEMMA StepKeepsOutputs ==
  ASSUME RunInv, OutputsInv, OkInv, [Next]_vars,
         row.outs > 0, ~OutputsForfeited
  PROVE  row'.outs > 0
<1>1. /\ row \in RunRow /\ attempt \in [Attempts -> Attempt]
      /\ attempt[<<1, 2>>].pc = "idle"
  BY DEF RunInv, TypeInv, TypeOK, ActivityTypeOK, OutputsForfeited
<1>2. ASSUME NEW a \in Attempts, Worker(a) PROVE row'.outs > 0
  <2>1. /\ attempt[a].pc # "idle"
        /\ attempt'[a].done >= attempt[a].done
        /\ \/ row' = row
           \/ row' = PersistPartial(row, attempt'[a].done)
           \/ \E s : row' = PersistFinal(row, attempt'[a].done, s)
    BY <1>2, WorkerEffect DEF Live
  <2>2. attempt[a].done > 0
    <3>1. a = <<1, 1>> \/ a[1] = 2
      BY <1>1, <2>1, AttemptPair
    <3>2. CASE a = <<1, 1>>
      BY <1>1, <3>2 DEF OutputsInv, KeptInv
    <3>3. CASE a[1] = 2
      <4>1. attempt[a].base > 0 /\ attempt[a].done >= attempt[a].base
        BY <2>1, <3>3 DEF OutputsInv, Progress
      <4>2. attempt[a].base \in Nat /\ attempt[a].done \in Nat
        BY <1>1 DEF Attempt
      <4> QED
        BY <4>1, <4>2
    <3> QED
      BY <3>1, <3>2, <3>3
  <2>3. attempt[a].done \in Nat /\ attempt'[a].done \in Nat
    <3>1. attempt' \in [Attempts -> Attempt]
      BY <1>2, WorkerType DEF RunInv, TypeInv, TypeOK, ActivityTypeOK
    <3> QED
      BY <1>1, <3>1 DEF Attempt
  <2>4. attempt'[a].done > 0
    BY <2>1, <2>2, <2>3
  <2>5. ASSUME NEW n PROVE PersistPartial(row, n).outs = n \/ row' = row
                           \/ row' # PersistPartial(row, n)
    BY <1>1 DEF PersistPartial, RunRow
  <2>6. ASSUME NEW n, NEW s PROVE PersistFinal(row, n, s).outs = n
    BY <1>1 DEF PersistFinal, RunRow
  <2> QED
    BY <2>1, <2>4, <2>5, <2>6
<1>3. ASSUME wfPc = "saveWaiting" PROVE Saved.outs > 0
  <2>1. ASSUME NEW n \in Nat, n > 0
        PROVE  SaveRunResults(row, [outs |-> n, runId |-> TRUE],
                              "waiting").outs > 0
    BY <1>1, <2>1 DEF SaveRunResults, AlreadyPersisted, PreservePartial,
       PersistFinal, RunRow
  <2> QED
    BY <1>3, <2>1, SuspendedHolds DEF Saved
<1>4. ASSUME wfPc = "saveSuccess" PROVE Saved.outs > 0
  <2>1. /\ Current \in Attempts /\ stage \in 1 .. 2 /\ try \in 1 .. MaximumAttempts
        /\ attempt[Current].pc = "delivered" /\ final = attempt[Current].result
        /\ final = "ok" \/ (stage = 2 /\ final = "suspended")
    BY <1>4, CurrentType DEF RunInv, TypeInv, StageInv, GraphInv, FinalInv,
       Answered, TypeOK, WorkflowTypeOK
  <2>2. ~ (stage = 2 /\ final = "suspended")
    BY <2>1 DEF OutputsForfeited, Current
  <2>3. final = "ok" /\ row.completed
    BY <2>1, <2>2 DEF OutputsForfeited, OkInv
  <2>4. Saved = SaveRunResults(row, [outs |-> 0, runId |-> TRUE], "success")
    <3>1. (final # "suspended") = TRUE
      BY <2>3
    <3> QED
      BY <1>4, <3>1 DEF Saved
  <2> QED
    BY <1>1, <2>3, <2>4 DEF SaveRunResults, AlreadyPersisted, SetStatus, RunRow
<1>5. SaveRunResults(row, SmallPayload, "error").outs > 0
  BY <1>1 DEF SaveRunResults, SmallPayload, AlreadyPersisted,
     PreservePartial, SetStatus, PersistFinal, RunRow
<1>6. CASE Workflow
  BY <1>3, <1>4, <1>5, <1>6, WorkflowWrites DEF Saved
<1>7. CASE \/ Starter \/ (\E q \in Requests : User(q))
           \/ (\E n \in WaitNodes : EmitSignal(n)) \/ UNCHANGED vars
  BY <1>7, ApiOutputs
<1> QED
  BY <1>2, <1>6, <1>7 DEF Next

\* What is forfeited stays so: an attempt that was made, or has delivered its
\* result, is never made again, and a success is not executed again.
LEMMA ForfeitedStays ==
  ASSUME RunInv, OutputsInv, OkInv, [Next]_vars, OutputsForfeited
  PROVE  OutputsForfeited'
<1>1. \A a \in Attempts : Later(a) => attempt[a].pc = "idle"
  BY DEF RunInv, GraphInv, AttemptsInv
<1>2. ASSUME NEW a \in Attempts
      PROVE  /\ attempt[a].pc # "idle" => attempt'[a].pc # "idle"
             /\ attempt[a].pc = "delivered" =>
                  /\ attempt'[a].pc = "delivered"
                  /\ attempt'[a].result = attempt[a].result
  <2>1. ASSUME NEW b \in Attempts, Worker(b)
        PROVE  \/ attempt'[a] = attempt[a]
               \/ attempt[a].pc \in Live /\ attempt'[a].pc # "idle"
    BY <2>1, WorkerEffect
  <2>2. CASE Workflow
    BY <1>1, <2>2, WorkflowResults
  <2>3. CASE \/ Starter \/ (\E q \in Requests : User(q))
             \/ (\E n \in WaitNodes : EmitSignal(n)) \/ UNCHANGED vars
    BY <2>3, ApiOutputs
  <2> QED
    BY <2>1, <2>2, <2>3 DEF Next, Live
<1>3. <<1, 2>> \in Attempts /\ \A t \in 1 .. MaximumAttempts : <<2, t>> \in Attempts
  BY DEF Attempts, MaximumAttempts
<1>4. final = "ok" => final' = "ok"
  <2>1. CASE Workflow
    BY <2>1 DEF OkInv, Workflow, WorkflowSteps, Publish,
       PublishStarted, PublishPaused, PublishFailed, PublishCompleted,
       PublishError, EnterPause, LeavePause, RunGraph, ExecuteGraph,
       GraphReturned, RetryGraph, RetriesExhausted, SaveRun, SaveWaiting,
       SaveSuccess, SaveFailed, SaveError, Branch, GraphFailed,
       GraphSuspended, GraphSucceeded, PublishWaiting, ResumeAfterWaits,
       WaitTimedOut, ThrowCancel, graphVars
  <2>2. CASE \E a \in Attempts : Worker(a)
    BY <2>2 DEF Worker, workflowVars, graphVars
  <2>3. CASE \/ Starter \/ (\E q \in Requests : User(q))
             \/ (\E n \in WaitNodes : EmitSignal(n)) \/ UNCHANGED vars
    BY <2>3, ApiOutputs
  <2> QED
    BY <2>1, <2>2, <2>3 DEF Next
<1> QED
  BY <1>2, <1>3, <1>4 DEF OutputsForfeited

\* In whichever order its attempts, the saves of its workflow and the
\* handlers write the row, no step takes its last output away, unless the
\* code has forfeited them.
THEOREM OutputsAreKept == Spec => OutputsSurvive
<1>1. RunInv /\ OutputsInv /\ OkInv /\ [Next]_vars
      => [row.outs > 0 /\ ~OutputsForfeited => row'.outs > 0]_vars
  BY StepKeepsOutputs
<1> QED
  BY <1>1, OkInvariant, PTL DEF Spec, OutputsSurvive

\* The same over whole executions: a run that ever held outputs holds some
\* from then on, when it fails and when it is cancelled too, for as long as
\* the code has not forfeited them.
THEOREM OutputsNeverLost ==
  Spec => [](row.outs > 0 => [](row.outs > 0 \/ OutputsForfeited))
<1>1. RunInv /\ OutputsInv /\ OkInv /\ [Next]_vars
      /\ (row.outs > 0 \/ OutputsForfeited)
      => (row.outs > 0 \/ OutputsForfeited)'
  BY StepKeepsOutputs, ForfeitedStays
<1> QED
  BY <1>1, OkInvariant, PTL DEF Spec

-----------------------------------------------------------------------------
(* A completed run keeps the outputs of its execution                      *)
(*                                                                         *)
(* While no attempt is timed out and no write fails, the workflow is at    *)
(* the graph activity whenever an attempt can still write, or it has given *)
(* up on a success; and from the return of a successful execution on, the  *)
(* row holds its outputs.                                                  *)

Failing == wfPc \in {"saveFailed", "pubFailed", "saveError", "pubError",
                     "closed"}

OneWriter == \A a \in Attempts :
               attempt[a].pc \in Live =>
                 Failing \/ (a = Current /\ wfPc = "execute")

RowHoldsResult ==
  /\ ~Failing /\ stage > 0
  /\ attempt[Current].pc \in {"returned", "delivered"}
  /\ attempt[Current].result = "ok"
  => row.completed /\ row.outs = attempt[Current].done

CompletedInv ==
  /\ wfPc = "pubCompleted" => /\ attempt[Current].pc = "delivered"
                              /\ final = attempt[Current].result
  /\ Faults \cap {"timeout", "db"} = {} => OneWriter /\ RowHoldsResult

LEMMA CompletedWorker ==
  ASSUME RunInv, OutputsInv, CompletedInv, NEW a \in Attempts, Worker(a)
  PROVE  CompletedInv'
<1>1. UNCHANGED <<wfPc, stage, try, final>>
  BY DEF Worker, workflowVars, graphVars
<1>2. /\ \A b \in Attempts : b # a => attempt'[b] = attempt[b]
      /\ attempt[a].pc \in Live
      /\ attempt'[a].pc \in {"stream", "held", "returned", "gone"}
      /\ /\ attempt'[a].pc = "returned" /\ attempt'[a].result = "ok"
         /\ "db" \notin Faults
         => row'.completed /\ row'.outs = attempt'[a].done
  BY WorkerEffect
<1>3. stage > 0 => Current \in Attempts
  BY CurrentType DEF RunInv, TypeInv
<1>4. wfPc = "pubCompleted" => stage > 0
  BY DEF RunInv, TypeInv, StageInv
<1>5. wfPc = "pubCompleted" => /\ attempt'[Current].pc = "delivered"
                               /\ final = attempt'[Current].result
  BY <1>2, <1>3, <1>4 DEF CompletedInv, Live
<1>6. ASSUME OneWriter, RowHoldsResult, "db" \notin Faults
      PROVE  OneWriter' /\ RowHoldsResult'
  <2>1. OneWriter'
    BY <1>1, <1>2, <1>6 DEF OneWriter, Failing, Current
  <2>2. RowHoldsResult'
    <3>1. ~Failing => a = Current
      BY <1>2, <1>6 DEF OneWriter
    <3> QED
      BY <1>1, <1>2, <1>6, <3>1 DEF RowHoldsResult, Failing, Current
  <2> QED
    BY <2>1, <2>2
<1> QED
  BY <1>1, <1>5, <1>6 DEF CompletedInv, Current

LEMMA CompletedWorkflow ==
  ASSUME RunInv, OutputsInv, CompletedInv, Workflow
  PROVE  CompletedInv'
<1> USE DEF pauseVars, waitVars, graphVars, activityVars
<1>1. /\ attempt \in [Attempts -> Attempt] /\ row \in RunRow
      /\ stage \in 0 .. 2 /\ try \in 1 .. 2
      /\ FinalInv /\ StageInv
      /\ stage > 0 => Current \in Attempts
  BY CurrentType DEF RunInv, GraphInv, TypeInv, TypeOK, ActivityTypeOK,
     WorkflowTypeOK, MaximumAttempts
<1>2. CASE Failing'
  BY <1>2 DEF CompletedInv, Failing, OneWriter, RowHoldsResult
<1>3. ASSUME ~Failing' PROVE ~Failing
  BY <1>3 DEF Failing, Workflow, WorkflowSteps, Publish, PublishStarted,
     PublishPaused, PublishFailed, PublishCompleted, PublishError, EnterPause,
     LeavePause, RunGraph, GateOpen, GraphReturned, RetryGraph, AttemptLost,
     RetriesExhausted, SaveRun, SaveWaiting, SaveSuccess, SaveFailed, SaveError,
     Branch, GraphFailed, GraphSuspended, GraphSucceeded, PublishWaiting,
     ResumeAfterWaits, WaitTimedOut, ThrowCancel, AwaitsInTry, OtherAwaits
<1>4. ASSUME UNCHANGED <<row, attempt, stage, try, final>>, ~Failing,
             wfPc # "execute", wfPc' # "pubCompleted"
      PROVE  CompletedInv'
  BY <1>4 DEF CompletedInv, OneWriter, RowHoldsResult, Current
<1>5. CASE \/ PublishStarted \/ PublishPaused \/ EnterPause \/ LeavePause
           \/ GraphSuspended \/ GraphSucceeded \/ PublishWaiting
  BY <1>2, <1>3, <1>4, <1>5 DEF Publish, PublishStarted, PublishPaused,
     EnterPause, LeavePause, Branch, GateOpen, GraphSuspended, GraphSucceeded,
     PublishWaiting
<1>6. ASSUME SaveWaiting, ~Failing' PROVE CompletedInv'
  <2>1. /\ wfPc = "saveWaiting" /\ wfPc' = "pubWaiting"
        /\ UNCHANGED <<attempt, stage, try, final>>
    BY <1>6 DEF SaveWaiting, SaveRun, Failing
  <2>2. attempt[Current].result = "suspended"
    BY <1>1, <2>1 DEF FinalInv, Answered
  <2> QED
    BY <2>1, <2>2 DEF CompletedInv, OneWriter, RowHoldsResult, Current, Failing
<1>7. ASSUME SaveSuccess, ~Failing' PROVE CompletedInv'
  <2>1. /\ wfPc = "saveSuccess" /\ wfPc' = "pubCompleted" /\ row' = Saved
        /\ UNCHANGED <<attempt, stage, try, final>>
    BY <1>7 DEF SaveSuccess, SaveRun, Failing
  <2>2. /\ attempt[Current].pc = "delivered" /\ stage > 0
        /\ final = attempt[Current].result
    BY <1>1, <2>1 DEF FinalInv, Answered, StageInv
  <2>3. ASSUME OneWriter, RowHoldsResult PROVE OneWriter' /\ RowHoldsResult'
    <3>1. OneWriter'
      BY <2>1, <2>3 DEF OneWriter, Failing, Current
    <3>2. ASSUME final = "ok"
          PROVE  row'.completed /\ row'.outs = attempt[Current].done
      <4>1. row.completed /\ row.outs = attempt[Current].done
        BY <2>1, <2>2, <2>3, <3>2 DEF RowHoldsResult, Failing
      <4>2. attempt[Current].done > 0
        BY <1>1, <2>2, <3>2 DEF OutputsInv, Progress
      <4>3. Saved = SaveRunResults(row, [outs |-> 0, runId |-> TRUE], "success")
        BY <2>1, <3>2 DEF Saved
      <4>4. AlreadyPersisted(row, [outs |-> 0, runId |-> TRUE])
        BY <4>1, <4>2 DEF AlreadyPersisted
      <4>5. Saved = SetStatus(row, "success")
        BY <4>3, <4>4 DEF SaveRunResults
      <4> QED
        BY <1>1, <2>1, <4>1, <4>5 DEF SetStatus, RunRow
    <3> QED
      BY <2>1, <2>2, <3>1, <3>2 DEF RowHoldsResult, Current
  <2> QED
    BY <2>1, <2>2, <2>3 DEF CompletedInv, Current
<1>8. CASE GraphReturned
  <2>1. /\ wfPc = "execute" /\ wfPc' = "gate" /\ Current \in Attempts
        /\ attempt[Current].pc = "returned"
        /\ UNCHANGED <<row, stage, try>>
    BY <1>1, <1>8 DEF GraphReturned, StageInv
  <2>2. /\ attempt'[Current].pc = "delivered"
        /\ attempt'[Current].result = attempt[Current].result
        /\ attempt'[Current].done = attempt[Current].done
        /\ \A a \in Attempts : a # Current => attempt'[a] = attempt[a]
    BY <1>1, <1>8, <2>1 DEF GraphReturned, Attempt
  <2>3. ASSUME OneWriter, RowHoldsResult PROVE OneWriter' /\ RowHoldsResult'
    <3>1. OneWriter'
      BY <2>1, <2>2, <2>3 DEF OneWriter, Failing, Current, Live
    <3>2. RowHoldsResult'
      BY <2>1, <2>2, <2>3 DEF RowHoldsResult, Failing, Current
    <3> QED
      BY <3>1, <3>2
  <2> QED
    BY <2>1, <2>3 DEF CompletedInv
<1>9. ASSUME NEW s \in 1 .. 2, NEW base, ExecuteGraph(s, base),
             ~Failing, wfPc # "execute"
      PROVE  CompletedInv'
  <2>1. <<s, 1>> \in Attempts
    BY DEF Attempts, MaximumAttempts
  <2>2. /\ attempt'[<<s, 1>>].pc = "scheduled"
        /\ \A a \in Attempts : a # <<s, 1>> => attempt'[a] = attempt[a]
        /\ stage' = s /\ try' = 1 /\ wfPc' = "execute"
    BY <1>1, <1>9, <2>1 DEF ExecuteGraph, Scheduled, Idle
  <2> QED
    BY <1>9, <2>1, <2>2
       DEF CompletedInv, OneWriter, RowHoldsResult, Failing, Current
<1>10. CASE RunGraph \/ ResumeAfterWaits
  BY <1>2, <1>3, <1>9, <1>10 DEF RunGraph, ResumeAfterWaits, GateOpen
<1>11. ASSUME RetryGraph PROVE CompletedInv'
  <2> DEFINE p == <<stage, try + 1>>
  <2>1. /\ Current \in Attempts /\ p \in Attempts /\ Current # p
        /\ wfPc = "execute" /\ ~Failing
    BY <1>1, <1>11 DEF RetryGraph, AttemptLost, StageInv, Current, Attempts,
       MaximumAttempts, Failing
  <2>2. /\ attempt'[p].pc = "scheduled"
        /\ attempt'[Current].pc = attempt[Current].pc
        /\ \A a \in Attempts : a \notin {Current, p} => attempt'[a] = attempt[a]
        /\ stage' = stage /\ try' = try + 1 /\ wfPc' = wfPc
    <3>1. attempt' = [attempt EXCEPT
                        ![Current].abandoned = TRUE,
                        ![p] = Scheduled(attempt[Current].base, WaitsOf(stage))]
      BY <1>11 DEF RetryGraph
    <3>2. attempt'[p].pc = "scheduled"
      BY <1>1, <2>1, <3>1 DEF Scheduled, Idle
    <3>3. attempt'[Current].pc = attempt[Current].pc
      BY <1>1, <2>1, <3>1 DEF Attempt
    <3>4. \A a \in Attempts : a \notin {Current, p} => attempt'[a] = attempt[a]
      BY <1>1, <3>1
    <3> QED
      BY <1>11, <3>2, <3>3, <3>4 DEF RetryGraph
  <2>3. Current' = p
    BY <2>2 DEF Current
  <2>4. ASSUME OneWriter, "timeout" \notin Faults
        PROVE  OneWriter' /\ RowHoldsResult'
    <3>1. attempt[Current].pc = "gone"
      BY <1>11, <2>4 DEF RetryGraph, AttemptLost
    <3> QED
      BY <2>1, <2>2, <2>3, <2>4, <3>1
         DEF OneWriter, RowHoldsResult, Live, Failing
  <2> QED
    BY <2>1, <2>2, <2>4 DEF CompletedInv
<1>12. \/ Failing' \/ PublishStarted \/ PublishPaused \/ EnterPause
       \/ LeavePause \/ GraphSuspended \/ GraphSucceeded \/ PublishWaiting
       \/ (SaveWaiting /\ ~Failing') \/ (SaveSuccess /\ ~Failing')
       \/ GraphReturned \/ RunGraph \/ ResumeAfterWaits \/ RetryGraph
  BY DEF Workflow, WorkflowSteps, Publish, PublishFailed, PublishCompleted,
     PublishError, RetriesExhausted, SaveRun, SaveFailed, SaveError, Branch,
     GraphFailed, WaitTimedOut, ThrowCancel, Failing
<1> QED
  BY <1>2, <1>5, <1>6, <1>7, <1>8, <1>10, <1>11, <1>12

\* As long as Temporal times no attempt out and the database takes the
\* writes, a run that is published as completed has the outputs its
\* execution computed: the save of the small payload recognises the row.
THEOREM CompletedKeeps == Spec => []CompletedKeepsOutputs
<1>1. Init => CompletedInv
  BY DEF Init, ActivityInit, WorkflowInit, CompletedInv, OneWriter,
     RowHoldsResult, Idle, Live
<1>2. RunInv /\ OutputsInv /\ CompletedInv /\ [Next]_vars => CompletedInv'
  <2> SUFFICES ASSUME RunInv, OutputsInv, CompletedInv, [Next]_vars
               PROVE  CompletedInv'
    OBVIOUS
  <2>1. CASE \E a \in Attempts : Worker(a)
    BY <2>1, CompletedWorker
  <2>2. CASE Workflow
    BY <2>2, CompletedWorkflow
  <2>3. CASE \/ Starter \/ (\E q \in Requests : User(q))
             \/ (\E n \in WaitNodes : EmitSignal(n)) \/ UNCHANGED vars
    <3>1. /\ UNCHANGED <<attempt, stage, try, final>>
          /\ row'.outs = row.outs /\ row'.completed = row.completed
      BY <2>3, ApiOutputs
    <3>2. \/ wfPc' = wfPc
          \/ wfPc = "none" /\ wfPc' \in {"none", "pubStarted"}
      BY <2>3 DEF Starter, StartWorkflow, RecordStarted, User, Ask,
         RequestSteps, CancelTemporal, SignalTemporal, SetPauseFlag, Commit,
         EmitSignal, vars, workflowVars, RunInv, TypeInv, ApiInv
    <3> QED
      BY <3>1, <3>2 DEF CompletedInv, OneWriter, RowHoldsResult, Failing,
         Current
  <2> QED
    BY <2>1, <2>2, <2>3 DEF Next
<1>3. RunInv /\ CompletedInv => CompletedKeepsOutputs
  BY DEF RunInv, TypeInv, StageInv, CompletedInv, RowHoldsResult, Failing,
     CompletedKeepsOutputs
<1> QED
  BY <1>1, <1>2, <1>3, OutputsInvariant, PTL DEF Spec

-----------------------------------------------------------------------------
(* No run is left without a final status                                   *)
(*                                                                         *)
(* A workflow closes after a save, and then the row is final, or because a *)
(* cancellation was thrown into it, and then the handler that asked for it *)
(* has committed "cancelled" or is about to.                               *)

\* A step of an attempt leaves the status or makes it final.
LEMMA WorkerStatus ==
  ASSUME RunInv, OutputsInv, NEW a \in Attempts, Worker(a)
  PROVE  row'.tid = row.tid /\ row'.status \in {row.status} \cup Terminal
<1> DEFINE n == attempt'[a].done
<1>1. row \in RunRow
  BY DEF RunInv, TypeInv, TypeOK, ActivityTypeOK
<1>2. \/ row' = row
      \/ row' = PersistPartial(row, n)
      \/ \E s \in Terminal : row' = PersistFinal(row, n, s)
  BY WorkerEffect
<1> HIDE DEF n
<1> QED
  BY <1>1, <1>2 DEF PersistPartial, PersistFinal, RunRow

\* Workers and workflows write "waiting" or a final status, never "running",
\* "paused" or "queued", and never the workflow id.
LEMMA StatusWrites ==
  ASSUME RunInv, OutputsInv, Workflow \/ \E a \in Attempts : Worker(a)
  PROVE  /\ row'.tid = row.tid
         /\ row'.status \in {row.status, "waiting"} \cup Terminal
         /\ row.status \in Terminal /\ row'.status = "waiting" =>
              wfPc = "saveWaiting"
<1>1. row \in RunRow
  BY DEF RunInv, TypeInv, TypeOK, ActivityTypeOK
<1>2. ASSUME NEW a \in Attempts, Worker(a)
      PROVE  row'.tid = row.tid /\ row'.status \in {row.status} \cup Terminal
  BY <1>2, WorkerStatus
<1>3. ASSUME row' = Saved
      PROVE  /\ row'.tid = row.tid
             /\ row'.status \in {row.status, "waiting"} \cup Terminal
             /\ row.status \in Terminal /\ row'.status = "waiting" =>
                  wfPc = "saveWaiting"
  <2>1. ASSUME NEW p, NEW s \in {"waiting", "success", "error"}
        PROVE  LET r == SaveRunResults(row, p, s)
               IN  /\ r.tid = row.tid
                   /\ r.status \in {s} \cup Terminal
                   /\ r.status = "waiting" => s = "waiting"
    BY <1>1 DEF SaveRunResults, PreservePartial, SetStatus, PersistFinal,
       RunRow, Terminal
  <2> DEFINE saved(p, s) == SaveRunResults(row, p, s)
  <2>2. \/ Saved = row
        \/ wfPc = "saveWaiting" /\ (\E p : Saved = saved(p, "waiting"))
        \/ \E p : Saved = saved(p, "success") \/ Saved = saved(p, "error")
    BY DEF Saved
  <2> QED
    BY <1>3, <2>1, <2>2 DEF Terminal
<1>4. Workflow => row' \in {row, Saved}
  BY WorkflowWrites
<1> QED
  BY <1>2, <1>3, <1>4 DEF Terminal

\* The saves that are not of a suspended run make the row final.
LEMMA SavedIsFinal ==
  ASSUME RunInv, wfPc \in {"saveSuccess", "saveFailed", "saveError"}
  PROVE  Saved.status \in Terminal
<1>1. row \in RunRow
  BY DEF RunInv, TypeInv, TypeOK, ActivityTypeOK
<1>2. ASSUME NEW p, NEW s \in {"success", "error"}
      PROVE  SaveRunResults(row, p, s).status \in Terminal
  BY <1>1 DEF SaveRunResults, PreservePartial, SetStatus, PersistFinal,
     RunRow, Terminal
<1> DEFINE saved(p, s) == SaveRunResults(row, p, s)
<1>3. \E p : Saved = saved(p, "success") \/ Saved = saved(p, "error")
  BY DEF Saved
<1> QED
  BY <1>2, <1>3

\* A handler works on a status its operation allows.
SeenInv == \A q \in Requests :
             request[q].pc # "idle" =>
               /\ request[q].op \in {"cancel", "pause", "resume"}
               /\ request[q].seen \in Allowed(request[q].op)

\* cancel_run has been through to Temporal, or had no workflow to cancel.
Cancelling(q) == request[q].op = "cancel" /\ request[q].pc \in {"flag", "commit"}

EndInv ==
  ~clobbered /\ "db" \notin Faults =>
    /\ wfPc \in {"pubFailed", "pubCompleted", "pubError"} =>
         row.status \in Terminal
    /\ wfPc = "closed" \/ cancelReq = "asked" =>
         row.status \in Terminal \/ \E q \in Requests : Cancelling(q)

\* What a step of a user does to the requests: one is asked, or moves on.
LEMMA UserRequests ==
  ASSUME RunInv, NEW q \in Requests, User(q)
  PROVE  /\ \A p \in Requests : p # q => request'[p] = request[p]
         /\ \/ /\ request[q].pc = "idle"
               /\ \E op \in RequestOps :
                    /\ Ask(q, op)
                    /\ request'[q] = [op |-> op,
                                      pc |-> IF row.tid THEN "temporal"
                                                        ELSE "flag",
                                      seen |-> row.status]
            \/ /\ RequestSteps(q)
               /\ request[q].pc # "idle" /\ request'[q].pc # "idle"
               /\ request'[q].op = request[q].op
               /\ request'[q].seen = request[q].seen
<1>1. request \in [Requests -> Request]
  BY DEF RunInv, TypeInv, TypeOK, ApiTypeOK
<1>2. ASSUME NEW op \in RequestOps, Ask(q, op)
      PROVE  /\ \A p \in Requests : p # q => request'[p] = request[p]
             /\ request[q].pc = "idle"
             /\ request'[q] = [op |-> op,
                               pc |-> IF row.tid THEN "temporal" ELSE "flag",
                               seen |-> row.status]
  BY <1>1, <1>2 DEF Ask
<1>3. ASSUME RequestSteps(q)
      PROVE  /\ \A p \in Requests : p # q => request'[p] = request[p]
             /\ request[q].pc # "idle" /\ request'[q].pc # "idle"
             /\ request'[q].op = request[q].op
             /\ request'[q].seen = request[q].seen
  <2>1. \E pc \in {"flag", "commit", "done"} : Goto(q, pc)
    BY <1>3 DEF RequestSteps, CancelTemporal, SignalTemporal, SetPauseFlag,
       Commit
  <2>2. request[q].pc # "idle"
    BY <1>3 DEF RequestSteps, CancelTemporal, SignalTemporal, SetPauseFlag,
       Commit
  <2> QED
    BY <1>1, <2>1, <2>2 DEF Goto, Request
<1> QED
  BY <1>2, <1>3 DEF User

LEMMA SeenInvStep == RunInv /\ SeenInv /\ [Next]_vars => SeenInv'
<1> SUFFICES ASSUME RunInv, SeenInv, [Next]_vars PROVE SeenInv'
  OBVIOUS
<1> USE DEF activityVars, workflowVars, apiVars, vars
<1>1. ASSUME UNCHANGED request PROVE SeenInv'
  BY <1>1 DEF SeenInv, Allowed
<1>2. ASSUME NEW q \in Requests, User(q) PROVE SeenInv'
  <2>1. CASE \E op \in RequestOps : Ask(q, op)
    <3>1. PICK op \in RequestOps : Ask(q, op)
      BY <2>1
    <3>3. request'[q].op = op /\ request'[q].seen = row.status
      <4>1. request \in [Requests -> Request]
        BY DEF RunInv, TypeInv, TypeOK, ApiTypeOK
      <4> QED
        BY <3>1, <4>1 DEF Ask
    <3>2. row.status \in Allowed(op) /\ op \in {"cancel", "pause", "resume"}
      BY <3>1, RequestsAssumption DEF Ask
    <3> QED
      BY <1>2, <3>2, <3>3, UserRequests DEF SeenInv, Allowed
  <2>2. CASE RequestSteps(q)
    <3>1. /\ request[q].pc # "idle"
          /\ request'[q].op = request[q].op
          /\ request'[q].seen = request[q].seen
      BY <1>2, <2>2, UserRequests DEF RequestSteps, CancelTemporal,
         SignalTemporal, SetPauseFlag, Commit, Ask
    <3> QED
      BY <1>2, <3>1, UserRequests DEF SeenInv, Allowed
  <2> QED
    BY <1>2, <2>1, <2>2 DEF User
<1>3. CASE \/ \E a \in Attempts : Worker(a)
           \/ Workflow \/ Starter \/ UNCHANGED vars
           \/ \E n \in WaitNodes : EmitSignal(n)
  BY <1>1, <1>3 DEF Worker, Workflow, Starter, StartWorkflow, RecordStarted,
     EmitSignal
<1> QED
  BY <1>2, <1>3 DEF Next

LEMMA EndInvWorkflow ==
  ASSUME RunInv, OutputsInv, EndInv, Workflow, "db" \notin Faults, ~clobbered
  PROVE  EndInv'
<1> USE DEF pauseVars, waitVars, graphVars, activityVars
<1>1. UNCHANGED <<request, clobbered>>
  BY DEF Workflow, apiVars, observed
<1>2. \A q \in Requests : Cancelling(q)' = Cancelling(q)
  BY <1>1 DEF Cancelling
<1>3. ASSUME wfPc' \in {"pubFailed", "pubCompleted", "pubError"}
      PROVE  row'.status \in Terminal
  <2>1. wfPc \in {"saveSuccess", "saveFailed", "saveError"} /\ row' = Saved
    BY <1>3 DEF Workflow, WorkflowSteps, Publish, PublishStarted, PublishPaused,
       PublishFailed, PublishCompleted, PublishError, EnterPause, LeavePause,
       RunGraph, ExecuteGraph, GraphReturned, RetryGraph, AttemptLost,
       RetriesExhausted, SaveRun, SaveWaiting, SaveSuccess, SaveFailed,
       SaveError, Branch, GraphFailed, GraphSuspended, GraphSucceeded,
       PublishWaiting, ResumeAfterWaits, WaitTimedOut, ThrowCancel
  <2> QED
    BY <2>1, SavedIsFinal
<1>4. ASSUME wfPc' = "closed"
      PROVE  row'.status \in Terminal \/ \E q \in Requests : Cancelling(q)
  <2>1. CASE PublishFailed \/ PublishCompleted \/ PublishError
    BY <2>1 DEF EndInv, Publish, PublishFailed, PublishCompleted, PublishError
  <2>2. CASE ThrowCancel
    <3>1. /\ cancelReq = "asked" /\ wfPc \in OtherAwaits
          /\ row' = row \/ row' = Saved
      BY <1>4, <2>2 DEF ThrowCancel
    <3>2. CASE row' = row
      BY <3>1, <3>2 DEF EndInv
    <3>3. CASE row' # row
      <4>1. wfPc = "saveError" /\ row' = Saved
        BY <3>1, <3>3 DEF Saved, OtherAwaits
      <4> QED
        BY <4>1, SavedIsFinal
    <3> QED
      BY <3>2, <3>3
  <2>3. PublishFailed \/ PublishCompleted \/ PublishError \/ ThrowCancel
    BY <1>4 DEF Workflow, WorkflowSteps, Publish, PublishStarted, PublishPaused,
       EnterPause, LeavePause, RunGraph, ExecuteGraph, GraphReturned,
       RetryGraph, AttemptLost, RetriesExhausted, SaveRun, SaveWaiting,
       SaveSuccess, SaveFailed, SaveError, Branch, GraphFailed, GraphSuspended,
       GraphSucceeded, PublishWaiting, ResumeAfterWaits, WaitTimedOut
  <2> QED
    BY <2>1, <2>2, <2>3
<1>5. ASSUME cancelReq' = "asked"
      PROVE  cancelReq = "asked" /\ row' = row
  BY <1>5 DEF Workflow, WorkflowSteps, NotCancelled, Publish, PublishStarted,
     PublishPaused, PublishFailed, PublishCompleted, PublishError, EnterPause,
     LeavePause, RunGraph, ExecuteGraph, GraphReturned, RetryGraph,
     RetriesExhausted, SaveRun, SaveWaiting, SaveSuccess, SaveFailed, SaveError,
     Branch, GraphFailed, GraphSuspended, GraphSucceeded, PublishWaiting,
     ResumeAfterWaits, WaitTimedOut, ThrowCancel
<1>6. cancelReq' = "asked" =>
        row'.status \in Terminal \/ \E q \in Requests : Cancelling(q)
  BY <1>5 DEF EndInv
<1> QED
  BY <1>2, <1>3, <1>4, <1>6 DEF EndInv

LEMMA EndInvApi ==
  ASSUME RunInv, SeenInv, EndInv, "db" \notin Faults,
         \/ Starter
         \/ \E q \in Requests : User(q)
         \/ \E n \in WaitNodes : EmitSignal(n)
         \/ UNCHANGED vars,
         ~clobbered'
  PROVE  EndInv'
<1> USE DEF pauseVars, waitVars, graphVars, activityVars, workflowVars,
        apiVars, observed, vars
<1>1. row \in RunRow /\ request \in [Requests -> Request] /\ clobbered \in BOOLEAN
  BY DEF RunInv, TypeInv, TypeOK, ActivityTypeOK, ApiTypeOK
<1>2. \A q \in Requests : (Cancelling(q)' <=> /\ request'[q].op = "cancel"
                                              /\ request'[q].pc \in {"flag", "commit"})
  BY DEF Cancelling
<1>3. CASE StartWorkflow
  <2>1. /\ UNCHANGED <<row, request, clobbered, cancelReq>>
        /\ wfPc' \in {"none", "pubStarted"}
    BY <1>3 DEF StartWorkflow, RunInv, TypeInv, ApiInv
  <2> QED
    BY <1>2, <2>1 DEF EndInv, Cancelling
<1>4. CASE RecordStarted
  <2>1. /\ UNCHANGED <<wfPc, cancelReq, request>>
        /\ row.status = "queued" /\ ~clobbered
    BY <1>4 DEF RecordStarted, CommitStatus
  <2> QED
    BY <1>2, <2>1 DEF EndInv, Terminal, Cancelling
<1>5. ASSUME NEW q \in Requests, User(q), ~Commit(q) PROVE EndInv'
  <2>1. UNCHANGED <<row, wfPc, clobbered>>
    BY <1>5 DEF User, Ask, RequestSteps, CancelTemporal, SignalTemporal,
       SetPauseFlag
  <2>2. \A p \in Requests : Cancelling(p) => Cancelling(p)'
    <3> SUFFICES ASSUME NEW p \in Requests, Cancelling(p) PROVE Cancelling(p)'
      OBVIOUS
    <3>1. CASE p # q
      BY <1>2, <1>5, <3>1, UserRequests DEF Cancelling
    <3>2. CASE p = q
      <4>1. SetPauseFlag(q)
        BY <1>5, <3>2 DEF User, Ask, RequestSteps, CancelTemporal,
           SignalTemporal, Cancelling
      <4> QED
        BY <1>1, <1>2, <3>2, <4>1 DEF SetPauseFlag, Goto, Cancelling
    <3> QED
      BY <3>1, <3>2
  <2>3. ASSUME cancelReq' = "asked", cancelReq # "asked"
        PROVE  Cancelling(q)'
    <3>1. CancelTemporal(q)
      BY <1>5, <2>3 DEF User, Ask, RequestSteps, SignalTemporal, SetPauseFlag
    <3> QED
      BY <1>1, <1>2, <3>1 DEF CancelTemporal, Goto
  <2> QED
    BY <2>1, <2>2, <2>3 DEF EndInv
<1>6. ASSUME NEW q \in Requests, Commit(q) PROVE EndInv'
  <2>1. /\ row' = SetStatus(row, NewStatus(request[q].op))
        /\ row.status = request[q].seen /\ ~clobbered
        /\ UNCHANGED <<wfPc, cancelReq>> /\ request[q].pc = "commit"
    BY <1>6 DEF Commit, CommitStatus
  <2>2. /\ request[q].op \in {"cancel", "pause", "resume"}
        /\ request[q].seen \in Allowed(request[q].op)
    BY <2>1 DEF SeenInv
  <2>3. row.status \notin Terminal
    BY <2>1, <2>2 DEF Allowed, Terminal
  <2>4. request[q].op = "cancel" => row'.status \in Terminal
    BY <1>1, <2>1 DEF SetStatus, NewStatus, Terminal, RunRow
  <2>5. \A p \in Requests : p # q /\ Cancelling(p) => Cancelling(p)'
    BY <1>1, <1>2, <1>6 DEF Commit, Goto, Cancelling
  <2> QED
    BY <2>1, <2>3, <2>4, <2>5 DEF EndInv, Cancelling
<1>7. CASE (\E n \in WaitNodes : EmitSignal(n)) \/ UNCHANGED vars
  <2>1. UNCHANGED <<row, wfPc, cancelReq, request, clobbered>>
    BY <1>7 DEF EmitSignal
  <2> QED
    BY <1>2, <2>1 DEF EndInv, Cancelling
<1> QED
  BY <1>3, <1>4, <1>5, <1>6, <1>7 DEF Starter

\* Nothing leaves a run "queued", "running", "paused" or "waiting" with
\* nobody to work on it, however many users pause, resume and cancel it: the
\* only ways are a handler that overwrites a status it had not read, and a
\* write the database refuses.
THEOREM NoStuckRuns == Spec => []NoStuckRun
<1>1. Init => SeenInv /\ EndInv
  BY DEF Init, ApiInit, WorkflowInit, SeenInv, EndInv
<1>2. RunInv /\ OutputsInv /\ SeenInv /\ EndInv /\ [Next]_vars => EndInv'
  <2> SUFFICES ASSUME RunInv, OutputsInv, SeenInv, EndInv, [Next]_vars,
                      "db" \notin Faults, ~clobbered'
               PROVE  EndInv'
    BY DEF EndInv
  <2>1. ASSUME NEW a \in Attempts, Worker(a) PROVE EndInv'
    <3>1. UNCHANGED <<wfPc, cancelReq, request, clobbered>>
      BY <2>1 DEF Worker, workflowVars, apiVars, observed
    <3>2. row.status \in Terminal => row'.status \in Terminal
      BY <2>1, WorkerStatus
    <3> QED
      BY <3>1, <3>2 DEF EndInv, Cancelling
  <2>2. CASE Workflow
    <3>1. ~clobbered
      BY <2>2 DEF Workflow, apiVars, observed
    <3> QED
      BY <2>2, <3>1, EndInvWorkflow
  <2>3. CASE \/ Starter \/ (\E q \in Requests : User(q))
             \/ (\E n \in WaitNodes : EmitSignal(n)) \/ UNCHANGED vars
    BY <2>3, EndInvApi
  <2> QED
    BY <2>1, <2>2, <2>3 DEF Next
<1>3. EndInv => NoStuckRun
  BY DEF EndInv, NoStuckRun, Quiet, InFlight, Cancelling
<1> QED
  BY <1>1, <1>2, <1>3, OutputsInvariant, SeenInvStep, PTL DEF Spec

-----------------------------------------------------------------------------
(* A held run does not claim to be running                                 *)
(*                                                                         *)
(* The row says "running" between a resume and the next pause.  Between    *)
(* the signal of a handler and its commit the workflow and the row are     *)
(* apart; what must be kept then is that the signal the commit stands for  *)
(* is still there to be acted on.                                          *)

\* The handler has been past Temporal and has not committed.
Acting(q) == request[q].pc \in {"flag", "commit"}
NobodyActs == ~ \E q \in Requests : Acting(q)

\* The workflow does not stop for a pause, or has the resume that ends it.
Released == /\ pauseReq => resumeReq /\ ~isPaused
            /\ isPaused => resumeReq

\* No handler has acted on an outdated row, and no two act now.
Calm == /\ ~clobbered /\ ~hurried
        /\ Faults \cap {"db", "redis"} = {}
        /\ \A p, q \in Requests : Acting(p) /\ Acting(q) => p = q

\* The signals reach a workflow only once the row holds its id.
SignalsInv ==
  /\ wfPc \in {"pubPaused", "held"} => isPaused
  /\ row.tid <=> starter = "recorded"
  /\ ~row.tid => /\ ~pauseReq /\ ~resumeReq /\ ~isPaused
                 /\ \A q \in Requests : request[q].pc # "temporal"
  /\ starter = "recorded" => row.status # "queued"

PausesAreNew ==
  \A q \in Requests :
    InFlight(q) /\ request[q].op = "pause" => row.status # "paused"

\* Before the workflow's id is recorded.
NewRun == row.status = "queued" /\ NobodyActs => ~pauseFlag

\* ... and after.
RunningReleased ==
  row.status = "running" /\ NobodyActs => Released /\ ~pauseFlag
PauseAnswered ==
  row.status \in {"running", "paused"} => (isPaused /\ pauseReq => resumeReq)
ResumeReleases ==
  row.status = "paused" =>
    \A q \in Requests : Acting(q) /\ request[q].op = "resume" =>
      Released /\ (request[q].pc = "commit" => ~pauseFlag)

AgreeInv == /\ PausesAreNew
            /\ starter # "recorded" => NewRun
            /\ starter = "recorded" =>
                 RunningReleased /\ PauseAnswered /\ ResumeReleases

HoldInv == SignalsInv /\ (Calm => AgreeInv)

\* What the workflow does to its pause variables.
LEMMA WorkflowPauses ==
  ASSUME Workflow
  PROVE  /\ UNCHANGED <<pauseFlag, apiVars>>
         /\ \/ EnterPause \/ LeavePause
            \/ /\ UNCHANGED pauseVars
               /\ wfPc' \in {"pubPaused", "held"} => wfPc \in {"pubPaused", "held"}
<1> USE DEF activityVars
<1>1. UNCHANGED apiVars
  BY DEF Workflow
<1>2. CASE EnterPause \/ LeavePause
  BY <1>1, <1>2 DEF EnterPause, LeavePause
<1>3. CASE RunGraph \/ GraphReturned \/ RetryGraph \/ RetriesExhausted
           \/ ResumeAfterWaits \/ PublishWaiting \/ WaitTimedOut
  BY <1>1, <1>3 DEF RunGraph, ExecuteGraph, GraphReturned, RetryGraph,
     RetriesExhausted, ResumeAfterWaits, PublishWaiting, WaitTimedOut
<1>4. CASE SaveWaiting \/ SaveSuccess \/ SaveFailed \/ SaveError
  BY <1>1, <1>4 DEF SaveRun, SaveWaiting, SaveSuccess, SaveFailed, SaveError
<1>5. CASE GraphFailed \/ GraphSuspended \/ GraphSucceeded
  BY <1>1, <1>5 DEF Branch, GraphFailed, GraphSuspended, GraphSucceeded
<1>6. CASE \/ PublishStarted \/ PublishPaused \/ PublishFailed
           \/ PublishCompleted \/ PublishError
  BY <1>1, <1>6 DEF Publish, PublishStarted, PublishPaused, PublishFailed,
     PublishCompleted, PublishError
<1>7. CASE ThrowCancel
  BY <1>1, <1>7 DEF ThrowCancel
<1> QED
  BY <1>2, <1>3, <1>4, <1>5, <1>6, <1>7 DEF Workflow, WorkflowSteps

\* What a step of an attempt, of the workflow or of a wait node leaves to the
\* handlers: all they look at but the status, and that only for the better.
LEMMA HoldInvRun ==
  ASSUME RunInv, OutputsInv, HoldInv,
         \/ \E a \in Attempts : Worker(a)
         \/ Workflow
         \/ \E n \in WaitNodes : EmitSignal(n)
         \/ UNCHANGED vars
  PROVE  HoldInv'
<1> USE DEF pauseVars, waitVars, graphVars, activityVars, workflowVars,
        apiVars, observed, vars
<1>1. UNCHANGED <<starter, request, clobbered, hurried, pauseFlag>>
  <2>1. ASSUME NEW a \in Attempts, Worker(a) PROVE UNCHANGED <<apiVars, pauseFlag>>
    BY <2>1 DEF Worker, AttemptSteps, AttemptFaults, Begin, Chunk, Poll,
       Finish, NeverStarted, StreamCancelled, NodeFails, Dies
  <2> QED
    BY <2>1, WorkflowPauses DEF EmitSignal
<1>2. /\ row'.tid = row.tid
      /\ row'.status = row.status \/ row'.status \notin {"queued", "running", "paused"}
  BY StatusWrites DEF EmitSignal, Terminal
<1>3. \/ EnterPause \/ LeavePause
      \/ /\ UNCHANGED pauseVars
         /\ wfPc' \in {"pubPaused", "held"} => wfPc \in {"pubPaused", "held"}
  BY WorkflowPauses DEF Worker, EmitSignal
<1>4. /\ \A q \in Requests : /\ Acting(q)' <=> Acting(q)
                             /\ InFlight(q)' <=> InFlight(q)
      /\ NobodyActs' <=> NobodyActs
      /\ Calm' => Calm
  BY <1>1 DEF Acting, NobodyActs, InFlight, Calm
<1>5. SignalsInv'
  <2>1. CASE EnterPause
    BY <1>1, <1>2, <2>1 DEF EnterPause, SignalsInv, HoldInv
  <2>2. CASE LeavePause
    BY <1>1, <1>2, <2>2 DEF LeavePause, SignalsInv, HoldInv
  <2>3. CASE /\ UNCHANGED pauseVars
             /\ wfPc' \in {"pubPaused", "held"} => wfPc \in {"pubPaused", "held"}
    BY <1>1, <1>2, <2>3 DEF SignalsInv, HoldInv
  <2> QED
    BY <1>3, <2>1, <2>2, <2>3
<1>6. ASSUME Calm PROVE AgreeInv'
  <2>1. Released => Released'
    <3>1. CASE EnterPause
      BY <3>1 DEF EnterPause, Released
    <3>2. CASE LeavePause
      BY <3>2 DEF LeavePause, Released, HoldInv, SignalsInv
    <3>3. CASE UNCHANGED pauseVars
      BY <3>3 DEF Released
    <3> QED
      BY <1>3, <3>1, <3>2, <3>3
  <2>2. (isPaused' /\ pauseReq' => resumeReq') \/ UNCHANGED pauseVars
    BY <1>3 DEF EnterPause, LeavePause
  <2>3. AgreeInv
    BY <1>6 DEF HoldInv
  <2>4. PausesAreNew'
    BY <1>1, <1>2, <1>4, <2>3 DEF AgreeInv, PausesAreNew
  <2>5. starter' # "recorded" => NewRun'
    BY <1>1, <1>2, <1>4, <2>3 DEF AgreeInv, NewRun
  <2>6. starter' = "recorded" => RunningReleased'
    BY <1>1, <1>2, <1>4, <2>1, <2>3 DEF AgreeInv, RunningReleased
  <2>7. starter' = "recorded" => PauseAnswered'
    BY <1>1, <1>2, <2>2, <2>3 DEF AgreeInv, PauseAnswered
  <2>8. starter' = "recorded" => ResumeReleases'
    BY <1>1, <1>2, <1>4, <2>1, <2>3 DEF AgreeInv, ResumeReleases
  <2> QED
    BY <2>4, <2>5, <2>6, <2>7, <2>8 DEF AgreeInv
<1> QED
  BY <1>4, <1>5, <1>6 DEF HoldInv

\* The task that starts the workflow.
LEMMA HoldInvStarter ==
  ASSUME RunInv, HoldInv, Starter
  PROVE  HoldInv'
<1> USE DEF pauseVars, waitVars, graphVars, activityVars, workflowVars,
        apiVars, observed
<1>1. row \in RunRow
  BY DEF RunInv, TypeInv, TypeOK, ActivityTypeOK
<1>2. UNCHANGED <<request, hurried, pauseFlag, pauseVars>>
  BY DEF Starter, StartWorkflow, RecordStarted
<1>3. \A q \in Requests : (Acting(q)' <=> Acting(q)) /\ (InFlight(q)' <=> InFlight(q))
  BY <1>2 DEF Acting, InFlight
<1>4. NobodyActs' <=> NobodyActs
  BY <1>3 DEF NobodyActs
<1>5. CASE StartWorkflow
  <2>1. /\ UNCHANGED <<row, clobbered>> /\ wfPc' \in {"none", "pubStarted"}
        /\ starter # "recorded" /\ starter' # "recorded"
    BY <1>5 DEF StartWorkflow, RunInv, TypeInv, ApiInv
  <2>2. SignalsInv'
    BY <1>2, <2>1 DEF HoldInv, SignalsInv
  <2>3. Calm' => Calm
    BY <1>2, <1>3, <2>1 DEF Calm
  <2>4. AgreeInv => AgreeInv'
    BY <1>2, <1>3, <1>4, <2>1 DEF AgreeInv, PausesAreNew, NewRun
  <2> QED
    BY <2>2, <2>3, <2>4 DEF HoldInv
<1>6. CASE /\ starter = "started" /\ starter' = "recorded" /\ wfPc' = wfPc
           /\ CommitStatus("queued", RecordWorkflow(row))
  <2>1. row'.tid /\ row'.status = "running"
    BY <1>1, <1>6 DEF CommitStatus, RecordWorkflow, RunRow
  <2>2. ~pauseReq /\ ~resumeReq /\ ~isPaused
    BY <1>6 DEF HoldInv, SignalsInv
  <2>3. SignalsInv'
    BY <1>2, <1>6, <2>1 DEF HoldInv, SignalsInv
  <2>4. ASSUME Calm' PROVE AgreeInv'
    <3>1. Calm /\ row.status = "queued"
      BY <1>2, <1>3, <1>6, <2>4, <1>1 DEF Calm, CommitStatus, RunInv, TypeInv,
         TypeOK, ApiTypeOK
    <3>2. NobodyActs => ~pauseFlag
      BY <1>6, <3>1 DEF HoldInv, AgreeInv, NewRun
    <3> QED
      BY <1>2, <1>4, <1>6, <2>1, <2>2, <3>2 DEF AgreeInv, PausesAreNew, NewRun,
         RunningReleased, PauseAnswered, ResumeReleases, Released
  <2> QED
    BY <2>3, <2>4 DEF HoldInv
<1>7. CASE /\ starter # "recorded" /\ starter' # "recorded" /\ wfPc' = wfPc
           /\ \/ CommitStatus("queued", SetStatus(row, "error"))
              \/ "db" \in Faults /\ UNCHANGED <<row, clobbered>>
  <2>1. row'.tid = row.tid /\ (Calm' => Calm /\ row'.status = "error")
    BY <1>1, <1>2, <1>3, <1>7 DEF Calm, CommitStatus, SetStatus, RunRow, RunInv,
       TypeInv, TypeOK, ApiTypeOK
  <2>2. SignalsInv'
    BY <1>2, <1>7, <2>1 DEF HoldInv, SignalsInv
  <2>3. Calm' => AgreeInv'
    BY <1>7, <2>1 DEF AgreeInv, PausesAreNew, NewRun
  <2> QED
    BY <2>2, <2>3 DEF HoldInv
<1> QED
  BY <1>5, <1>6, <1>7 DEF Starter, RecordStarted

\* A handler reads the row: it has yet to signal the workflow, if there is one.
LEMMA HoldInvAsk ==
  ASSUME RunInv, HoldInv, NEW q \in Requests, NEW op \in RequestOps, Ask(q, op)
  PROVE  HoldInv'
<1> USE DEF pauseVars, workflowVars, activityVars, observed
<1>1. request \in [Requests -> Request]
  BY DEF RunInv, TypeInv, TypeOK, ApiTypeOK
<1>2. UNCHANGED <<starter, clobbered, hurried, row, pauseFlag, wfPc, pauseVars>>
  BY DEF Ask
<1>3. /\ request[q].pc = "idle" /\ row.status \in Allowed(op)
      /\ request'[q].op = op
      /\ request'[q].pc = IF row.tid THEN "temporal" ELSE "flag"
      /\ \A p \in Requests : p # q => request'[p] = request[p]
  BY <1>1 DEF Ask
<1>4. \A p \in Requests : Acting(p) => Acting(p)'
  BY <1>3 DEF Acting
<1>5. Calm' => Calm
  BY <1>2, <1>4 DEF Calm
<1>6. SignalsInv'
  BY <1>2, <1>3 DEF HoldInv, SignalsInv
<1>7. ASSUME AgreeInv PROVE AgreeInv'
  <2>1. PausesAreNew'
    BY <1>2, <1>3, <1>7 DEF AgreeInv, PausesAreNew, InFlight, Allowed
  <2>2. CASE row.tid
    <3>1. \A p \in Requests : Acting(p)' <=> Acting(p)
      BY <1>3, <2>2 DEF Acting
    <3>2. \A p \in Requests : Acting(p) => request'[p] = request[p]
      BY <1>3 DEF Acting
    <3>3. starter = "recorded"
      BY <2>2 DEF HoldInv, SignalsInv
    <3> QED
      BY <1>2, <1>7, <2>1, <3>1, <3>2, <3>3 DEF AgreeInv, RunningReleased,
         PauseAnswered, ResumeReleases, NobodyActs, Released
  <2>3. CASE ~row.tid
    <3>1. ~NobodyActs'
      BY <1>3, <2>3 DEF NobodyActs, Acting
    <3>2. starter # "recorded"
      BY <2>3 DEF HoldInv, SignalsInv
    <3> QED
      BY <1>2, <2>1, <3>1, <3>2 DEF AgreeInv, NewRun
  <2> QED
    BY <2>2, <2>3
<1> QED
  BY <1>5, <1>6, <1>7 DEF HoldInv

\* A handler calls Temporal.
LEMMA HoldInvTemporal ==
  ASSUME RunInv, HoldInv, NEW q \in Requests,
         CancelTemporal(q) \/ SignalTemporal(q)
  PROVE  HoldInv'
<1> USE DEF activityVars
<1>1. request \in [Requests -> Request] /\ hurried \in BOOLEAN
  BY DEF RunInv, TypeInv, TypeOK, ApiTypeOK
<1>2. UNCHANGED <<starter, clobbered, row, pauseFlag, wfPc, isPaused>>
  BY DEF CancelTemporal, SignalTemporal, PauseSignal, ResumeSignal, pauseVars,
     observed
<1>3. /\ request[q].pc = "temporal" /\ request'[q].op = request[q].op
      /\ request'[q].pc \in {"flag", "done"}
      /\ \A p \in Requests : p # q => request'[p] = request[p]
  BY <1>1 DEF CancelTemporal, SignalTemporal, Goto, Request
<1>4. /\ \A p \in Requests : /\ Acting(p) => Acting(p)' /\ p # q
                             /\ InFlight(p)' => InFlight(p)
                             /\ request'[p].op = request[p].op
      /\ hurried => hurried'
  BY <1>1, <1>3 DEF Acting, InFlight, CancelTemporal, SignalTemporal, observed
<1>5. Calm' => Calm
  BY <1>2, <1>4 DEF Calm
<1>6. row.tid /\ starter = "recorded"
  BY <1>3 DEF HoldInv, SignalsInv
<1>7. SignalsInv'
  BY <1>2, <1>6 DEF HoldInv, SignalsInv
<1>8. ASSUME Calm', AgreeInv PROVE AgreeInv'
  <2>1. PausesAreNew'
    BY <1>2, <1>4, <1>8 DEF AgreeInv, PausesAreNew
  <2>2. CASE request'[q].pc = "flag"
    <3>1. Acting(q)' /\ ~NobodyActs' /\ NobodyActs
      BY <1>4, <1>8, <2>2 DEF Calm, Acting, NobodyActs
    <3>2. \A p \in Requests : Acting(p)' => p = q
      BY <1>8, <3>1 DEF Calm
    <3>3. RunningReleased'
      BY <3>1 DEF RunningReleased
    <3>4. CASE CancelTemporal(q)
      <4>1. UNCHANGED <<pauseReq, resumeReq>> /\ request[q].op = "cancel"
        BY <3>4 DEF CancelTemporal, pauseVars
      <4>2. PauseAnswered' /\ ResumeReleases'
        BY <1>2, <1>3, <1>6, <1>8, <3>2, <4>1 DEF AgreeInv, PauseAnswered,
           ResumeReleases
      <4> QED
        BY <1>2, <1>6, <2>1, <3>3, <4>2 DEF AgreeInv
    <3>5. CASE request[q].op = "pause" /\ PauseSignal
      <4>1. row.status # "paused"
        BY <1>3, <1>8, <3>5 DEF AgreeInv, PausesAreNew, InFlight
      <4>2. PauseAnswered'
        BY <1>2, <1>6, <1>8, <3>1, <3>5, <4>1 DEF AgreeInv, PauseAnswered,
           RunningReleased, Released, PauseSignal
      <4>3. ResumeReleases'
        BY <1>2, <4>1 DEF ResumeReleases
      <4> QED
        BY <1>2, <1>6, <2>1, <3>3, <4>2, <4>3 DEF AgreeInv
    <3>6. CASE request[q].op = "resume" /\ ResumeSignal /\ ~(isPaused /\ resumeReq)
      <4>1. row.status = "paused" => Released'
        BY <1>6, <1>8, <3>6 DEF AgreeInv, PauseAnswered, Released, ResumeSignal
      <4>2. PauseAnswered'
        BY <3>6 DEF PauseAnswered, ResumeSignal
      <4>3. ResumeReleases'
        BY <1>2, <2>2, <3>2, <4>1 DEF ResumeReleases
      <4> QED
        BY <1>2, <1>6, <2>1, <3>3, <4>2, <4>3 DEF AgreeInv
    <3>7. \/ CancelTemporal(q)
          \/ request[q].op = "pause" /\ PauseSignal
          \/ request[q].op = "resume" /\ ResumeSignal /\ ~(isPaused /\ resumeReq)
      BY <1>1, <1>8, <2>2 DEF SignalTemporal, Goto, Calm, Request
    <3> QED
      BY <3>4, <3>5, <3>6, <3>7
  <2>3. CASE request'[q].pc = "done"
    <3>1. UNCHANGED <<pauseReq, resumeReq>>
      BY <1>1, <1>3, <2>3 DEF CancelTemporal, SignalTemporal, Goto, Request,
         pauseVars
    <3>2. \A p \in Requests : /\ Acting(p)' <=> Acting(p)
                              /\ Acting(p) => request'[p] = request[p]
      BY <1>3, <2>3 DEF Acting
    <3>3. NobodyActs' <=> NobodyActs
      BY <3>2 DEF NobodyActs
    <3> QED
      BY <1>2, <1>6, <1>8, <2>1, <3>1, <3>2, <3>3 DEF AgreeInv,
         RunningReleased, PauseAnswered, ResumeReleases, Released
  <2> QED
    BY <1>3, <2>2, <2>3
<1> QED
  BY <1>5, <1>7, <1>8 DEF HoldInv

\* A handler writes the pause flag, alone.
LEMMA HoldInvFlag ==
  ASSUME RunInv, HoldInv, NEW q \in Requests, SetPauseFlag(q)
  PROVE  HoldInv'
<1> USE DEF pauseVars, workflowVars, observed
<1>1. request \in [Requests -> Request]
  BY DEF RunInv, TypeInv, TypeOK, ApiTypeOK
<1>2. UNCHANGED <<starter, clobbered, hurried, row, wfPc, pauseVars>>
  BY DEF SetPauseFlag
<1>3. /\ request[q].pc = "flag" /\ request'[q].op = request[q].op
      /\ request'[q].pc = "commit"
      /\ \A p \in Requests : p # q => request'[p] = request[p]
  BY <1>1 DEF SetPauseFlag, Goto, Request
<1>4. /\ \A p \in Requests : /\ Acting(p)' <=> Acting(p)
                             /\ InFlight(p)' <=> InFlight(p)
                             /\ request'[p].op = request[p].op
      /\ Acting(q)
  BY <1>3 DEF Acting, InFlight
<1>5. Calm' => Calm
  BY <1>2, <1>4 DEF Calm
<1>6. SignalsInv'
  BY <1>2, <1>3 DEF HoldInv, SignalsInv
<1>7. ASSUME Calm', AgreeInv PROVE AgreeInv'
  <2>1. ~NobodyActs' /\ \A p \in Requests : Acting(p)' => p = q
    BY <1>4, <1>7 DEF Calm, NobodyActs
  <2>2. request[q].op = "resume" => ~pauseFlag'
    BY <1>7 DEF SetPauseFlag, Calm
  <2>3. Released' <=> Released
    BY <1>2 DEF Released
  <2>4. PausesAreNew' /\ NewRun' /\ RunningReleased'
    BY <1>2, <1>4, <1>7, <2>1 DEF AgreeInv, PausesAreNew, NewRun,
       RunningReleased
  <2>5. starter' = "recorded" => PauseAnswered'
    BY <1>2, <1>7 DEF AgreeInv, PauseAnswered
  <2>6. starter' = "recorded" => ResumeReleases'
    BY <1>2, <1>4, <1>7, <2>1, <2>2, <2>3 DEF AgreeInv, ResumeReleases
  <2> QED
    BY <2>4, <2>5, <2>6 DEF AgreeInv
<1> QED
  BY <1>5, <1>6, <1>7 DEF HoldInv

\* A handler commits the status its signal stands for.
LEMMA HoldInvCommit ==
  ASSUME RunInv, SeenInv, HoldInv, NEW q \in Requests, Commit(q)
  PROVE  HoldInv'
<1> USE DEF pauseVars, workflowVars, observed
<1>1. /\ request \in [Requests -> Request] /\ row \in RunRow
      /\ clobbered \in BOOLEAN /\ hurried \in BOOLEAN
  BY DEF RunInv, TypeInv, TypeOK, ActivityTypeOK, ApiTypeOK
<1>2. /\ UNCHANGED <<starter, pauseFlag, wfPc, pauseVars>>
      /\ request[q].pc = "commit" /\ request'[q].pc = "done"
      /\ \A p \in Requests : p # q => request'[p] = request[p]
  BY <1>1 DEF Commit, Goto
<1>3. /\ request[q].op \in {"cancel", "pause", "resume"}
      /\ request[q].seen \in Allowed(request[q].op)
  BY <1>2 DEF SeenInv
<1>4. /\ row'.tid = row.tid
      /\ \/ row'.status = NewStatus(request[q].op)
         \/ "db" \in Faults /\ row' = row
  BY <1>1 DEF Commit, CommitStatus, SetStatus, RunRow
<1>5. SignalsInv'
  BY <1>2, <1>3, <1>4 DEF HoldInv, SignalsInv, NewStatus
<1>6. ASSUME Calm' PROVE AgreeInv'
  <2>1. /\ ~clobbered /\ ~hurried /\ row.status = request[q].seen
        /\ row'.status = NewStatus(request[q].op)
        /\ ~ \E p \in Requests \ {q} : InFlight(p)
    BY <1>1, <1>4, <1>6 DEF Commit, CommitStatus, Calm
  <2>2. Calm
    BY <1>6, <2>1 DEF Calm, Acting, InFlight
  <2>3. /\ AgreeInv /\ Acting(q)
    BY <1>2, <2>2 DEF HoldInv, Acting
  <2>4. \A p \in Requests : ~InFlight(p)' /\ ~Acting(p)'
    BY <1>2, <2>1 DEF InFlight, Acting
  <2>5. PausesAreNew' /\ NewRun' /\ ResumeReleases'
    BY <1>3, <2>1, <2>4 DEF PausesAreNew, NewRun, ResumeReleases, NewStatus
  <2>6. CASE starter # "recorded"
    BY <1>2, <2>5, <2>6 DEF AgreeInv
  <2>7. CASE starter = "recorded" /\ request[q].op = "resume"
    <3>1. Released /\ ~pauseFlag
      BY <1>2, <1>3, <2>1, <2>3, <2>7 DEF AgreeInv, ResumeReleases, Allowed
    <3> QED
      BY <1>2, <2>5, <3>1 DEF AgreeInv, Released, RunningReleased, PauseAnswered
  <2>8. CASE starter = "recorded" /\ request[q].op = "pause"
    <3>1. row.status = "running"
      BY <1>3, <2>1, <2>8 DEF HoldInv, SignalsInv, Allowed
    <3>2. row'.status = "paused"
      BY <2>1, <2>8 DEF NewStatus
    <3> QED
      BY <1>2, <2>3, <2>5, <2>8, <3>1, <3>2 DEF AgreeInv, RunningReleased,
         PauseAnswered
  <2>9. CASE starter = "recorded" /\ request[q].op = "cancel"
    BY <1>2, <2>1, <2>5, <2>9 DEF AgreeInv, RunningReleased, PauseAnswered,
       NewStatus
  <2> QED
    BY <1>3, <2>6, <2>7, <2>8, <2>9
<1> QED
  BY <1>5, <1>6 DEF HoldInv

LEMMA HoldInvStep ==
  RunInv /\ OutputsInv /\ SeenInv /\ HoldInv /\ [Next]_vars => HoldInv'
<1> SUFFICES ASSUME RunInv, OutputsInv, SeenInv, HoldInv, [Next]_vars
             PROVE  HoldInv'
  OBVIOUS
<1>1. ASSUME NEW q \in Requests, User(q) PROVE HoldInv'
  BY <1>1, HoldInvAsk, HoldInvTemporal, HoldInvFlag, HoldInvCommit
     DEF User, RequestSteps
<1> QED
  BY <1>1, HoldInvRun, HoldInvStarter DEF Next

\* However the users pause and resume a run, a run that is held does not
\* claim to be running, as long as their requests do not overlap and no two
\* resumes are merged: the workflow is either not held or has the resume.
THEOREM HeldRuns == Spec => []HeldRunNotRunning
<1>1. Init => HoldInv
  BY DEF Init, ActivityInit, WorkflowInit, ApiInit, CreateRun, HoldInv,
     SignalsInv, AgreeInv, PausesAreNew, NewRun, InFlight
<1>2. RunInv /\ HoldInv => HeldRunNotRunning
  <2> SUFFICES ASSUME HoldInv, starter = "recorded", ~clobbered, ~hurried,
                      Faults \cap {"db", "redis"} = {},
                      \A q \in Requests : ~InFlight(q),
                      \/ wfPc = "held" /\ ~resumeReq
                      \/ pauseFlag,
                      row.status = "running"
               PROVE  FALSE
    BY DEF HeldRunNotRunning
  <2>1. NobodyActs /\ Calm
    BY DEF NobodyActs, Calm, Acting, InFlight
  <2>2. Released /\ ~pauseFlag
    BY <2>1 DEF HoldInv, AgreeInv, RunningReleased
  <2> QED
    BY <2>2 DEF Released, HoldInv, SignalsInv
<1>3. Init => SeenInv
  BY DEF Init, ApiInit, SeenInv
<1> QED
  BY <1>1, <1>2, <1>3, OutputsInvariant, SeenInvStep, HoldInvStep, PTL DEF Spec
=============================================================================
