---------------------------- MODULE GraphExecutor ----------------------------
(***************************************************************************)
(* GraphExecutorWorkflow, the Temporal workflow that runs one graph, with  *)
(* what the Temporal server does for it: it hands it signals, a            *)
(* cancellation and the results of its activities, and it retries the      *)
(* graph activity.                                                         *)
(*                                                                         *)
(* wfPc names the await the workflow is at.  Between two awaits the        *)
(* workflow runs without interruption, so a step is the code from one      *)
(* await to the next.  "gate" is the test at the top of _wait_if_paused.   *)
(* stage is the number of times the graph has been handed to the activity; *)
(* attempt <<stage, try>> is the one the workflow awaits.                  *)
(***************************************************************************)
EXTENDS GraphActivity

CONSTANTS FirstWaits,  \* wait nodes the first execution of the graph reaches
          LaterWaits,  \* wait nodes downstream of those
          WaitTimeouts \* the wait nodes have a timeout

ASSUME WaitsAssumption ==
  /\ FirstWaits \subseteq WaitNodes
  /\ LaterWaits \subseteq WaitNodes
  /\ FirstWaits \cap LaterWaits = {}
  /\ FirstWaits = {} => LaterWaits = {}
  /\ WaitTimeouts \in BOOLEAN

VARIABLES wfPc,         \* the await the workflow is at
          isPaused,     \* self._is_paused
          pauseReq,     \* self._pause_requested
          resumeReq,    \* self._resume_requested
          pendingWaits, \* self._pending_waits, "absent" where it has no key
          stage,        \* executions of the graph so far
          try,          \* tries of the current execution
          final,        \* what final_state holds
          cancelReq,    \* cancellation requested / thrown into the workflow
          signalled     \* observation: wait nodes receive_signal named

workflowVars == <<wfPc, isPaused, pauseReq, resumeReq, pendingWaits, stage,
                  try, final, cancelReq, signalled>>

WfPc == {"none", "pubStarted", "gate", "pubPaused", "held", "pubRunning",
         "execute", "saveWaiting", "pubWaiting", "waitSignals",
         "saveFailed", "pubFailed", "saveSuccess", "pubCompleted",
         "saveError", "pubError", "closed"}

WorkflowTypeOK ==
  /\ wfPc \in WfPc
  /\ isPaused \in BOOLEAN /\ pauseReq \in BOOLEAN /\ resumeReq \in BOOLEAN
  /\ pendingWaits \in [WaitNodes -> {"absent", "no", "yes"}]
  /\ stage \in 0 .. 2
  /\ try \in 1 .. MaximumAttempts
  /\ final \in Results
  /\ cancelReq \in {"no", "asked", "thrown"}
  /\ signalled \subseteq WaitNodes

NoWaits == [n \in WaitNodes |-> "absent"]

WorkflowInit ==
  /\ wfPc = "none"
  /\ isPaused = FALSE /\ pauseReq = FALSE /\ resumeReq = FALSE
  /\ pendingWaits = NoWaits
  /\ stage = 0
  /\ try = 1
  /\ final = "none"
  /\ cancelReq = "no"
  /\ signalled = {}

\* A requested cancellation goes first; "gate" is no await, so none can come
\* in there.
NotCancelled == cancelReq # "asked" \/ wfPc = "gate"

Open == wfPc \notin {"none", "closed"}
Current == <<stage, try>>
WaitsOf(s) == IF s = 1 THEN FirstWaits ELSE LaterWaits

\* The parts of the workflow that most steps leave alone.
pauseVars == <<isPaused, pauseReq, resumeReq>>
waitVars == <<pendingWaits, signalled>>
graphVars == <<stage, try, final>>

-----------------------------------------------------------------------------
(* Signals.  Temporal accepts them as long as the workflow is open.        *)

PauseSignal == Open /\ pauseReq' = TRUE /\ UNCHANGED <<isPaused, resumeReq>>
ResumeSignal == Open /\ resumeReq' = TRUE /\ UNCHANGED <<isPaused, pauseReq>>

ReceiveSignal(n) ==
  /\ Open
  /\ pendingWaits' = [pendingWaits EXCEPT ![n] = "yes"]
  /\ signalled' = signalled \cup {n}

-----------------------------------------------------------------------------
(* Steps that only move the workflow to its next await.                    *)

Publish(from, to) ==
  /\ wfPc = from
  /\ wfPc' = to
  /\ UNCHANGED <<pauseVars, waitVars, graphVars, cancelReq, activityVars>>

PublishStarted == Publish("pubStarted", "gate")
PublishFailed == Publish("pubFailed", "closed")
PublishCompleted == Publish("pubCompleted", "closed")
PublishError == Publish("pubError", "closed")

-----------------------------------------------------------------------------
(* _wait_if_paused                                                         *)

EnterPause ==
  /\ wfPc = "gate"
  /\ isPaused \/ pauseReq
  /\ isPaused' = TRUE
  /\ pauseReq' = FALSE
  /\ wfPc' = "pubPaused"
  /\ UNCHANGED <<resumeReq, waitVars, graphVars, cancelReq, activityVars>>

PublishPaused == Publish("pubPaused", "held")

\* wait_condition(_resume_requested), without a timeout.
LeavePause ==
  /\ wfPc = "held"
  /\ resumeReq
  /\ isPaused' = FALSE
  /\ resumeReq' = FALSE
  /\ wfPc' = "pubRunning"
  /\ UNCHANGED <<pauseReq, waitVars, graphVars, cancelReq, activityVars>>

\* The workflow gets past _wait_if_paused: it found no request, or it has
\* been resumed.  It does not look at the request again after resuming.
GateOpen == \/ wfPc = "gate" /\ ~isPaused /\ ~pauseReq
            \/ wfPc = "pubRunning"

-----------------------------------------------------------------------------
(* The graph activity.                                                     *)

\* execute_activity("execute_graph_activity"), with the outputs of `base'
\* nodes in the initial state.
ExecuteGraph(s, base) ==
  /\ stage' = s
  /\ try' = 1
  /\ wfPc' = "execute"
  /\ attempt' = [attempt EXCEPT ![<<s, 1>>] = Scheduled(base, WaitsOf(s))]
  /\ UNCHANGED <<row, pauseFlag, armed, overrun>>

RunGraph ==
  /\ GateOpen
  /\ stage = 0
  /\ ExecuteGraph(1, 0)
  /\ UNCHANGED <<pauseVars, waitVars, final, cancelReq>>

GraphReturned ==
  /\ wfPc = "execute"
  /\ attempt[Current].pc = "returned"
  /\ attempt' = [attempt EXCEPT ![Current].pc = "delivered"]
  /\ final' = attempt[Current].result
  /\ wfPc' = "gate"
  /\ UNCHANGED <<row, pauseFlag, armed, overrun, pauseVars, waitVars, stage,
                 try, cancelReq>>

\* Temporal has lost the attempt, or gives it up though it is still running.
AttemptLost ==
  /\ wfPc = "execute"
  /\ \/ attempt[Current].pc = "gone"
     \/ "timeout" \in Faults
        /\ attempt[Current].pc \in {"stream", "held", "returned"}

\* Mutant: the retry policy has no maximum.
RetryForever ==
  /\ AttemptLost
  /\ try' = try + 1
  /\ attempt' = [attempt EXCEPT
                   ![Current].abandoned = TRUE,
                   ![<<stage, try + 1>>] =
                      Scheduled(attempt[Current].base, WaitsOf(stage))]
  /\ UNCHANGED <<row, pauseFlag, armed, overrun, wfPc, pauseVars, waitVars,
                 stage, final, cancelReq>>

\* The retry starts from the activity's arguments, not from the snapshot.
RetryGraph ==
  /\ AttemptLost
  /\ try < MaximumAttempts
  /\ try' = try + 1
  /\ attempt' = [attempt EXCEPT
                   ![Current].abandoned = TRUE,
                   ![<<stage, try + 1>>] =
                      Scheduled(attempt[Current].base, WaitsOf(stage))]
  /\ UNCHANGED <<row, pauseFlag, armed, overrun, wfPc, pauseVars, waitVars,
                 stage, final, cancelReq>>

\* Mutant: off by one, a lost last try is waited for.
RetriesExhaustedLate ==
  /\ AttemptLost
  /\ try > MaximumAttempts
  /\ wfPc' = "saveError"
  /\ UNCHANGED <<activityVars, pauseVars, waitVars, graphVars, cancelReq>>

\* ActivityError after the last try: to the except branch of run.
RetriesExhausted ==
  /\ AttemptLost
  /\ try = MaximumAttempts
  /\ attempt' = [attempt EXCEPT ![Current].abandoned = TRUE]
  /\ wfPc' = "saveError"
  /\ UNCHANGED <<row, pauseFlag, armed, overrun, pauseVars, waitVars,
                 graphVars, cancelReq>>

-----------------------------------------------------------------------------
(* save_run_results_activity, called with payload p and status s.  It      *)
(* raises what the database raises: after its retries the workflow goes to *)
(* the except branch, and out of the except branch to its end.             *)

SaveRun(from, to, save) ==
  /\ wfPc = from
  /\ \/ wfPc' = to /\ row' = save
     \/ /\ "db" \in Faults
        /\ wfPc' = IF from = "saveError" THEN "closed" ELSE "saveError"
        /\ UNCHANGED row
  /\ UNCHANGED <<pauseFlag, armed, attempt, overrun, pauseVars, waitVars,
                 graphVars, cancelReq>>

\* The small payload of execute_graph_activity.
SmallPayload == [outs |-> 0, runId |-> TRUE]

\* The row after the save the workflow is at.  "waiting" is saved with
\* final_state["state"], the whole LangGraph state.  A second suspended
\* result reaches the save of a success as it is: its node outputs are one
\* level down, under "state", and it has no "run_id".
Saved ==
  CASE wfPc = "saveWaiting" ->
         SaveRunResults(row, [outs |-> attempt[Current].done, runId |-> TRUE],
                        "waiting")
    [] wfPc = "saveSuccess" ->
         SaveRunResults(row, [outs |-> 0, runId |-> final # "suspended"],
                        "success")
    [] wfPc \in {"saveFailed", "saveError"} ->
         SaveRunResults(row, SmallPayload, "error")
    [] OTHER -> row

SaveWaiting == SaveRun("saveWaiting", "pubWaiting", Saved)
SaveSuccess == SaveRun("saveSuccess", "pubCompleted", Saved)
SaveFailed == SaveRun("saveFailed", "pubFailed", Saved)
SaveError == SaveRun("saveError", "pubError", Saved)

-----------------------------------------------------------------------------
(* What run does with final_state once it is past the gate.                *)

Branch(to) ==
  /\ GateOpen
  /\ wfPc' = to
  /\ UNCHANGED <<pauseVars, waitVars, graphVars, cancelReq, activityVars>>

GraphFailed == stage > 0 /\ final = "failed" /\ Branch("saveFailed")

\* Only the first execution is tested for "__suspended__".
GraphSuspended == stage = 1 /\ final = "suspended" /\ Branch("saveWaiting")

\* Mutant: final_state is not tested for "_error".
GraphSucceededUntested ==
  stage > 0 /\ final \in {"ok", "failed"} /\ Branch("saveSuccess")

GraphSucceeded ==
  /\ stage > 0
  /\ final = "ok" \/ (stage = 2 /\ final = "suspended")
  /\ Branch("saveSuccess")

\* Mutant: _pending_waits is not set up from the suspended nodes.
PublishWaitingOnly ==
  /\ wfPc = "pubWaiting"
  /\ wfPc' = "waitSignals"
  /\ UNCHANGED <<waitVars, pauseVars, graphVars, cancelReq, activityVars>>

\* self._pending_waits and _pending_signal_data start afresh here.
PublishWaiting ==
  /\ wfPc = "pubWaiting"
  /\ wfPc' = "waitSignals"
  /\ pendingWaits' = [n \in WaitNodes |->
                        IF n \in attempt[Current].reached THEN "no"
                                                          ELSE "absent"]
  /\ UNCHANGED <<signalled, pauseVars, graphVars, cancelReq, activityVars>>

\* Mutant: any(...) for all(...).
AnySatisfied ==
  \/ \E n \in WaitNodes : pendingWaits[n] = "yes"
  \/ \A n \in WaitNodes : pendingWaits[n] = "absent"

AllSatisfied == \A n \in WaitNodes : pendingWaits[n] # "no"

\* wait_condition returns: execute the graph again, from the saved state.
ResumeAfterWaits ==
  /\ wfPc = "waitSignals"
  /\ AllSatisfied
  /\ pendingWaits' = NoWaits
  /\ ExecuteGraph(2, attempt[Current].done)
  /\ UNCHANGED <<signalled, pauseVars, final, cancelReq>>

\* wait_condition raises asyncio.TimeoutError, an Exception.
WaitTimedOut ==
  /\ wfPc = "waitSignals"
  /\ WaitTimeouts
  /\ ~AllSatisfied
  /\ NotCancelled
  /\ wfPc' = "saveError"
  /\ UNCHANGED <<pauseVars, waitVars, graphVars, cancelReq, activityVars>>

-----------------------------------------------------------------------------
(* Temporal throws a requested cancellation into the await the workflow is *)
(* at, before it hands it anything else.  Awaiting an activity it arrives  *)
(* as an ActivityError, which the except branch of run catches; the        *)
(* activity is asked to stop but nobody waits for it: a save may or may    *)
(* not have been made.  In wait_condition it is a CancelledError, which    *)
(* nothing catches.                                                        *)

\* Mutant: the wait for a resume swallows the cancellation.
AwaitsNotHeld == {"pubStarted", "waitSignals", "saveError", "pubError"}

AwaitsInTry == {"pubPaused", "pubRunning", "execute", "saveWaiting",
                "pubWaiting", "saveFailed", "pubFailed", "saveSuccess",
                "pubCompleted"}
OtherAwaits == {"pubStarted", "held", "waitSignals", "saveError", "pubError"}

ThrowCancel ==
  /\ cancelReq = "asked"
  /\ wfPc \in AwaitsInTry \cup OtherAwaits
  /\ cancelReq' = "thrown"
  /\ wfPc' = IF wfPc \in AwaitsInTry THEN "saveError" ELSE "closed"
  /\ row' \in {row, Saved}
  /\ attempt' = IF wfPc = "execute"
                THEN [attempt EXCEPT ![Current].abandoned = TRUE]
                ELSE attempt
  /\ UNCHANGED <<pauseFlag, armed, overrun, pauseVars, waitVars, graphVars>>

\* What the Temporal server and the workflow do by themselves.
WorkflowSteps ==
  \/ /\ NotCancelled
     /\ \/ PublishStarted \/ EnterPause \/ PublishPaused \/ LeavePause
        \/ RunGraph \/ GraphReturned \/ RetriesExhausted
        \/ GraphFailed \/ GraphSuspended \/ GraphSucceeded
        \/ SaveWaiting \/ PublishWaiting \/ ResumeAfterWaits
        \/ SaveFailed \/ PublishFailed \/ SaveSuccess \/ PublishCompleted
        \/ SaveError \/ PublishError
  \/ RetryGraph
  \/ ThrowCancel
=============================================================================
