------------------------------ MODULE RunSystem ------------------------------
(***************************************************************************)
(* One run of a graph, end to end: the API that starts, pauses, resumes    *)
(* and cancels it, its Temporal workflow, the attempts of the graph        *)
(* activity, and the row, the pause flag and the waits they share.         *)
(***************************************************************************)
EXTENDS RunsApi

vars == <<activityVars, workflowVars, apiVars>>

TypeOK == ActivityTypeOK /\ WorkflowTypeOK /\ ApiTypeOK

Init == ActivityInit /\ WorkflowInit /\ ApiInit

Worker(a) ==
  (AttemptSteps(a) \/ AttemptFaults(a)) /\ UNCHANGED <<workflowVars, apiVars>>

Workflow == (WorkflowSteps \/ WaitTimedOut) /\ UNCHANGED apiVars

Starter == StartWorkflow \/ RecordStarted

User(q) == (\E op \in RequestOps : Ask(q, op)) \/ RequestSteps(q)

Next == \/ \E a \in Attempts : Worker(a)
        \/ Workflow
        \/ Starter
        \/ \E q \in Requests : User(q)
        \/ \E n \in WaitNodes : EmitSignal(n)

Spec == Init /\ [][Next]_vars

\* Temporal keeps dispatching workflow and activity tasks, an attempt that
\* runs goes on, and a handler that has begun goes on to its end.  Nobody
\* has to make a request or to emit a signal, and no failure has to happen.
Fairness ==
  /\ WF_vars(WorkflowSteps /\ UNCHANGED apiVars)
  /\ \A a \in Attempts :
       WF_vars(AttemptSteps(a) /\ UNCHANGED <<workflowVars, apiVars>>)
  /\ WF_vars(Starter)
  /\ \A q \in Requests : WF_vars(RequestSteps(q))

FairSpec == Spec /\ Fairness

-----------------------------------------------------------------------------
(* Safety                                                                  *)

\* A run is reported successful only if some attempt executed the graph to
\* its end without an error.  (The save also reports success for a second
\* suspended result: a wait node that only the second execution reaches.)
SuccessIsEarned ==
  row.status = "success" =>
    \E a \in Attempts : \/ attempt[a].result = "ok"
                        \/ a[1] = 2 /\ attempt[a].result = "suspended"

\* The graph is executed again only when every wait node it was suspended at
\* has been signalled: one signal does not release a run that waits for two.
ResumeNeedsEverySignal == stage = 2 => FirstWaits \subseteq signalled

\* Pause takes effect at the next chunk boundary: while the flag is set, an
\* attempt finishes the chunk it is in and no other.
PauseHaltsAtNextChunk ==
  "redis" \notin Faults => \A a \in Attempts : overrun[a] <= 1

\* The outputs of a run that is saved as completed are those of the execution
\* that completed: the small payload the workflow saves does not replace
\* them.  (An attempt Temporal timed out may still overwrite the row.)
CompletedKeepsOutputs ==
  /\ wfPc = "pubCompleted"
  /\ final = "ok"
  /\ Faults \cap {"timeout", "db"} = {}
  => row.outs = attempt[Current].done

Alive(a) == attempt[a].pc \in {"scheduled", "stream", "held"}

\* Nobody is about to write the row any more.
Quiet == /\ wfPc = "closed"
         /\ starter \in {"recorded", "failed"}
         /\ ~ \E q \in Requests : InFlight(q)
         /\ ~ \E a \in Attempts : Alive(a)

\* A run does not stay "running", "paused" or "waiting" once nothing works
\* on it, as long as no handler has overwritten a status it had not read and
\* the database took every write.
NoStuckRun ==
  Quiet /\ ~clobbered /\ "db" \notin Faults => row.status \in Terminal

\* A run that a pause holds does not claim to be running, which resume_run
\* would refuse.  It takes that no handler acted on an outdated row, that two
\* resumes were not merged into one (a pause between them would be left with
\* no resume to come), and that the flag and the row could be written.
HeldRunNotRunning ==
  /\ ~clobbered /\ ~hurried
  /\ Faults \cap {"db", "redis"} = {}
  /\ starter = "recorded"
  /\ ~ \E q \in Requests : InFlight(q)
  /\ \/ wfPc = "held" /\ ~resumeReq
     \/ wfPc = "execute" /\ attempt[Current].pc = "held" /\ pauseFlag
  => row.status # "running"

-----------------------------------------------------------------------------
(* What a step may never do                                                *)

\* Where the code does give up outputs it has stored: a retry of the first
\* execution starts from nothing and its first chunk is written over the
\* snapshot; a second suspended result is saved as a success with no outputs;
\* and so is a success whose own write the database has refused.  Once true it
\* stays true.
OutputsForfeited ==
  \/ attempt[<<1, 2>>].pc # "idle"
  \/ \E t \in 1 .. MaximumAttempts :
       attempt[<<2, t>>].pc = "delivered" /\ attempt[<<2, t>>].result = "suspended"
  \/ "db" \in Faults /\ final = "ok"

\* A row that holds node outputs keeps some, in whichever order the attempts,
\* the saves of the workflow (the empty payload of a failure included) and the
\* handlers write it, except where OutputsForfeited says so: a run that ever
\* had outputs has some to resume from when it has failed or been cancelled.
OutputsSurvive == [][row.outs > 0 /\ ~OutputsForfeited => row'.outs > 0]_vars

-----------------------------------------------------------------------------
(* Liveness                                                                *)

\* A cancellation Temporal has accepted ends the workflow, wherever it is.
CancelEndsWorkflow == cancelReq = "asked" ~> wfPc = "closed"

\* The workflow ends unless a pause or an unanswered wait holds it.
Unheld == /\ starter # "queued" /\ wfPc \notin {"none", "held", "waitSignals"}
          /\ ~pauseFlag
UnheldRunEnds == <>[]Unheld => <>(wfPc = "closed")

-----------------------------------------------------------------------------
(* The abstract run it implements                                          *)

Phase == CASE wfPc = "none" -> "new"
           [] wfPc = "closed" -> "ended"
           [] Open /\ stage = 2 -> "resumed"
           [] Open /\ stage # 2 /\ final = "suspended" -> "suspended"
           [] OTHER -> "executing"

Durable == INSTANCE DurableRun WITH
  Waits <- FirstWaits, phase <- Phase, heard <- signalled

\* The run system implements the durable run: nothing the server, the worker
\* or the users do makes it skip a wait, run the graph twice after a wait,
\* or come back after its end.
ImplementsDurableRun == Durable!Spec
=============================================================================
