------------------------------- MODULE RunsApi -------------------------------
(***************************************************************************)
(* The HTTP handlers of api/runs.py that change a run, and the background  *)
(* task that starts its workflow.                                          *)
(*                                                                         *)
(* A handler reads the row, calls the Temporal server, writes the Redis    *)
(* flag and commits the new status; it awaits between them, so the         *)
(* handlers of several requests, the starter, the workflow and the         *)
(* activity interleave at those points.  A request is one call of one of   *)
(* the handlers: Requests bounds how many there are.                       *)
(***************************************************************************)
EXTENDS GraphExecutor

CONSTANTS Requests,   \* the requests users make
          RequestOps  \* which of "cancel", "pause" and "resume" they ask for

ASSUME RequestsAssumption == RequestOps \subseteq {"cancel", "pause", "resume"}

VARIABLES starter,   \* start_temporal_workflow
          request,   \* the handlers of the requests
          clobbered, \* observation: a handler replaced a status other than
                     \* the one it had read
          hurried    \* observation: a handler committed while another one
                     \* had read the row before, or a run was resumed again
                     \* before its workflow had acted on the last resume

observed == <<clobbered, hurried>>
apiVars == <<starter, request, observed>>

RequestPc == {"idle", "temporal", "flag", "commit", "done"}

Request == [op   : {"none", "cancel", "pause", "resume"},
            pc   : RequestPc,
            seen : Status]

ApiTypeOK ==
  /\ starter \in {"queued", "started", "failing", "recorded", "failed"}
  /\ request \in [Requests -> Request]
  /\ clobbered \in BOOLEAN /\ hurried \in BOOLEAN

ApiInit ==
  /\ starter = "queued"
  /\ request = [q \in Requests |->
                  [op |-> "none", pc |-> "idle", seen |-> "queued"]]
  /\ clobbered = FALSE /\ hurried = FALSE

\* The handler of request q has read the row and not answered yet.
InFlight(q) == request[q].pc \in {"temporal", "flag", "commit"}

\* Commit status s in a handler that had read status seen.
CommitStatus(seen, new) ==
  /\ row' = new
  /\ clobbered' = (clobbered \/ row.status # seen)

-----------------------------------------------------------------------------
(* start_temporal_workflow                                                 *)

\* client.start_workflow: a failed call may have started the workflow.
StartWorkflow ==
  /\ starter = "queued"
  /\ \/ wfPc' = "pubStarted" /\ starter' = "started"
     \/ /\ "rpc" \in Faults
        /\ wfPc' \in {"none", "pubStarted"}
        /\ starter' = "failing"
  /\ UNCHANGED <<request, observed, activityVars, pauseVars, waitVars,
                 graphVars, cancelReq>>

\* ... and what it writes when the call has returned, or anything raised.
RecordStarted ==
  /\ \/ /\ starter = "started" /\ starter' = "recorded"
        /\ CommitStatus("queued", RecordWorkflow(row))
     \/ /\ starter = "failing" /\ starter' = "failed"
        /\ CommitStatus("queued", SetStatus(row, "error"))
     \/ /\ "db" \in Faults
        /\ \/ starter = "started" /\ starter' = "failing"
           \/ starter = "failing" /\ starter' = "failed"
        /\ UNCHANGED <<row, clobbered>>
  /\ UNCHANGED <<request, hurried, pauseFlag, armed, attempt, overrun,
                 workflowVars>>

-----------------------------------------------------------------------------
(* cancel_run, pause_run, resume_run                                       *)

\* Mutant: pause_run also takes a run that has succeeded.
AllowedPauseDone(op) ==
  CASE op = "cancel" -> {"running", "queued", "paused", "waiting"}
    [] op = "pause"  -> {"running", "queued", "success"}
    [] op = "resume" -> {"paused"}

Allowed(op) == CASE op = "cancel" -> {"running", "queued", "paused", "waiting"}
                 [] op = "pause"  -> {"running", "queued"}
                 [] op = "resume" -> {"paused"}

NewStatus(op) == CASE op = "cancel" -> "cancelled"
                   [] op = "pause"  -> "paused"
                   [] op = "resume" -> "running"

\* The handler reads the row; a status that does not allow op is answered
\* with 400 and changes nothing.  Without a workflow id it skips Temporal.
Ask(q, op) ==
  /\ request[q].pc = "idle"
  /\ row.status \in Allowed(op)
  /\ request' = [request EXCEPT
                   ![q] = [op |-> op,
                           pc |-> IF row.tid THEN "temporal" ELSE "flag",
                           seen |-> row.status]]
  /\ UNCHANGED <<starter, observed, activityVars, workflowVars>>

Goto(q, pc) == request' = [request EXCEPT ![q].pc = pc]

\* workflow_handle.cancel(); whether it fails or not, the handler goes on.
CancelTemporal(q) ==
  /\ request[q].op = "cancel" /\ request[q].pc = "temporal"
  /\ Goto(q, "flag")
  /\ cancelReq' \in IF Open /\ cancelReq = "no"
                    THEN {"asked"} \cup IF "rpc" \in Faults THEN {"no"} ELSE {}
                    ELSE {cancelReq}
  /\ UNCHANGED <<starter, observed, activityVars, wfPc, pauseVars, waitVars,
                 graphVars>>

\* workflow_handle.signal(); if it fails the handler answers 500.
SignalTemporal(q) ==
  /\ request[q].op \in {"pause", "resume"} /\ request[q].pc = "temporal"
  /\ \/ /\ IF request[q].op = "pause" THEN PauseSignal ELSE ResumeSignal
        /\ hurried' = (\/ hurried
                       \/ request[q].op = "resume" /\ isPaused /\ resumeReq)
        /\ Goto(q, "flag")
     \/ /\ ~Open \/ "rpc" \in Faults
        /\ Goto(q, "done")
        /\ UNCHANGED <<pauseVars, hurried>>
  /\ UNCHANGED <<starter, clobbered, activityVars, wfPc, waitVars, graphVars,
                 cancelReq>>

\* Mutant: resume_run does not clear the flag.
SetPauseFlagOnly(q) ==
  /\ request[q].pc = "flag"
  /\ pauseFlag' = (pauseFlag \/ request[q].op = "pause")
  /\ overrun' = IF pauseFlag' /\ ~pauseFlag THEN [a \in Attempts |-> 0]
                                            ELSE overrun
  /\ Goto(q, "commit")
  /\ UNCHANGED <<starter, observed, row, armed, attempt, workflowVars>>

\* _set_run_pause_flag, best effort.
SetPauseFlag(q) ==
  LET paused == request[q].op = "pause" IN
  /\ request[q].pc = "flag"
  /\ pauseFlag' \in {paused} \cup IF "redis" \in Faults THEN {pauseFlag} ELSE {}
  /\ overrun' = IF pauseFlag' /\ ~pauseFlag THEN [a \in Attempts |-> 0]
                                            ELSE overrun
  /\ Goto(q, "commit")
  /\ UNCHANGED <<starter, observed, row, armed, attempt, workflowVars>>

Commit(q) ==
  /\ request[q].pc = "commit"
  /\ \/ /\ CommitStatus(request[q].seen,
                        SetStatus(row, NewStatus(request[q].op)))
        /\ hurried' = (hurried \/ \E p \in Requests \ {q} : InFlight(p))
     \/ "db" \in Faults /\ UNCHANGED <<row, observed>>
  /\ Goto(q, "done")
  /\ UNCHANGED <<starter, pauseFlag, armed, attempt, overrun, workflowVars>>

RequestSteps(q) ==
  CancelTemporal(q) \/ SignalTemporal(q) \/ SetPauseFlag(q) \/ Commit(q)

-----------------------------------------------------------------------------
(* Signals for the wait nodes of the run, as the channel router sends      *)
(* them: the workflow_waits row is marked satisfied first; a send that     *)
(* finds no workflow id, or that fails, is logged and dropped.  With the   *)
(* client the server hands to the router every send fails (SignalRouter);  *)
(* receive_signal arrives from a client that has the method.  Both are     *)
(* outcomes here.                                                          *)

EmitSignal(n) ==
  /\ n \in armed
  /\ armed' = armed \ {n}
  /\ \/ row.tid /\ ReceiveSignal(n)
     \/ UNCHANGED waitVars
  /\ UNCHANGED <<row, pauseFlag, attempt, overrun, wfPc, pauseVars, graphVars,
                 cancelReq, apiVars>>
=============================================================================
