----------------------------- MODULE RunHistory -----------------------------
(***************************************************************************)
(* The run_history row of one run, as far as the control of the run looks  *)
(* at it, and the writes the server makes to it.                           *)
(*                                                                         *)
(*   status     run_history.status                                         *)
(*   completed  run_history.completed_at is set                            *)
(*   outs       how many node outputs snapshot["node_outputs"] holds       *)
(*   tid        run_history.temporal_workflow_id is set                    *)
(*                                                                         *)
(* The contents of the snapshot are abstracted to the number of node       *)
(* outputs in it: every decision the code takes about a snapshot is        *)
(* whether it holds any.                                                   *)
(***************************************************************************)
EXTENDS Naturals

Status == {"queued", "running", "paused", "waiting",
           "success", "error", "cancelled"}

Terminal == {"success", "error", "cancelled"}

RunRow == [status : Status, completed : BOOLEAN, outs : Nat, tid : BOOLEAN]

\* create_run inserts the row before the background task starts the workflow.
CreateRun == [status |-> "queued", completed |-> FALSE, outs |-> 0,
              tid |-> FALSE]

-----------------------------------------------------------------------------
(* Writes of the run API.                                                  *)

\* start_temporal_workflow after client.start_workflow has returned.
RecordWorkflow(r) == [r EXCEPT !.tid = TRUE, !.status = "running"]

SetStatus(r, s) == [r EXCEPT !.status = s]

-----------------------------------------------------------------------------
(* Writes of the activities.                                               *)

\* _persist_partial_snapshot_during_execution: only while "running".
PersistPartial(r, n) ==
  IF r.status = "running" THEN [r EXCEPT !.outs = n] ELSE r

\* _persist_final_state_to_run: unconditional.
PersistFinal(r, n, s) ==
  [r EXCEPT !.status = s, !.completed = TRUE, !.outs = n]

\* Mutant: the state of a cancelled attempt is not collected.
PersistOnCancelEmpty(r, n) == PersistFinal(r, 0, "cancelled")

\* _persist_partial_state_on_cancel.
PersistOnCancel(r, n) == PersistFinal(r, n, "cancelled")

\* What the workflow hands to save_run_results_activity: how many node
\* outputs the payload carries, and whether it has a "run_id" key.
Payload == [outs : Nat, runId : BOOLEAN]

\* Mutant: the save does not recognise the row.
NeverPersisted(r, p) == FALSE

\* save_run_results_activity recognises a row the graph activity has written.
AlreadyPersisted(r, p) ==
  r.completed /\ r.outs > 0 /\ p.outs = 0 /\ p.runId

\* ... and a partial snapshot an empty error payload must not destroy.
PreservePartial(r, p, s) == s = "error" /\ p.outs = 0 /\ r.outs > 0

SaveRunResults(r, p, s) ==
  CASE AlreadyPersisted(r, p) -> SetStatus(r, s)
    [] ~AlreadyPersisted(r, p) /\ PreservePartial(r, p, s) ->
         [r EXCEPT !.status = "cancelled", !.completed = TRUE]
    [] OTHER -> PersistFinal(r, p.outs, s)
=============================================================================
