----------------------------- MODULE PythonNodes -----------------------------
(***************************************************************************)
(* The Python nodes of one superstep, which run in parallel inside one     *)
(* graph activity: execute_python_node_activity and its Redis keys         *)
(* (services/temporal/activities/node_executor.py), the container each of  *)
(* them runs in (services/docker/executor.py), and what the activity makes *)
(* of the keys when it ends (_persist_partial_snapshot_during_execution,   *)
(* _persist_partial_state_on_cancel).                                      *)
(*                                                                         *)
(* pc[n] names the await node n is at.  Docker calls run in threads        *)
(* (asyncio.to_thread): a cancellation ends the await, never the call.     *)
(* Docker, Redis and the script are external; each Docker or Redis call    *)
(* may fail (MaxFaults in all).  The run's keys are shared by its nodes:   *)
(* run_current_node and run_cancelled_logs each hold one node.             *)
(*                                                                         *)
(* Left out: log chunks and the status frames published for the canvas,    *)
(* heartbeats, and the files copied into the container.  A Docker error is *)
(* taken to have a message (an empty one would count as no error), and the *)
(* nodes beside one that raises go on, where LangGraph cancels them.       *)
(***************************************************************************)
EXTENDS Naturals, FiniteSets

CONSTANTS
    Nodes,       \* the Python nodes of the superstep
    NoNode,      \* no such key
    MaxFaults,   \* calls to Docker, Redis or the database that fail
    MaxCrashes   \* times the worker dies; Temporal runs the activity again

ASSUME NodesAssumption ==
    /\ IsFiniteSet(Nodes) /\ NoNode \notin Nodes
    /\ MaxFaults \in Nat /\ MaxCrashes \in Nat

VARIABLES
    pc,        \* per node: the await it is at, one of Awaits
    cont,      \* per node: "none" | "creating" (in a thread nobody awaits) |
               \* "created" | "running" | "exited" | "removed"
    code,      \* per node: exit status of the container, while there is one
    silent,    \* nodes whose container exited having printed nothing
    late,      \* per node: timeout_deadline has passed
    out,       \* per node: how execute_python_node is going to end
    result,    \* per node: how the activity function ended
    cancelDue, \* nodes with a CancelledError on its way to them
    activity,  \* "running" | "cancelling" | "finished" | "cancelled" | "crashed"
    curNode,   \* Redis key run_current_node:{run}
    logsOf,    \* Redis key run_cancelled_logs:{run}: whose logs it holds
    marked,    \* nodes the snapshot written last reports as cancelled
    shown,     \* the node the snapshot written last reports as running
    faults, crashes

\* Where Docker fails a node.
VARIABLES
    guessed,   \* nodes whose exit status Docker did not tell
    excused    \* history: nodes whose container could not be removed, see below

nodeVars == <<pc, cont, code, silent, late, out, result>>
keyVars  == <<curNode, logsOf>>
endVars  == <<activity, marked, shown, crashes>>
lossVars == <<guessed, excused>>
vars == <<nodeVars, cancelDue, keyVars, endVars, faults, lossVars>>

Fresh(v) == [n \in Nodes |-> v]

Init ==
    /\ pc = Fresh("prepare") /\ cont = Fresh("none") /\ code = Fresh(0)
    /\ silent = {} /\ late = Fresh(FALSE)
    /\ out = Fresh("none") /\ result = Fresh("none")
    /\ cancelDue = {} /\ activity = "running"
    /\ curNode = NoNode /\ logsOf = NoNode /\ marked = {} /\ shown = NoNode
    /\ faults = 0 /\ crashes = 0 /\ guessed = {} /\ excused = {}

\* Node n is at await a, the activity's worker is alive, and no cancellation is
\* about to be thrown into the await.
At(n, a) == pc[n] = a /\ n \notin cancelDue /\ activity \in {"running", "cancelling"}

Goto(n, a) == pc' = [pc EXCEPT ![n] = a]
Ends(n, r) == Goto(n, "done") /\ result' = [result EXCEPT ![n] = r]

Works  == UNCHANGED faults
Breaks == faults < MaxFaults /\ faults' = faults + 1

-----------------------------------------------------------------------------
\* Around the container.

\* The running status is published; then, without an await, the timeout, the
\* storages and the environment are read and the code is looked at.
Prepare(n) ==
    /\ At(n, "prepare")
    /\ \/ Goto(n, "mark") /\ Works
       \/ Goto(n, "failed") /\ Breaks
    /\ UNCHANGED <<cont, code, silent, late, out, result, cancelDue, keyVars,
                   endVars, lossVars>>

\* _set_redis_current_node; a failure is logged.
Mark(n) ==
    /\ At(n, "mark")
    /\ \/ curNode' = n /\ Works
       \/ UNCHANGED curNode /\ Breaks
    /\ Goto(n, "image")
    /\ UNCHANGED <<cont, code, silent, late, out, result, cancelDue, logsOf,
                   endVars, lossVars>>

\* _ensure_image, and the network lookup, whose errors are swallowed.  The image
\* is pulled outside the try block of execute_python_node.
Image(n) ==
    /\ At(n, "image")
    /\ \/ Goto(n, "create") /\ Works
       \/ Goto(n, "failed") /\ Breaks
    /\ UNCHANGED <<cont, code, silent, late, out, result, cancelDue, keyVars,
                   endVars, lossVars>>

\* _clear_redis_current_node deletes the run's key, whoever set it.
ClearCurrent ==
    \/ curNode' = NoNode /\ Works
    \/ UNCHANGED curNode /\ Breaks

\* Mutant: the key is left when the node ends in an error.
ClearOnValue(n) ==
    /\ At(n, "clear")
    /\ IF out[n] = "error" THEN UNCHANGED <<curNode, faults>> ELSE ClearCurrent
    /\ Goto(n, "publish")
    /\ UNCHANGED <<cont, code, silent, late, out, result, cancelDue, logsOf,
                   endVars, lossVars>>

Clear(n) ==
    /\ At(n, "clear")
    /\ ClearCurrent
    /\ Goto(n, "publish")
    /\ UNCHANGED <<cont, code, silent, late, out, result, cancelDue, logsOf,
                   endVars, lossVars>>

\* The final logs and status are published and the result is returned.
Publish(n) ==
    /\ At(n, "publish")
    /\ Ends(n, out[n])
    /\ UNCHANGED <<cont, code, silent, late, out, cancelDue, keyVars, endVars,
                   faults, lossVars>>

\* except Exception: the key is cleared, the error published and raised again.
Failed(n) ==
    /\ At(n, "failed")
    /\ ClearCurrent
    /\ Ends(n, "raised")
    /\ UNCHANGED <<cont, code, silent, late, out, cancelDue, logsOf, endVars,
                   lossVars>>

\* except CancelledError: _set_redis_cancelled_logs replaces the run's key ...
StoreLogs(n) ==
    /\ At(n, "onCancel")
    /\ \/ logsOf' = n /\ Works
       \/ UNCHANGED logsOf /\ Breaks
    /\ Goto(n, "cancelClear")
    /\ UNCHANGED <<cont, code, silent, late, out, result, cancelDue, curNode,
                   endVars, lossVars>>

\* Mutant: the keys of the run are deleted together.
CancelClearBoth(n) ==
    /\ At(n, "cancelClear")
    /\ ClearCurrent /\ logsOf' = NoNode
    /\ Ends(n, "cancelled")
    /\ UNCHANGED <<cont, code, silent, late, out, cancelDue, endVars, lossVars>>

\* ... and the node is no longer the current one.
CancelClear(n) ==
    /\ At(n, "cancelClear")
    /\ ClearCurrent
    /\ Ends(n, "cancelled")
    /\ UNCHANGED <<cont, code, silent, late, out, cancelDue, logsOf, endVars,
                   lossVars>>

-----------------------------------------------------------------------------
\* The container: DockerExecutor.execute_python_node.

Outcome(n, o) == out' = [out EXCEPT ![n] = o]
Becomes(n, c) == cont' = [cont EXCEPT ![n] = c]

\* Removed by force, and its status and logs with it.
Removed(n) ==
    /\ Becomes(n, "removed")
    /\ code' = [code EXCEPT ![n] = 0] /\ silent' = silent \ {n}

\* With no container there is nothing to clean up.
Create(n) ==
    /\ At(n, "create")
    /\ \/ Becomes(n, "created") /\ Goto(n, "copy") /\ Works /\ UNCHANGED out
       \/ Outcome(n, "error") /\ Goto(n, "clear") /\ Breaks /\ UNCHANGED cont
    /\ UNCHANGED <<code, silent, late, result, cancelDue, keyVars, endVars,
                   lossVars>>

Copy(n) ==
    /\ At(n, "copy")
    /\ \/ Goto(n, "start") /\ Works /\ UNCHANGED out
       \/ Outcome(n, "error") /\ Goto(n, "finalLogs") /\ Breaks
    /\ UNCHANGED <<cont, code, silent, late, result, cancelDue, keyVars, endVars,
                   lossVars>>

StartContainer(n) ==
    /\ At(n, "start")
    /\ \/ Becomes(n, "running") /\ Goto(n, "watch") /\ Works /\ UNCHANGED out
       \/ Outcome(n, "error") /\ Goto(n, "finalLogs") /\ Breaks /\ UNCHANGED cont
    /\ UNCHANGED <<code, silent, late, result, cancelDue, keyVars, endVars,
                   lossVars>>

\* The polling loop sees that the container has exited; a failing reload or
\* logs call is tried again two seconds later.
SeesExit(n) ==
    /\ At(n, "watch") /\ cont[n] = "exited"
    /\ Goto(n, "wait")
    /\ UNCHANGED <<cont, code, silent, late, out, result, cancelDue, keyVars,
                   endVars, faults, lossVars>>

\* Mutant: the loop ends at the deadline as it does at the exit.
DeadlineBreaks(n) ==
    /\ At(n, "watch") /\ late[n]
    /\ Goto(n, "wait")
    /\ UNCHANGED <<cont, code, silent, late, out, result, cancelDue, keyVars,
                   endVars, faults, lossVars>>

\* Mutant: the deadline is looked at only when the container has exited.
DeadlineAfterExit(n) ==
    /\ At(n, "watch") /\ late[n] /\ cont[n] = "exited"
    /\ Outcome(n, "error") /\ Goto(n, "finalLogs")
    /\ UNCHANGED <<cont, code, silent, late, result, cancelDue, keyVars, endVars,
                   faults, lossVars>>

\* It sees that the deadline has passed: the container is stopped, a failure of
\* which is logged, and the node has timed out.
Deadline(n) ==
    /\ At(n, "watch") /\ late[n]
    /\ \/ Becomes(n, "exited") /\ Works
       \/ UNCHANGED cont /\ Breaks
    /\ Outcome(n, "error") /\ Goto(n, "finalLogs")
    /\ UNCHANGED <<code, silent, late, result, cancelDue, keyVars, endVars,
                   lossVars>>

\* container.wait gives the exit status.  When it fails the status is taken to
\* be 0, the container having exited, or 1 if that cannot be seen either.
Wait(n) ==
    /\ At(n, "wait")
    /\ \/ Works /\ UNCHANGED guessed
       \/ Breaks /\ guessed' = guessed \union {n}
    /\ Goto(n, "logs")
    /\ UNCHANGED <<cont, code, silent, late, out, result, cancelDue, keyVars,
                   endVars, excused>>

\* The statuses execute_python_node may go by.
Told(n) == IF n \in guessed THEN {0, 1} ELSE {code[n]}

\* The logs are read: they are the error of a non-zero status, and _parse_output
\* may find an error in their last line that is JSON.  The callers ask whether the
\* error is empty, and it is if nothing was printed: then any status is a success.
Collect(n) ==
    /\ At(n, "logs")
    /\ \/ /\ Works
          /\ \/ (n \in silent \/ 0 \in Told(n)) /\ Outcome(n, "value")
             \/ n \notin silent /\ Outcome(n, "error")
       \/ Breaks /\ Outcome(n, "error")
    /\ Goto(n, "finalLogs")
    /\ UNCHANGED <<cont, code, silent, late, result, cancelDue, keyVars, endVars,
                   lossVars>>

\* finally: the logs once more, whatever comes of it ...
FinalLogs(n) ==
    /\ At(n, "finalLogs")
    /\ Goto(n, "remove")
    /\ UNCHANGED <<cont, code, silent, late, out, result, cancelDue, keyVars,
                   endVars, faults, lossVars>>

\* Mutant: a container whose script failed is kept.
RemoveOnSuccess(n) ==
    /\ At(n, "remove")
    /\ IF out[n] = "error" THEN UNCHANGED <<cont, code, silent>> ELSE Removed(n)
    /\ Goto(n, IF out[n] = "cancel" THEN "onCancel" ELSE "clear")
    /\ UNCHANGED <<late, out, result, cancelDue, keyVars, endVars, faults,
                   lossVars>>

\* ... and the container is removed; a failure is swallowed.
Remove(n) ==
    /\ At(n, "remove")
    /\ \/ Removed(n) /\ Works /\ UNCHANGED excused
       \/ UNCHANGED <<cont, code, silent>> /\ Breaks /\ excused' = excused \union {n}
    /\ Goto(n, IF out[n] = "cancel" THEN "onCancel" ELSE "clear")
    /\ UNCHANGED <<late, out, result, cancelDue, keyVars, endVars, guessed>>

\* External: the container's process ends, by itself ...
ContainerExits(n, c) ==
    /\ cont[n] = "running" /\ activity # "crashed"
    /\ Becomes(n, "exited") /\ code' = [code EXCEPT ![n] = c]
    /\ silent' \in {silent, silent \union {n}}
    /\ UNCHANGED <<pc, late, out, result, cancelDue, keyVars, endVars, faults,
                   lossVars>>

\* ... time passes ...
PassDeadline(n) ==
    /\ pc[n] = "watch" /\ ~late[n]
    /\ late' = [late EXCEPT ![n] = TRUE]
    /\ UNCHANGED <<pc, cont, code, silent, out, result, cancelDue, keyVars,
                   endVars, faults, lossVars>>

\* ... and a create call nobody waits for comes to its end.
ThreadCreates(n) ==
    /\ cont[n] = "creating"
    /\ Becomes(n, "created")
    /\ UNCHANGED <<pc, code, silent, late, out, result, cancelDue, keyVars,
                   endVars, faults, lossVars>>

-----------------------------------------------------------------------------
\* Cancellation and the end of the activity.

\* The activity is cancelled: the graph's runner cancels the nodes that have not
\* ended and waits for them.
Cancel ==
    /\ activity = "running"
    /\ activity' = "cancelling"
    /\ cancelDue' = {n \in Nodes : pc[n] # "done"}
    /\ UNCHANGED <<nodeVars, keyVars, marked, shown, crashes, faults, lossVars>>

\* CancelledError at the await node n is at.
Lands(n) ==
    /\ n \in cancelDue /\ activity = "cancelling"
    /\ cancelDue' = cancelDue \ {n}

\* Outside the try block; or before log_buffer exists, which the handler reads:
\* the NameError replaces the cancellation, and the key may have been set.
CancelledEarly(n) ==
    /\ Lands(n) /\ pc[n] \in {"prepare", "mark"}
    /\ curNode' \in IF pc[n] = "mark" THEN {curNode, n} ELSE {curNode}
    /\ Ends(n, IF pc[n] = "mark" THEN "unbound" ELSE "stopped")
    /\ UNCHANGED <<cont, code, silent, late, out, logsOf, endVars, faults,
                   lossVars>>

\* Before there is a container to refer to; the create call goes on.
CancelledUnborn(n) ==
    /\ Lands(n) /\ pc[n] \in {"image", "create"}
    /\ Goto(n, "onCancel")
    /\ IF pc[n] = "create" THEN Becomes(n, "creating") /\ excused' = excused \union {n}
                           ELSE UNCHANGED <<cont, excused>>
    /\ UNCHANGED <<code, silent, late, out, result, keyVars, endVars, faults,
                   guessed>>

\* Inside the try block: the finally clause cleans up.
CancelledInside(n) ==
    /\ Lands(n) /\ pc[n] \in {"copy", "start", "watch", "wait", "logs"}
    /\ Outcome(n, "cancel") /\ Goto(n, "finalLogs")
    /\ \/ UNCHANGED cont
       \/ pc[n] = "start" /\ Becomes(n, "running")
    /\ UNCHANGED <<code, silent, late, result, keyVars, endVars, faults, lossVars>>

\* Inside the finally clause: at the logs, remove is not reached any more; at
\* remove, the call goes on.
CancelledCleaning(n) ==
    /\ Lands(n) /\ pc[n] \in {"finalLogs", "remove"}
    /\ Goto(n, "onCancel")
    /\ IF pc[n] = "remove"
       THEN Removed(n) /\ UNCHANGED excused
       ELSE excused' = excused \union {n} /\ UNCHANGED <<cont, code, silent>>
    /\ UNCHANGED <<late, out, result, keyVars, endVars, faults, guessed>>

\* With a result in hand; or in the except clause of the activity.
CancelledAfter(n) ==
    /\ Lands(n) /\ pc[n] \in {"clear", "publish", "failed"}
    /\ curNode' \in IF pc[n] = "publish" THEN {curNode} ELSE {curNode, NoNode}
    /\ IF pc[n] = "failed" THEN Ends(n, "stopped")
                           ELSE Goto(n, "onCancel") /\ UNCHANGED result
    /\ UNCHANGED <<cont, code, silent, late, out, logsOf, endVars, faults,
                   lossVars>>

AllDone == \A n \in Nodes : pc[n] = "done"

\* The superstep is over and a partial snapshot is written: the current node, if
\* the key names one that has logs, is shown as running.
Finish ==
    /\ activity = "running" /\ AllDone
    /\ activity' = "finished"
    /\ shown' = curNode
    /\ UNCHANGED <<nodeVars, cancelDue, keyVars, marked, crashes, faults, lossVars>>

\* _persist_partial_state_on_cancel merges run_cancelled_logs and deletes it.
PersistCancelled ==
    /\ activity = "cancelling" /\ AllDone /\ cancelDue = {}
    /\ activity' = "cancelled"
    /\ \/ marked' = {logsOf} \ {NoNode} /\ logsOf' = NoNode /\ Works
       \/ UNCHANGED <<marked, logsOf>> /\ Breaks
    /\ UNCHANGED <<nodeVars, cancelDue, curNode, shown, crashes, lossVars>>

\* The worker dies: its containers and the keys stay.
Crash ==
    /\ activity \in {"running", "cancelling"} /\ crashes < MaxCrashes
    /\ activity' = "crashed" /\ crashes' = crashes + 1
    /\ cancelDue' = {}
    /\ UNCHANGED <<nodeVars, keyVars, marked, shown, faults, lossVars>>

\* Temporal gives the activity to another worker: containers are made anew.
Retry ==
    /\ activity = "crashed"
    /\ activity' = "running"
    /\ pc' = Fresh("prepare") /\ cont' = Fresh("none") /\ code' = Fresh(0)
    /\ silent' = {} /\ late' = Fresh(FALSE)
    /\ out' = Fresh("none") /\ result' = Fresh("none")
    /\ guessed' = {} /\ excused' = {}
    /\ UNCHANGED <<cancelDue, keyVars, marked, shown, crashes, faults>>

-----------------------------------------------------------------------------
NodeStep(n) ==
    \/ Prepare(n) \/ Mark(n) \/ Image(n) \/ Create(n) \/ Copy(n)
    \/ StartContainer(n) \/ SeesExit(n) \/ Deadline(n) \/ Wait(n) \/ Collect(n)
    \/ FinalLogs(n) \/ Remove(n) \/ Clear(n) \/ Publish(n) \/ Failed(n)
    \/ StoreLogs(n) \/ CancelClear(n)
    \/ CancelledEarly(n) \/ CancelledUnborn(n) \/ CancelledInside(n)
    \/ CancelledCleaning(n) \/ CancelledAfter(n)

Environment(n) ==
    \/ \E c \in {0, 1} : ContainerExits(n, c)
    \/ PassDeadline(n) \/ ThreadCreates(n)

Ending == Finish \/ PersistCancelled

Stopped == activity \in {"finished", "cancelled"} /\ UNCHANGED vars

Next ==
    \/ \E n \in Nodes : NodeStep(n) \/ Environment(n)
    \/ Ending \/ Cancel \/ Crash \/ Retry \/ Stopped

\* Awaited calls return and time passes; a container need not ever exit.
Fairness ==
    /\ \A n \in Nodes : WF_vars(NodeStep(n)) /\ WF_vars(PassDeadline(n))
    /\ WF_vars(Ending)

Spec == Init /\ [][Next]_vars /\ Fairness

-----------------------------------------------------------------------------
Awaits == {"prepare", "mark", "image", "create", "copy", "start", "watch", "wait",
           "logs", "finalLogs", "remove", "clear", "publish", "failed", "onCancel",
           "cancelClear", "done"}

TypeOK ==
    /\ pc \in [Nodes -> Awaits]
    /\ cont \in [Nodes -> {"none", "creating", "created", "running", "exited", "removed"}]
    /\ code \in [Nodes -> {0, 1}] /\ silent \subseteq Nodes
    /\ late \in [Nodes -> BOOLEAN]
    /\ out \in [Nodes -> {"none", "value", "error", "cancel"}]
    /\ result \in [Nodes -> {"none", "value", "error", "cancel", "raised", "cancelled",
                             "unbound", "stopped"}]
    /\ cancelDue \subseteq Nodes
    /\ activity \in {"running", "cancelling", "finished", "cancelled", "crashed"}
    /\ {curNode, logsOf, shown} \subseteq Nodes \union {NoNode}
    /\ marked \subseteq Nodes
    /\ faults \in Nat /\ crashes \in Nat
    /\ guessed \subseteq Nodes /\ excused \subseteq Nodes

\* "A disposable Docker container": a node that has ended, in success, error,
\* timeout or cancellation, leaves no container behind, unless Docker refused to
\* remove it or the cancellation came at the await of create or of the last logs.
ContainersAreRemoved ==
    \A n \in Nodes : pc[n] = "done" => cont[n] \in {"none", "removed"} \/ n \in excused

\* A node succeeds only with a container that exited by itself, never with one that
\* the deadline stopped or a failing call lost: with status 0, or a status Docker
\* could not tell, or having printed nothing.  (Any status then: the error of a
\* script that is killed without a word is the empty string, which counts as none.)
SuccessMeansExit ==
    [][\A n \in Nodes : out'[n] = "value" /\ out[n] # "value" =>
          cont[n] = "exited" /\ (code[n] = 0 \/ n \in guessed \union silent)]_vars

\* A snapshot written at the end of a superstep shows no node as running, and so
\* does the key: each node that set it has had it deleted, though any node may
\* delete another's.  A failed Redis call or an earlier attempt can leave it.
FinishedShowsNoneRunning ==
    activity = "finished" => shown = NoNode \/ faults > 0 \/ crashes > 0

\* A cancelled superstep reports as cancelled only nodes whose execution was cut
\* off, never one that had given its result, and at least one if there is one.
\* (Not all of them: each replaces the key of the one before.)
CancelledLogsAreReal ==
    (activity = "cancelled" /\ faults = 0 /\ crashes = 0) =>
        LET cut == {n \in Nodes : result[n] = "cancelled"}
        IN marked \subseteq cut /\ (cut # {} => marked # {})

\* Every superstep ends, with scripts that never do: the deadline stops them.
SuperstepEnds ==
    (activity = "running") ~> (activity \in {"finished", "cancelled", "crashed"})
=============================================================================
