# Symdue, specified

TLA+ models of the part of Symdue that decides what happens to a *run*: the
FastAPI server that starts, pauses, resumes and cancels it, the Temporal
workflow `GraphExecutorWorkflow`, the worker's `execute_graph_activity`, the
`run_history` row, the Redis pause flag and the `workflow_waits` rows they all
share, the execution of the workflow graph inside that activity, the nodes whose
body is a run or a container of its own, the routers that deliver signals to
waiting runs, the scheduler and listeners that start scripts, and the tables the
editor keeps workflows and templates in. TLC checks the models on small
instances; TLAPS proves the central safety properties for every value of the
constants.

Paths below are relative to `src/server/` unless they say otherwise.

## 1. Inventory

### Components

| Component | State it keeps | Operations | Modelled in |
|---|---|---|---|
| Run row, `database/models/run.py` and its writers | `status`, `completed_at`, `temporal_workflow_id`, `snapshot` | insert, status writes, partial / final / cancelled / results persist | `RunHistory` |
| Graph activity, `services/temporal/activities/node_executor.py` | per attempt: last state of the stream, heartbeat task | start, superstep (chunk), soft-pause poll, finish, fail, cancelled | `GraphActivity` |
| Workflow, `services/temporal/workflows/graph_executor.py` | `_is_paused`, `_pause_requested`, `_resume_requested`, `_pending_waits`, `_pending_signal_data` | `run`, `_wait_if_paused`, three signal handlers | `GraphExecutor` |
| Run control API, `api/runs.py` | the Redis flag `run:{id}:paused`; request-local copies of the row | `start_temporal_workflow`, `pause_run`, `resume_run`, `cancel_run` | `RunsApi` |
| Signals, `api/signals.py`, `services/signals/`, `services/temporal/client.py` | `workflow_waits` rows; sessions | emit to a channel, signal a run, arm, mark satisfied | `SignalRouter` |
| Graph engine, `services/graph/compiler.py`, `weighted_router.py`, `state.py`, node functions in `node_executor.py`, `create_run_resume_from` in `api/runs.py` | LangGraph state: `node_outputs`, `_node_consumed_inputs`, `node_iteration_outputs`, `_step_count`; the snapshot | superstep, AND-join gate, skip-if-done, wait node, suspended propagation, routers, continuation, resume-from | `GraphShape`, `GraphEngine` |
| Graph analysis, `services/graph/graph_analysis.py` | none (pure) | cycle test, back edges, SCC, entry and next nodes | their results in `GraphShape`; the searches planned: `GraphAnalysis` |
| Manual topological fallback, iterator and workflow nodes, in `node_executor.py` | in-degrees, queue, outputs; child runs' rows | release, skip, execute; iterate a body; create, run and settle a child | `TopoRun` |
| Python nodes, `services/docker/executor.py`, `execute_python_node_activity` | containers; the Redis keys `run_current_node:{run}`, `run_cancelled_logs:{run}` | create, copy, start, poll, stop, collect, remove; mark and clear the keys | `PythonNodes` |
| Event scheduler, `services/events/scheduler.py`, `api/event_runner.py`, `api/events.py` | `events.enabled`, `events.last_run_at`; the poll's rows and clock | poll, due test, run a script, trigger, switch, create, delete | `EventScheduler` |
| Queue listeners, `services/events/queue_listener.py` | `_listener_tasks`, stream positions | read, run a script, reconcile, stop | `QueueListener` |
| Workflows, nodes, edges, templates, `api/workspaces.py`, `api/nodes.py`, `api/edges.py`, `api/node_types.py`, `utils/` | their tables; templates' snapshots | create, copy, expand, import, refer, soft-delete, restore, snapshot | `Workspace` |
| WebSocket stream and client store, `src/client/src/hooks/useWebSocket.ts`, `stores/useAppStore.ts` | node statuses, run list, seed nonce | apply frame, refetch, reconnect | planned: `ClientStream` |
| Storage adapters, embeddings, LLM calls, `llm_configs`, middleware, migrations, React components | rows of their own tables, or none | single-row CRUD and I/O | not modelled: no interaction between steps worth a model |

### How they interact

* `create_run` inserts the row (`queued`) and leaves `start_temporal_workflow`
  to a background task, which starts the workflow and then writes
  `temporal_workflow_id` and `running`. Nothing orders that write with what the
  workflow, or a second user, has written since.
* `pause_run`, `resume_run` and `cancel_run` read the row, await a call to the
  Temporal server, await a write of the Redis flag and commit a status: four
  steps between which everything else may happen.
* The workflow calls activities (graph, save, publish). Temporal retries them,
  times them out, and may give an attempt up that is still running: that
  attempt goes on writing the row until a heartbeat tells it.
* The graph activity writes the row itself after every chunk and at its end,
  and hands the workflow only a small payload; the workflow's own save must
  recognise that.
* A wait node writes a `workflow_waits` row and suspends the graph. A publisher
  finds the row, marks it satisfied, and signals the workflow.
* The nodes of a superstep run in parallel inside one activity. Python nodes
  share two Redis keys of their run and the Docker daemon; a cancellation of the
  activity arrives at whatever await each of them is at, and ends the await, not
  the Docker call behind it.
* A workflow node executes another workflow inside the same activity and keeps
  a `run_history` row for it, which users see and cancel like any other.
* The scheduler, its scripts, the queue listeners and all requests share the
  server's event loop: they interleave only where one of them awaits. A script
  runs synchronously and may switch and create events itself.
* The editor's requests change workflows, nodes and edges; templates are
  snapshots of workflows, and copies of a snapshot become rows again, in several
  commits.

### What is hard

Interleavings of several users' handlers, the starter, the workflow and the
activity over one row, a flag and a workflow; two attempts of one run at the
same time; crashes of the worker between a write and a result; cancellation
arriving at any await; failing database, Redis and Temporal calls that are
logged and ignored; signals that come early, twice, or while a router is
between its commit and its send; clocks read once and compared with times
written later; tasks replaced while they are being awaited; long sequences of
soft deletions, restorations and copies. `PROJECT.json` lists each hazard at its line.

### What makes each component correct

* **Run row** — outputs that were persisted are not lost to a later write of
  another component; the final status tells what happened.
* **Activity** — a pause stops it at the next chunk; a failed or cancelled run
  keeps something to resume from.
* **Workflow** — it executes the graph again only after every wait was
  signalled, at most once after a suspension and at most `maximum_attempts`
  times each; a cancellation ends it; a success is a success.
* **API** — the status agrees with what holds the run; no run is left
  non-final with nothing working on it.
* **Graph engine** — every node that should run does, after the nodes it depends
  on, once for each change of its inputs, and no result is left behind an input
  that has changed; a resumed run is as complete as a fresh one.
* **Fallback, iterator, workflow nodes** — nodes run after everything upstream,
  none is forgotten, and a child's row ends as the parent's output says.
* **Python nodes** — no container stays, a success is a script that came to its
  own end, and what the shared keys say of a node is true when it is read.
* **Events** — runs keep their distance, a fire time starts a bounded number of
  scripts, a disabled event stops, an enabled one keeps firing.
* **Queue listeners** — one per enabled event, none left behind; messages in
  order, and none twice.
* **Workspace** — edges join nodes that are there; a template can be copied
  without loss; accepted references form no cycle.
* **Signals** — a signal that is taken is delivered (see `ClaimSignals`); only warranted signals
  wake a run; the fan-out reaches everyone.

## 2. The modules

`RunHistory` ← `GraphActivity` ← `GraphExecutor` ← `RunsApi` ← `RunSystem`, each
extending the one to its left. `RunSystem` composes them and holds `Init`,
`Next`, `Spec`, the fairness and the properties; `DurableRun` is the abstract
specification it implements; `MCRunSystem` is what TLC runs; `RunSystemProofs` holds the
theorems. `SignalRouter` stands alone (`MCSignalRouter` for TLC,
`SignalRouterProofs` for its theorems). `GraphShape` ← `GraphEngine` ←
`GraphEngineProperties` ← `MCGraphEngine` model what happens inside the chunks of
`GraphActivity`. `TopoRun` (`MCTopoRun` for TLC), `PythonNodes`, `EventScheduler`,
`QueueListener` and `Workspace` (`MCWorkspace` for TLC) each stand alone, and all
of them but `TopoRun` have a module of proofs named after them
(`PythonNodesProofs`, `EventSchedulerProofs`, `QueueListenerProofs`,
`WorkspaceProofs`): what they share with the run system (the activity's
cancellation and retry, the script's start) is an action of their own.

### RunHistory

The row is a record `status`, `completed`, `outs`, `tid`. `outs` is the number
of node outputs in the snapshot: the only thing the code ever asks a snapshot.
One operator per write: `RecordWorkflow`, `SetStatus`, `PersistPartial`
(`_persist_partial_snapshot_during_execution`, a no-op unless the row says
`running`), `PersistFinal`, `PersistOnCancel`, and `SaveRunResults` with its
two special cases `AlreadyPersisted` and `PreservePartial`.

### GraphActivity

`attempt[<<stage, try>>]` is one attempt Temporal makes: the graph is executed
at most twice (before and after a suspension) and each execution tried at most
`MaximumAttempts` times. Its `pc` goes `scheduled` → `stream` ⇄ `held` →
`returned` → `delivered`, or to `gone`. `Chunk` is one superstep with
everything the `astream` loop does after it: wait rows, partial snapshot, poll
of the pause flag. `abandoned` says Temporal gave the attempt up; it may still
take steps (a zombie) until `StreamCancelled`. `overrun` is an observation
variable, read by no action: how many chunks were finished since the flag was
set. `Supersteps` bounds a graph's chunks; what a chunk computes is abstracted
to "one more output" and to the wait nodes it may reach.

### GraphExecutor

`wfPc` names the `await` the workflow is at, and a step is the code from one
await to the next, since a Temporal workflow is single-threaded. `gate` is the
test at the top of `_wait_if_paused`. `Saved` is the row after the save the
workflow is at, with the payload each call site really passes. What the Temporal
server does is modelled as the code relies on it and marked external in the
map: signals are accepted as long as the workflow is open; a lost attempt is
retried from the activity's *arguments*; a cancellation arrives at an activity
as an `ActivityError` (caught by `run`'s except branch) and in `wait_condition`
as a `CancelledError` (caught by nobody); `wait_condition` raises at its
timeout. `AttemptLost`'s timeout covers `start_to_close_timeout` and
`heartbeat_timeout`. `signalled` is an observation variable.

### RunsApi

One record per request with the handler's program counter and the status it has
read; a handler is split at its awaits (`Ask`, `CancelTemporal` /
`SignalTemporal`, `SetPauseFlag`, `Commit`). `clobbered` and
`hurried` are observation variables: some handler replaced a status other than
the one it had read; some handler committed while another one had read the row,
or a resume reached a workflow that had not acted on the last one.
`EmitSignal` is a signal for a wait node as the router sends it; finding the
wait is `SignalRouter`'s subject.

### SignalRouter

The handlers of the two endpoints share the event loop (`loop`): a handler
keeps it until it awaits `handle.signal`, so two handlers interleave there and
nowhere else, while the worker (`PersistWaitState`) and the workflows
interleave everywhere. A handler sees the rows as it fetched them (`seen`)
until it commits and as they are afterwards (`stale`), which is what
SQLAlchemy's `expire_on_commit` does; a row that is gone when it is read again,
or when a change to it is flushed, raises (`RowIsGone`). Changes to
`signals_received` that no commit follows are lost (`dirty`, `Respond`). Each
call has the object its endpoint hands to the router, one of `Clients`: the code's
callers have the temporalio `Client`, or `None` without a connection; only the
class `TemporalClient` has the method the router calls. `/runs/{id}/signal`
awaits the client between its check of the status and the fetch of the waits
(`FindWaiting`), and other handlers and the worker get in between.

### GraphShape, GraphEngine

`Graph[w]` is a workflow: the kind of each node, the edges with handle and
weight, and the entry nodes. One state of `GraphEngine` is the LangGraph state
in one superstep: `active` are the tasks, `todo` those that have not ended,
`writes` what the others will write. Tasks read the state before the superstep,
so their order matters only for what is lost when one of them raises. A task is
one of `ArmWait`, `SkipAnswered` (wait nodes), `Propagate`, `HoldAtGate`,
`SkipDone`, `Execute`, `RaiseInBody`, `RaiseInRouter`: the returns and raises of
`wait_node_function`, `node_function` and the routers, in their order. `Advance`,
`Overrun` and `Complete` end the superstep: `Merge` is the reducers,
`Triggered` the routing. A node that wrote nothing still triggers its
successors, as in LangGraph; that is what the gate and skip-if-done are for.
`AnswerWaits` is the second execution, `ResumeFrom` a run made from the snapshot
of one that failed. Hashes of outputs are modelled by the outputs; a body's
output is any of `Values`. The workflow's own bookkeeping (attempts, saves, the
wait for signals) is in the run system and left out here: `LoseWorker` is the
loss of the last attempt.

`ErrorProne` and `Faulty` say in which workflows bodies return errors, and in
which they raise, workers are lost and users cancel: bounds of the exploration.

### TopoRun

The walk of `_execute_manual_topo`: `indeg`, `queue` and `outs` are its local
variables, `act` the await it is at. `Release` is the code both branches share
that decrements the children's in-degrees; the children that become ready are
queued in any order, as the order of the edges is the graph's. `Above(n)`, the
nodes upstream of n, is not in the code: the properties use it. Inside a node the walk is at
`"body"`, `"iter"` (an iterator, `item` items done) or `"child"` (a workflow
node; `child` is the row of the run it executes). `row` and `kept` are the child
rows' status and whether their snapshot holds outputs; `truth` remembers how the
child's graph really came out, which the code does not record: a child that
failed or was suspended is `success` all the same. Cancellation, the user who
cancels the child's row, worker crash with retry, failed writes and resume-from
interleave at the awaits. A cancellation of the walk while a child is at hand has
three outcomes: the child's row is cancelled and the walk ends (`Cancel`); the
database fails in that handler, the failure replaces the `CancelledError` and is
caught as the node's, so the walk goes on (`CancelLost`); it lands at the
publication after the child's row is written (`CancelPublish`). A workflow node
that names no workflow raises (`ChildUnset`).

### PythonNodes

`pc[n]` names the await node n is at, from the publication of its status to the
return of `execute_python_node_activity`; `cont[n]` is its container. A
cancellation is first due (`cancelDue`) and then lands at the await, and each
`Cancelled...` action is a region of the code in which it has the same effect:
outside any `try`, before the container exists, inside, in the `finally` clause,
after it. `curNode` and `logsOf` are the two Redis keys of the run. Each Docker,
Redis or database call may fail (`Breaks`). `Finish` and `PersistCancelled` are
what the activity makes of the keys when the superstep ends. `silent` are the
nodes whose script printed nothing: the executor gives the logs as the error of a
non-zero exit, and its callers test that text for truth, so a silent one is a
success whatever its status (`Collect`). `guessed` are those whose status
`container.wait` did not tell; `Told` is what the code then takes it for.
`excused` is history: where the code itself cannot remove a container.

### EventScheduler

Time is discrete and relative: `age` is the time since `last_run_at`, up to the
largest difference a comparison can tell apart, `phase` the time since the last
cron fire time; `elapsed` and `nowPhase` are what the clock the poll read at its
start makes of them. A script takes up to `MaxScript` ticks in which nothing
else happens, as it runs on the event loop; requests are served while the
scheduler sleeps or waits for a Temporal client. A run ends with two commits:
`Recorded`, of `last_run_at`, at the end of `run_event_script`, and the
scheduler's own, of `next_run_at`. Either may fail, any number of times, and the
poll is then over (`RunScheduled`, `BreakOff`). A script runs to its end also
when its event was disabled meanwhile, and does to others what scripts do.

### QueueListener

`task[s]` is a listener task in slot s, at one of its awaits; `dict` is
`_listener_tasks`. `pc = "sync"` means the scheduler's task has the loop, and no
other step is possible (`Moves`): `sync_listeners` runs without interruption
except at the await of a cancelled task. A stream is the number of messages
added to it; `"$"` starts behind the last of them. Cancelling an awaiting task
cancels what it awaits, and `sync_listeners` swallows what comes back: `Stop` at
that await is modelled so.

### Workspace

The tables as functions of row identities: a node's workflow (`home`), whether it
is deleted (`alive`), the workflow it refers to (`ref`), edges not deleted, and
templates with their snapshot. Handlers do not await the database and so do not
interleave, but many of them commit several times: `commits` is how many of
the commits of a request happened before it failed. `InsertCopy` and
`CopiedEdges` are the copying every kind of copy shares; `f` gives the new rows'
identities. `Detect` is the recursive search of
`detect_circular_dependency` as a recursive function.

## 3. The runs

Failures are switched on per run by `Faults`, so that a property that needs
their absence is checked without them and every other one with them.

| Run | Bounds | Properties |
|---|---|---|
| `RunPause` | 2 supersteps, no wait, no fault, 4 requests of any kind (interchangeable: symmetry) | `PauseHaltsAtNextChunk`, `NoStuckRun`, `HeldRunNotRunning` |
| `RunFaults` | 3 wait nodes, two reached by the first execution in either order and one by the second only, 1 superstep; shutdown, timeout with zombie, node errors, failing database, 1 cancel | `ResumeNeedsEverySignal`, `SuccessIsEarned`, `ImplementsDurableRun`, `OutputsSurvive` |
| `RunLive` | 1 wait with timeout, activity errors and retries, failing Redis and Temporal calls, 2 requests (cancel, pause) | `TypeOK`, `CompletedKeepsOutputs`, `CancelEndsWorkflow`, `UnheldRunEnds` |
| `Signals` | 3 waits (any of two signals, all of two, timer) of two runs, 2 requests with either of 2 signals, rows replaced once, fan-out cut at 2 of 3, one run recorded late and losing signals; calls with the object the router expects and with the one its callers have | `TypeOK`, `WakeupIsWarranted`, `FanOutIsComplete` |
| `ClaimSignals` | as `Signals`, but no row replaced, no run recorded late and no signal lost; calls with what the endpoints really have: the temporalio client, or none | `NoSignalSwallowed`, violated |
| `Engine` | 213 workflows of 4 nodes: every acyclic graph without conditions with no wait node, or node 2 or 3 waiting; branches, weighted fan-outs (one of a wait node), two waits side by side and one behind the other; loops with and without waits, one that suspends itself. 2 outputs, 6 steps, 9 supersteps, 1 resume-from | `TypeOK`, `FinishedMeansDone`, `ExecutionsArePaid`, `NoStaleInput`, `AncestorsFirst` |
| `Events` | an interval event that users and scripts create, switch and delete, and a cron event; interval 2, period 4, window 3, guard 2, poll 1, connections and scripts of up to 1 tick, commits that may always fail | `ScheduledRunsAreSpaced`, `CronFiresAtMostTwice`, `DisabledEventStops`, `IntervalEventsFire` |
| `Listeners` | 2 queue events, one of them also renamed and deleted, 1 stream of 2 messages, 2 tasks | `HandledInOrder`, `NoOrphanListener`, `StopIsComplete`, `ListenersReconcile` |
| `Sandbox` | 2 Python nodes, 1 failing call, 1 crash | `ContainersAreRemoved`, `FinishedShowsNoneRunning`, `CancelledLogsAreReal`, `SuccessMeansExit`, `SuperstepEnds` |
| `NodeRuns` | 5 graphs of a plain node, an iterator (up to 2 items) and a workflow node; 2 failed writes, 1 crash, 1 resume | `WalkIsComplete`, `ChildRowsEnd`, `OutputNamesSuccess`, `UpstreamFirst`, `WalkEnds` |
| `Workspace` | 3 workflows, 4 nodes, 1 template (workflows and nodes interchangeable: symmetry), 6 requests | `Integrity`, `ReferenceClosesNoCycle` |
| `ClaimResume` | as `Engine` | `ResumeSkipsDone`, violated |

Why the bounds are enough. Two supersteps are the least that put a chunk
boundary inside an execution. Two tries are the code's own bound
(`maximum_attempts=2`), and with them every pair of overlapping attempts
occurs. A crashed worker is an attempt that is timed out and never takes another
step, so `RunFaults` does without `"crash"`, and `RunLive` has attempts that raise.
Four requests give pause–resume–pause–resume and two
overlapping handlers with two to come; one is enough where the question is about failures. Two
wait nodes of one execution separate "all" from "any"; the third, reached by the
second execution only, makes it suspend again. Two
signal requests are the least that overlap at the await, and a third wait above
`MaxFanout` makes the cut happen. Four nodes are the least with a diamond, with
paths of different length to a join, and with a loop that has an entry and an
exit; two outputs make a hash change or not and a condition go either way, and
six steps let the loop pass twice. One event of each type is enough for a poll
that visits two; the window is longer than the guard, as in the code (60 and 55
seconds), and a script or connection can take the poll over each of the
boundaries. Two queue events give a reconciliation that cancels one listener and
starts another; two messages are the least that can be disordered. Two Python
nodes are the least that share a key; with one call that fails, every single
failure at every place is met. Three nodes give the walk a node with parents at
different depths, both orders of iterator and workflow node, a cycle below an
entry and a graph without entry; two failing writes are what leaves a child's
row open for good, and a crash and a resume what makes a second one. Three
workflows are the least with a cycle of references that a search one level deep
misses, and four nodes and six requests the least that make a copy of a copy,
or three references and a deletion.

`CHECK_DEADLOCK FALSE` in the runs of the run system, the signals and the graph
engine: a run really ends, and a quiet system has no next step. The other
modules have an explicit step for the end (`Stopped`, `Stop`), or never stop, and
are checked for deadlock.

### What the passing runs show

* `PauseHaltsAtNextChunk`: while the flag is set, an attempt finishes the chunk
  it is in and no other, however pauses, resumes and cancels overlap (Redis
  assumed to answer: a failed read counts as "not paused" in the code).
* `NoStuckRun`: once the workflow is closed, no attempt is alive and no handler
  in flight, the row is final, *unless* a handler overwrote a status it had
  not read (`clobbered`). Without that proviso the property is false: the late
  `running` of `start_temporal_workflow` (`api/runs.py:72`) after a short run
  leaves it `running` for good, whatever docs/FAQ.md:79 says.
* `HeldRunNotRunning`: a run a pause holds does not say `running`, otherwise
  `resume_run` would answer 400 and nothing release it. It holds while no handler
  has replaced a status it had not read, no two overlapped and no two resumes were
  merged (`clobbered`, `hurried`), and no write to the database or Redis failed.
  Merged resumes: the workflow is held; a resume, a pause and another resume
  arrive before it runs again. Their signals set flags and do not count, so
  `_pause_requested` stays set, the workflow stops at the next gate, and the row
  says `running` (graph_executor.py:47).
* `CompletedKeepsOutputs`, `OutputsSurvive`: no save destroys outputs the
  activity has persisted. The first excludes zombies and database failures. The
  second is about all runs, failed and cancelled ones too, and holds until the run
  has come to one of the three places where the code does give its outputs up
  (`OutputsForfeited`, which stays true once it is): a retry of the first
  execution, whose first chunk is the initial state; a second execution that is
  suspended again, whose result is saved as a success with no outputs, which a
  cancellation or an error may then overwrite; and a success whose own write
  (`_persist_final_state_to_run`) the database refused, as that error is swallowed.
* `SuccessIsEarned`: success needs an execution that came to its end.
* `ImplementsDurableRun`: the composed system refines `DurableRun` (begin,
  suspend, hear, resume once after every wait was heard, end for good) under
  the mapping `Phase`.
* `WakeupIsWarranted`, `FanOutIsComplete`: only signals the wait needs wake its
  workflow, and a refused send does not stop the rest. With the object the callers
  really have every send is refused and nobody is woken at all (`NobodyIsWoken`,
  `ClaimSignals`): the first says something only of the client the router is
  written for, the second of both. Waits beyond `MaxFanout` are not looked at.
* `FinishedMeansDone`, `ExecutionsArePaid`, `NoStaleInput`, `AncestorsFirst`: the
  gate and skip-if-done make LangGraph's edge-triggered supersteps behave like a
  dependency order, also across waits and resume-from. Their provisos are what
  the code really does, each with a graph of `MCGraphEngine` that shows it: after
  resume-from, a condition decided otherwise leaves the outputs of the old branch
  in place; after the answer to a wait node without successors the graph starts
  again at its entries and retries nodes whose output is an error; the execution
  behind an answered wait node starts at all its targets, whatever weights are on
  its edges (`Unweighted`); a wait node behind another is armed along with it, so
  what lies behind both may run beside what lies between them (`AcrossWaits`); and
  a condition on a loop with a wait node, once suspended, has its own marker as
  one of its inputs and stays suspended (`NoStaleInput` counts such a result as
  none).
* `ScheduledRunsAreSpaced`, `CronFiresAtMostTwice`, `DisabledEventStops`,
  `IntervalEventsFire`: although a poll compares with a clock it read before its
  first script, two recorded runs of an event are an interval apart, because what
  a stale clock underestimates is the elapsed time. A cron fire time can start its
  script twice, as the window is longer than the guard, and no more often, except
  once more for each run whose commit failed (only recorded runs are counted). A
  poll that had read an event runs it once after it was disabled. An enabled
  interval event keeps being run only if, from some time on, no failing commit
  breaks a poll off (the premise of `IntervalEventsFire`). The code does not
  guarantee that: an event whose state the database cannot represent fails its
  commit at every poll, and every event visited after it starves.
* `HandledInOrder`, `NoOrphanListener`, `StopIsComplete`, `ListenersReconcile`:
  replacing a listener loses messages but never repeats one, because the new one
  starts at the end of the stream; every task is in the dictionary or being
  awaited; the listeners follow the table, unless the process is being stopped.
* `ContainersAreRemoved`, `SuccessMeansExit`, `SuperstepEnds`: however a node
  ends. The two awaits at which a cancellation does leave a container behind are
  excused by name (`excused`). A success needs a container that exited by itself;
  its status was 0, or not told (`guessed`: a failing `container.wait` counts as
  0), or anything at all if the script printed nothing (`silent`).
* `FinishedShowsNoneRunning`, `CancelledLogsAreReal`: the keys the nodes overwrite
  and delete for each other are harmless at the end of a superstep, as each node
  deletes what it set, and a cancelled run reports only nodes that were cut off,
  though not all of them.
* `UpstreamFirst`, `WalkIsComplete`, `WalkEnds`: the in-degree counting is a
  topological order, also past skipped nodes; nodes at or below a cycle are
  passed over and the run succeeds.
* `ChildRowsEnd`, `OutputNamesSuccess`: the only child rows left `running` are
  those of a worker that died or of a database that failed, twice in a row or while
  the child was being cancelled, and the child a
  successful workflow node names is a success, also in resumed runs and when a
  user had cancelled it (its row is then overwritten).
* `Integrity`: no sequence of requests, broken off after any commit, leaves an
  edge without an end or a snapshot with one. `ReferenceClosesNoCycle`: what
  `create_workflow_reference_node` accepts; the other ways to a workflow node do
  not search (see below).

### Where the code departs from what is written of it

Two runs that TLC finds violated, and the findings:

| Run | The code | What is written |
|---|---|---|
| `ClaimResume` | a resumed run executes every node it passes, done or not: `_node_consumed_inputs` is not taken over | docs/FAQ.md:192 and :87, runs.py:254 |
| `ClaimSignals` | the endpoints and `run_event_script` hand the signal router the temporalio client, which has no `send_receive_signal` (signals.py:37, :74, event_runner.py:37): the wait is marked satisfied, the `AttributeError` is swallowed and no workflow is told | docs/scheduling.md:62 and :71, docs/FAQ.md:95 |

Met while modelling and not given a run of their own.

*Runs and signals.* A signal handled before `_pending_waits` is set up is
forgotten and the workflow waits for it (docs/FAQ.md:95 says it waits "until the
signal arrives"); `start_to_close_timeout` counts the time of a pause, so a long
pause loses the attempt (node_executor.py:1168 says heartbeats prevent it);
`wait_condition` raises at a wait's timeout, so the code below "resolve
unsatisfied waits with \_\_timeout\_\_" (graph_executor.py:200) is never
reached; signals sent one by one to a wait in mode `all` are rolled back
(channel_router.py:28 says "Accumulates signals"); a second execution that
is suspended again (at a wait node only it reaches, such as one on the other
branch of a condition) is saved as success (docs/COMPARISON.md:33); the except branch turns a
row the activity marked `cancelled` into `error` (node_executor.py:2145 says it
skips); two crashed tries with partial outputs end as `cancelled`, not `error`
(docs/FAQ.md:177); no partial snapshot is written in the second execution, as
the row still says `waiting` (docs/FAQ.md:79); `cleanup_run_waits` is called by
nobody (wait_service.py:111 says "on cancellation"); the count of notified runs
includes sends that returned False (channel_router.py:70).

*Graph engine.* A wait node downstream of another is
armed together with it, and what lies behind it may then execute before what
lies between them (the gate counts a suspension marker as an output, and wait
nodes have no gate); weights on the edges of a wait node are ignored when it is
answered; a condition that a loop suspends never runs again; a loop whose condition produces the same value twice
executes nothing any more and spins until LangGraph's recursion limit, which the
step guard does not see (demos/README.md:33 names `MAX_GRAPH_STEPS`;
docs/TROUBLESHOOTING.md:255 blames the author); a run that failed at the step
limit fails again when resumed, as `_step_count` is taken over; a join behind
both branches of a condition never runs.

*Nodes.* A child run whose graph fails or is suspended gets `success`, as
`_execute_with_langgraph` reports both in the state it returns (the comment at
node_executor.py:285 takes the absence of an exception for success); a child its
user cancelled is overwritten with `success`; a retried activity leaves the old
child `running` and makes a second. The iterator's `stop` strategy does not stop
at a Python item whose script fails (docs/COMPARISON.md:93). Nodes at or below a
cycle are never run by the fallback, and the run succeeds. A cancellation at the
await of `containers.create`, or of the last logs in the `finally` clause, leaves
the container; when `container.wait` fails, an exited container counts as status
0 (executor.py:237); a script that exits with another status and has printed
nothing (killed for memory, `os._exit`) is a success, as its error is the empty
string (executor.py:258, node_executor.py:761 and :1793); a database failure in the
handler of a cancelled child swallows the cancellation (node_executor.py:294); parallel Python nodes replace each other's cancelled logs;
a cancellation while the current-node key is being set raises
`UnboundLocalError`, as `log_buffer` does not exist yet (node_executor.py:1814).

*Events.* The guard "against double-fire within the same minute"
(scheduler.py:46) covers 55 of the 60 seconds a fire time is due, and a manual
run just before a fire time suppresses it. A commit that fails ends the poll, so
the event runs again at each poll and those behind it not at all; one whose script
stores a state that is not JSON does so for good (event_runner.py:111). An event
deleted during a poll ends the poll. A shutdown that arrives while
`sync_listeners` awaits a cancelled listener is swallowed, and `stop_scheduler`
waits for a loop that goes on. A listener does not notice a renamed queue, and
messages that arrive between two reads from `"$"` are lost.

*Workspace.* Expanding a template can close a cycle of references (nodes.py:95
says no check is needed), and so can `update_node`, a node template, and
`create_sub_workflow_node` when the snapshot is newer than its origin; expansion
drops the handle of a condition's edges; a request that fails after its first
commit leaves a partial copy; deleted templates can still be instantiated; an
export with a workflow node cannot be imported (workspaces.py:207 says
"round-trip"); deleted workflows stay referred to.

## 4. Fairness

`FairSpec` adds weak fairness of the workflow's own steps (the Temporal server
keeps dispatching tasks to a worker that is up, including retries and the
delivery of a cancellation), of each attempt's own steps, of the starter, and of
the steps of a request that has *begun*. Nobody is obliged to make a request,
emit a signal, resume a pause, and no failure or timeout is obliged to happen.
`CancelEndsWorkflow` needs nothing else. `UnheldRunEnds` is conditional on the
run being neither paused nor waiting for ever.

The stand-alone modules state theirs in `Spec`. `EventScheduler`: the loop's task
runs when it is ready, and time passes; no request, commit or connection is
obliged to succeed. The property excepts a stopped server and polls that failing
commits break off again and again: that is its premise, not a fairness of `Spec`. `QueueListener`: the
scheduler's task goes on, and a task that is closing its connection ends; reads
need not return. `PythonNodes`: awaited calls return, in success or failure, and
the deadline passes; a script need never exit. `TopoRun`: node bodies return, and
Temporal retries a lost attempt. `Workspace` has no liveness property and no
fairness.

## 5. The proofs

All for every value of the constants that satisfies the `ASSUME`s
(`ConstantsAssumption`, `WaitsAssumption`, `RequestsAssumption`;
`RouterAssumption`; `GraphsAssumption`, `NodesAssumption`, `ValuesAssumption`, `BoundsAssumption`;
`EventsAssumption`, `GuardAssumption`; `ListenerAssumption`; `NodesAssumption`;
`TopoAssumption`; `NoneAssumption`), which TLC evaluates on every run. Only
`TopoRunProofs`, which counts in-degrees and rows, and `ExecutionsPaid`, which counts
executions, use that there are finitely many nodes and children; no other theorem uses finiteness of the wait nodes, requests,
nodes or tasks, and none a fault-free environment beyond what its property says.
`GuardAssumption` says that twice the guard is at least the minute a fire time is
due (110 and 60 seconds in the code).

`RunSystemProofs`:

* `TypeCorrect` — `Spec => []TypeOK`. `TypeOK` is not inductive: `Current =
  <<stage, try>>` indexes `attempt` only if `stage > 0`. `TypeInv = TypeOK /\
  StageInv /\ ApiInv` adds where `stage` may be 0 and what a request in
  progress looks like.
* `WaitSafety` — `Spec => []ResumeNeedsEverySignal`, through `GraphInv`:
  `AttemptsInv` (which attempts exist, and that one that returned `suspended`
  has reached every wait node of its execution), `FinalInv` (`final` is what
  the current attempt returned, and which branch it may be in), `WaitsInv` (a
  pending wait that is satisfied was signalled, and all of `FirstWaits` are
  pending when the workflow waits). Each part is needed by the step
  `PublishWaiting` → `ResumeAfterWaits`.
* `PauseSafety` — `Spec => []PauseHaltsAtNextChunk`: an attempt with an overrun
  of one is not streaming while the flag is set.
* `Implementation` — `Spec => ImplementsDurableRun`: the initial state maps to
  the initial state, and each step to a step of `DurableRun` or a stutter
  (`WorkflowRefines`, `StepRefines`), using the invariant above.
* `SuccessSafety` — `Spec => []SuccessIsEarned`: results are never taken back
  (`ResultsKept`), the save of a success is only reached with an earned result
  (`SaveSuccessEarned`), and every write of `success` is one of the two that
  have one (`SuccessWritten`).
* `OutputsAreKept`, `OutputsNeverLost` — `Spec => OutputsSurvive`, and the same over
  whole executions: `Spec => [](row.outs > 0 => [](row.outs > 0 \/
  OutputsForfeited))`. Through `OutputsInv`: an attempt
  only adds to the outputs it began with, a resumed execution begins with some,
  and a row that has outputs has a first attempt that made some. The proof goes
  by what an attempt, the workflow's save and a handler can write, and shows that
  what is forfeited stays so.
* `CompletedKeeps` — `Spec => []CompletedKeepsOutputs`, through `CompletedInv`: while
  no attempt is timed out, an attempt that can still write is the current one
  (`OneWriter`); and from the return of a success on the row holds its outputs.
* `NoStuckRuns` — `Spec => []NoStuckRun`, through `EndInv`: a workflow that is
  closed, or whose cancellation was asked for, has a final row, or a `cancel_run`
  that has been to Temporal and has not committed.
* `HeldRuns` — `Spec => []HeldRunNotRunning`, through `HoldInv`. Workflow and row
  are apart between the signal of a handler and its commit; what is kept then is
  that the signal the commit stands for is still there to be acted on
  (`RunningReleased`, `PauseAnswered`, `ResumeReleases`), while at most one handler
  is there (`Calm`). The attempt to prove it without `hurried` led to the merged
  resumes above.

`SignalRouterProofs`:

* `RouterTypeCorrect` — `Spec => []TypeOK`; here `TypeOK` is inductive.
* `WakeupsAreWarranted` — `Spec => []WakeupIsWarranted`, through `HeardInv`:
  everything a handler decides by (its signal, the received signals of a row as
  stored and as fetched) is in `heard`, and whom it is notifying is warranted.
  Without the part about the fetched rows the step that routes by a stale row
  would not preserve it.
* `NobodyIsWoken` — `Spec => [](told = {})` if no caller has the class the router is
  written for, and none in the code has: the violation of `ClaimSignals` is not one
  of its bounds. Through `SilentInv`: no handler comes to await an answer.
* `FanOutCompletes` — `Spec => []FanOutIsComplete`, through `FanOutInv`: a row
  has been inserted again since it was fetched, or has only grown, and every
  fetched wait a handler has dealt with is satisfied, replaced or unmatched.

`GraphEngineProofs`, for every graph:

* `TypeCorrect` — `Spec => []TypeOK`, through `TypeInv`, which adds to `TypeOK` that
  the sum of counted steps stays below the limit while a superstep runs. `StateInv`
  adds what a task may have written (`WriteInv`): the cases of `node_function`.
* `ExecutionOrder`, `ExecutedOnce` — `Spec => AncestorsFirst`; and in an acyclic graph
  a fresh run executes a node at most once. Through `OrderInv`: a node that has run
  holds a value, has consumed what its predecessors hold, and they are done; behind
  an answered wait node with successors only what is behind a wait node is active.
  That a graph is acyclic is used through closed sets of nodes
  (`Reaches`), so there is no induction over paths.
* `InputsUpToDate`, `ResultsStay` — `Spec => []NoStaleInput`, through `InputInv`: a
  node whose record is outdated is active, or its result has been overwritten by a
  suspension (`StaleInv`). In a graph without cycles, or without wait nodes, the
  latter does not happen: outputs are complete from below (`WholeInv`), so a
  node that has once passed the gate always does (`RecordInv`).
* `FinishedIsDone` — `Spec => []FinishedMeansDone`, through `FinishInv`: what is ready
  and not done is active, or, in a resumed run, ahead of the active nodes along
  routes through finished ones (`ComingInv`); what is active or done was led to
  (`ActiveInv`, `InvitedInv`).
* `ExecutionsPaid` — `Spec => []ExecutionsArePaid`, also with cycles, through `PaidInv`:
  a node that has executed owes an execution when an input has changed since, or it
  was suspended in between; then a predecessor has executed, and that execution has
  not been used yet (`CostInv`). It needs that the wait nodes before a node that has
  executed stay answered, and that the others have executed (`BegunInv`): a
  suspension of one of these ends with its next execution.

`TopoRunProofs`, for every finite graph:

* `UpstreamOrder`, `WalksAreComplete` — `Spec => UpstreamFirst`, `Spec =>
  []WalkIsComplete`, through `WalkInv`: an in-degree counts the predecessors that have
  not been through, what is queued or at hand waits for nothing, and the queue has
  no repetitions; and `SoundInv`: only nodes with no cycle upstream have outputs.
  That no node is forgotten follows at the end of the walk: of the nodes not through,
  one with a least set `Above` would have all its predecessors through
  (well-foundedness of strict inclusion of finite sets).
* `ChildRowsAreEnded` — `Spec => []ChildRowsEnd`, through `OrphanInv`: each
  running row without an activity is accounted for by a crash or a failed write.
* `OutputsNameSuccesses` — `Spec => []OutputNamesSuccess`, through `ChildInv` (the row
  at hand is running or cancelled, so writing it takes no success away) and
  `NameInv`.
* `TypeCorrect` — `Spec => [](WalkTypes /\ RowTypes)`.

`EventSchedulerProofs`:

* `SpacingSafety` — `Spec => []ScheduledRunsAreSpaced`, through `SpacedInv`: the
  time a poll takes for the age of an event's last run (`elapsed`, by a clock it
  read before its first script) is at most its age, which is at most the time
  since the last scheduled run. So what is due by the stale clock is due. The
  part about `cur` carries this across the await of the Temporal client; the
  arithmetic of the capped clock is in `UptoBounds` and `TimePasses`.
* `DisablingSafety` — `Spec => []DisabledEventStops`, through `VisitedInv`: an
  event run once after it was disabled is neither in what is left of the poll nor
  enabled, and a query does not return it again.
* `CronSafety` — `Spec => []CronFiresAtMostTwice`, through `CronInv`: if a run was
  recorded for a fire time, the last recorded run is not older than the fire time;
  if two were, it is younger by the guard (`Counted`). By then the fire time is at least two guards old, so no longer due
  (`GuardAssumption`). The same is true of the poll's older clock, and of an
  event at the await of the Temporal client (`Judged`).
* `SchedulerTypeCorrect` — `Spec => []TypeOK`.

`QueueListenerProofs`:

* `PlaceSafety`, `StopSafety` — `Spec => []NoOrphanListener`, `Spec =>
  []StopIsComplete`, through `PlacesInv`: a place in the dictionary is held by a
  task of that event; the awaited task has no other place and is about to end;
  while the scheduler stops, what is alive is still in its list. `PlaceKept` is
  the lemma for every step of a listener.
* `OrderSafety` — `Spec => []HandledInOrder`, through `ReadingInv`: where a task
  reads from, or the message it holds, is not behind what the event's script
  was given. It needs `PlacesInv`: two reading tasks of one event would break it.
* `ListenersTypeCorrect` — `Spec => []TypeOK`.

`PythonNodesProofs`:

* `ContainerSafety`, `SuccessSafety` — `Spec => []ContainersAreRemoved`, `Spec =>
  SuccessMeansExit`, through `ContainerInv`: what each await says of the
  node's container and of what its script has left.
* `CurrentSafety` — `Spec => []FinishedShowsNoneRunning`, through `CurrentInv`: the
  node the key names is between setting and deleting it.
* `LogsSafety` — `Spec => []CancelledLogsAreReal`, through `LogsInv`: the logs are
  those of a node that has stored them, and there are some if any node has.
* `NodesTypeCorrect` — `Spec => []TypeOK`, which names the await every node is at.

`WorkspaceProofs`: `WorkspaceIntegrity` — `Spec => []Integrity`. `Integrity` is
inductive; the proof goes by what a request does to the tables (adds rows, takes
rows away, changes templates), with a lemma for each, as every kind of copy and
every broken-off request is one of these. `ReferencesStayAcyclic` —
`Spec => ReferenceClosesNoCycle`. `Detect` is defined by recursion, of which the
provers know only that it is the value of a function satisfying its equation, if
there is one. `SearchExists` gives one: the calls that return true are the least
fixpoint (`Meeting`, by Knaster and Tarski's argument) of what a call returns. And
for any such function the workflows of calls that return false are closed under
references (`NotDetected`): they hold the workflow referred to and not the one
that refers. That set is what keeps every other workflow from reaching itself.
No induction over the chain of references is needed.

Only model-checked: liveness (`CancelEndsWorkflow`, `UnheldRunEnds`,
`IntervalEventsFire`, `ListenersReconcile`, `SuperstepEnds`, `WalkEnds`), which the
prover does not reach; and the findings' `ResumeSkipsDone` and
`NoSignalSwallowed`, which are false.

## 6. Plan

In this order.

1. A refinement of `GraphEngine` to an abstract dependency order, for acyclic graphs.
2. `GraphAnalysis` — `has_cycle`, back edges, SCCs, entry nodes and next nodes as
   recursive operators against reference definitions, on all graphs of up to
   four nodes. TLC only.
3. `ClientStream` — frames, refetches and reconnects: the store converges.
4. The scripts' own calls of the signal routers, in a composition of
   `EventScheduler` and `SignalRouter`.

## 7. Not modelled, and why

What a node computes, how states are sanitised and serialised, publishing to
Redis for the client (best effort, read by nobody on the server), the wrapper
script inside a container, the LLM and storage providers, embeddings,
`llm_configs`, start-up and migrations: data or I/O the control of a run does not
depend on. Of the editor's tables, attributes no other row depends on (names,
positions, prompts). The client's components render what the server sends; its
store belongs to the plan. Temporal, LangGraph, PostgreSQL, Redis, Docker and
SQLAlchemy are modelled by what the code relies on and marked external in the
map.

Smaller things taken for granted in the modules, each named in its comments: an
exception or a Docker error has a message (an empty one would count as no error);
a Python node that raises does not stop its siblings, which LangGraph cancels;
closing a listener's connection succeeds; an imported workspace is a current export
without workflow nodes.
