---------------------------- MODULE GraphActivity ----------------------------
(***************************************************************************)
(* execute_graph_activity on the Temporal worker: every attempt Temporal   *)
(* makes to execute the graph of one run.                                  *)
(*                                                                         *)
(* LangGraph yields the state after each superstep (a chunk).  After each  *)
(* chunk the activity writes a partial snapshot to the run's row and polls *)
(* the soft-pause flag in Redis; while the flag is set it stays between    *)
(* two chunks.  A wait node writes its workflow_waits row when its         *)
(* superstep runs.  An attempt Temporal has given up on (a timeout, or a   *)
(* cancelled workflow) keeps running until its next heartbeat tells it so: *)
(* attempts of the same run overlap.                                       *)
(*                                                                         *)
(* An attempt is <<stage, try>>: the workflow executes the graph at most   *)
(* twice, and Temporal tries each execution at most MaximumAttempts times. *)
(* Bound: an execution of the graph takes Supersteps chunks.               *)
(***************************************************************************)
EXTENDS RunHistory, FiniteSets

CONSTANTS WaitNodes,   \* the wait nodes of the graph
          Supersteps,  \* chunks of one execution
          Faults       \* which failures the environment may inject

FaultKinds == {"crash",    \* the worker process dies
               "shutdown", \* the worker stops and cancels its activities
               "timeout",  \* Temporal times a live attempt out
               "raise",    \* execute_graph_activity raises
               "node",     \* a node of the graph raises
               "db",       \* a database write fails
               "redis",    \* a read or write of the pause flag fails
               "rpc"}      \* a call to the Temporal server fails

ASSUME ConstantsAssumption ==
  /\ Supersteps \in Nat \ {0}
  /\ Faults \subseteq FaultKinds

VARIABLES row,       \* the run's run_history row
          pauseFlag, \* the Redis key run:{run_id}:paused exists
          armed,     \* wait nodes whose workflow_waits row is unsatisfied
          attempt,   \* the attempts at executing the graph
          overrun    \* observation: chunks an attempt yielded since the
                     \* pause flag was last set

activityVars == <<row, pauseFlag, armed, attempt, overrun>>

\* RetryPolicy(maximum_attempts=2) of both execute_activity calls.
MaximumAttempts == 2

Attempts == (1 .. 2) \X (1 .. MaximumAttempts)

\* "scheduled" at the task queue, "stream"ing chunks, "held" by the pause
\* flag, "returned" with a result Temporal has not handed to the workflow,
\* "delivered", or "gone" without a result.
AttemptPc == {"idle", "scheduled", "stream", "held", "returned",
              "delivered", "gone"}

Results == {"none", "ok", "failed", "suspended"}

Attempt == [pc        : AttemptPc,
            base      : Nat,               \* outputs in its initial state
            done      : Nat,               \* outputs in last_state
            ahead     : SUBSET WaitNodes,  \* wait nodes it has yet to reach
            reached   : SUBSET WaitNodes,  \* wait nodes suspended in it
            abandoned : BOOLEAN,           \* Temporal gave it up
            result    : Results]

Idle == [pc |-> "idle", base |-> 0, done |-> 0, ahead |-> {},
         reached |-> {}, abandoned |-> FALSE, result |-> "none"]

ActivityTypeOK ==
  /\ row \in RunRow
  /\ pauseFlag \in BOOLEAN
  /\ armed \subseteq WaitNodes
  /\ attempt \in [Attempts -> Attempt]
  /\ overrun \in [Attempts -> Nat]

ActivityInit ==
  /\ row = CreateRun
  /\ pauseFlag = FALSE
  /\ armed = {}
  /\ attempt = [a \in Attempts |-> Idle]
  /\ overrun = [a \in Attempts |-> 0]

-----------------------------------------------------------------------------

\* The activity's own writes catch every database error, log it and go on.
TryWrite(new) == row' = new \/ ("db" \in Faults /\ row' = row)

\* _is_run_paused: an error reads as "not paused".
PauseRead == {pauseFlag} \cup IF "redis" \in Faults THEN {FALSE} ELSE {}

AtChunkBoundary(paused) == IF paused THEN "held" ELSE "stream"

\* Temporal puts an attempt on the task queue.
Scheduled(base, waits) ==
  [Idle EXCEPT !.pc = "scheduled", !.base = base, !.done = base,
               !.ahead = waits]

\* The worker starts the attempt: the first chunk is the initial state.
Begin(a) ==
  /\ attempt[a].pc = "scheduled"
  /\ ~attempt[a].abandoned
  /\ TryWrite(PersistPartial(row, attempt[a].base))
  /\ \E paused \in PauseRead :
       attempt' = [attempt EXCEPT ![a].pc = AtChunkBoundary(paused)]
  /\ UNCHANGED <<pauseFlag, armed, overrun>>

\* persist_wait_state replaces the row of each wait node that is reached; the
\* wait node suspends even if the write failed.
PersistWaitStates(waits) ==
  \/ armed' = armed \cup waits
  \/ "db" \in Faults /\ \E lost \in SUBSET waits : armed' = armed \cup (waits \ lost)

\* One superstep and what follows it in the astream loop.  The last one has
\* reached every wait node of this execution.
Chunk(a) ==
  LET t == attempt[a] IN
  /\ t.pc = "stream"
  /\ t.done < t.base + Supersteps
  /\ \E waits \in SUBSET t.ahead, paused \in PauseRead :
       /\ t.done + 1 = t.base + Supersteps => waits = t.ahead
       /\ PersistWaitStates(waits)
       /\ attempt' = [attempt EXCEPT
                        ![a].pc = AtChunkBoundary(paused),
                        ![a].done = t.done + 1,
                        ![a].ahead = t.ahead \ waits,
                        ![a].reached = t.reached \cup waits]
  /\ TryWrite(PersistPartial(row, t.done + 1))
  /\ overrun' = [overrun EXCEPT ![a] = IF pauseFlag THEN @ + 1 ELSE 0]
  /\ UNCHANGED pauseFlag

\* Mutant: `if paused' for `while paused'.
PollOnce(a) ==
  /\ attempt[a].pc = "held"
  /\ attempt' = [attempt EXCEPT ![a].pc = "stream"]
  /\ UNCHANGED <<row, pauseFlag, armed, overrun>>

\* The loop `while paused' polls again.
Poll(a) ==
  /\ attempt[a].pc = "held"
  /\ FALSE \in PauseRead
  /\ attempt' = [attempt EXCEPT ![a].pc = "stream"]
  /\ UNCHANGED <<row, pauseFlag, armed, overrun>>

Return(a, result) ==
  attempt' = [attempt EXCEPT ![a].pc = "returned", ![a].result = result]

\* The stream is exhausted: a state with a suspended wait node goes back to
\* the workflow as it is, any other is persisted first.
Finish(a) ==
  LET t == attempt[a] IN
  /\ t.pc = "stream"
  /\ t.done = t.base + Supersteps
  /\ \/ /\ t.reached # {}
        /\ Return(a, "suspended")
        /\ UNCHANGED row
     \/ /\ t.reached = {}
        /\ Return(a, "ok")
        /\ TryWrite(PersistFinal(row, t.done, "success"))
  /\ UNCHANGED <<pauseFlag, armed, overrun>>

\* A node raises: the partial state is persisted with the error.  What tells it
\* from a success is str(e), which is taken not to be empty.
NodeFails(a) ==
  /\ "node" \in Faults
  /\ attempt[a].pc = "stream"
  /\ attempt[a].done < attempt[a].base + Supersteps
  /\ Return(a, "failed")
  /\ TryWrite(PersistFinal(row, attempt[a].done, "error"))
  /\ UNCHANGED <<pauseFlag, armed, overrun>>

\* asyncio.CancelledError inside the stream: a heartbeat told the attempt
\* that it was abandoned, or the worker is shutting down.
StreamCancelled(a) ==
  /\ attempt[a].pc \in {"stream", "held"}
  /\ attempt[a].abandoned \/ "shutdown" \in Faults
  /\ TryWrite(PersistOnCancel(row, attempt[a].done))
  /\ attempt' = [attempt EXCEPT ![a].pc = "gone"]
  /\ UNCHANGED <<pauseFlag, armed, overrun>>

\* A scheduled attempt that was abandoned never starts.
NeverStarted(a) ==
  /\ attempt[a].pc = "scheduled"
  /\ attempt[a].abandoned
  /\ attempt' = [attempt EXCEPT ![a].pc = "gone"]
  /\ UNCHANGED <<row, pauseFlag, armed, overrun>>

\* The worker dies, or the activity raises, with nothing written.
Dies(a) ==
  /\ \/ "crash" \in Faults /\ attempt[a].pc \in {"stream", "held", "returned"}
     \/ "raise" \in Faults /\ attempt[a].pc = "scheduled"
  /\ attempt' = [attempt EXCEPT ![a].pc = "gone"]
  /\ UNCHANGED <<row, pauseFlag, armed, overrun>>

\* What the worker does by itself, and what the environment does to it.
AttemptSteps(a) ==
  \/ Begin(a) \/ Chunk(a) \/ Poll(a) \/ Finish(a) \/ NeverStarted(a)
  \/ StreamCancelled(a)
AttemptFaults(a) == NodeFails(a) \/ Dies(a)
=============================================================================
