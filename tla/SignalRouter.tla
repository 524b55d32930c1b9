---------------------------- MODULE SignalRouter ----------------------------
(***************************************************************************)
(* The signal endpoints of api/signals.py, services/signals/channel_router *)
(* and services/signals/wait_service: how a signal somebody publishes      *)
(* finds the wait nodes of the runs that wait for it.                      *)
(*                                                                         *)
(* The endpoints run on the one event loop of the API server: a handler    *)
(* keeps the loop until it awaits the answer of the Temporal server.  The  *)
(* worker is another process and writes workflow_waits at any time.  A     *)
(* handler works with its own database session: the rows it has fetched    *)
(* stay as they were until it commits, and are read again after that; what *)
(* it has changed is lost if it ends without a commit.                     *)
(*                                                                         *)
(* There is one channel; waits on another are not fetched.  Bounds: each   *)
(* element of Calls is one request, and the row of a wait node is inserted *)
(* once, of those in Rearmed twice (a retry reaches the wait node again).  *)
(***************************************************************************)
EXTENDS Naturals, FiniteSets

CONSTANTS Runs,      \* the runs
          Waiters,   \* their wait nodes
          RunOf,     \* the run of a wait node
          Mode,      \* its mode
          Needed,    \* its signals_needed (mode "signal": the first of them)
          Timed,     \* the wait nodes with a timeout
          Signals,   \* the signal names
          Calls,     \* the requests to the signal endpoints
          MaxFanout, \* settings.signal_channel_max_fanout
          Rearmed,   \* bound: wait nodes whose row is inserted a second time
          Clients,   \* what callers hand to the router as its client
          LateRuns,  \* runs that may wait before their workflow id is recorded
          LossyRuns  \* runs a signal may fail to reach

\* The class TemporalClient has send_receive_signal; the temporalio Client that
\* TemporalClient.get_client returns has not, nor has None, which stands for
\* it when Temporal cannot be reached.
ClientKinds == {"TemporalClient", "Client", "None"}

ASSUME RouterAssumption ==
  /\ RunOf \in [Waiters -> Runs]
  /\ Mode \in [Waiters -> {"signal", "any", "all", "time", "until"}]
  /\ Needed \in [Waiters -> SUBSET Signals]
  /\ \A w \in Waiters : Mode[w] = "signal" => Cardinality(Needed[w]) <= 1
  /\ Timed \subseteq Waiters
  /\ MaxFanout \in Nat \ {0}
  /\ Rearmed \subseteq Waiters
  /\ Clients \subseteq ClientKinds
  /\ LateRuns \subseteq Runs /\ LossyRuns \subseteq Runs

VARIABLES wait,     \* the workflow_waits rows
          expired,  \* wait nodes whose row's timeout_at has passed
          recorded, \* runs with a temporal_workflow_id
          status,   \* the status of each run, as far as the endpoints look
          open,     \* runs whose workflow is open
          told,     \* observation: wait nodes whose workflow has received a
                    \* signal since the row was inserted
          heard,    \* observation: the signals of the calls that fetched the
                    \* row of a wait node
          call,     \* the handlers
          loop      \* the call the event loop runs, or "free"

runVars == <<recorded, status, open>>
vars == <<wait, expired, recorded, status, open, told, heard, call, loop>>

\* The row of a wait node; arms counts the insertions, 0 is "no row".
Row == [arms : Nat, received : SUBSET Signals, satisfied : BOOLEAN]

NoRow == [arms |-> 0, received |-> {}, satisfied |-> FALSE]

Call == [pc       : {"idle", "connect", "route", "send", "await", "done",
                     "failed"},
         kind     : {"channel", "run"},
         signal   : Signals,
         client   : Clients,
         about    : SUBSET Runs,       \* the run it has found waiting
         fetched  : SUBSET Waiters,    \* the waits it fetched
         todo     : SUBSET Waiters,    \* ... and has still to look at
         seen     : [Waiters -> Row],  \* the rows as it fetched them
         stale    : BOOLEAN,           \* it has committed since
         dirty    : SUBSET Waiters,    \* uncommitted signals_received
         to       : SUBSET Waiters]    \* the wait node it is notifying

Idle(s, k) == [pc |-> "idle", kind |-> "channel", signal |-> s, client |-> k,
               about |-> {}, fetched |-> {}, todo |-> {},
               seen |-> [w \in Waiters |-> NoRow], stale |-> FALSE,
               dirty |-> {}, to |-> {}]

TypeOK ==
  /\ wait \in [Waiters -> Row]
  /\ expired \subseteq Timed
  /\ recorded \subseteq Runs
  /\ status \in [Runs -> {"queued", "running", "waiting", "ended"}]
  /\ open \subseteq Runs
  /\ told \subseteq Waiters
  /\ heard \in [Waiters -> SUBSET Signals]
  /\ call \in [Calls -> Call]
  /\ loop \in Calls \cup {"free"}

Init ==
  /\ wait = [w \in Waiters |-> NoRow]
  /\ expired = {}
  /\ recorded = Runs \ LateRuns
  /\ status = [r \in Runs |-> IF r \in LateRuns THEN "queued" ELSE "running"]
  /\ open = Runs
  /\ told = {}
  /\ heard = [w \in Waiters |-> {}]
  /\ call \in [Calls -> {Idle(s, k) : s \in Signals, k \in Clients}]
  /\ loop = "free"

-----------------------------------------------------------------------------
(* The worker, the workflows and the run API.                              *)

\* persist_wait_state: delete the row if there is one, insert a new one.
PersistWaitState(w) ==
  /\ RunOf[w] \in open
  /\ wait[w].arms < IF w \in Rearmed THEN 2 ELSE 1
  /\ wait' = [wait EXCEPT ![w] = [NoRow EXCEPT !.arms = wait[w].arms + 1]]
  /\ expired' = expired \ {w}
  /\ told' = told \ {w}
  /\ UNCHANGED <<runVars, heard, call, loop>>

\* Mutant: a row without timeout_at counts as expired.
ExpireAny(w) ==
  /\ w \notin expired
  /\ wait[w].arms > 0
  /\ expired' = expired \cup {w}
  /\ UNCHANGED <<wait, runVars, told, heard, call, loop>>

\* timeout_at passes.
Expire(w) ==
  /\ w \in Timed \ expired
  /\ wait[w].arms > 0
  /\ expired' = expired \cup {w}
  /\ UNCHANGED <<wait, runVars, told, heard, call, loop>>

\* start_temporal_workflow records the workflow id.
Record(r) ==
  /\ r \notin recorded
  /\ recorded' = recorded \cup {r}
  /\ status' = [status EXCEPT ![r] = "running"]
  /\ UNCHANGED <<wait, expired, open, told, heard, call, loop>>

\* The workflow saves "waiting" when its graph is suspended.
Suspend(r) ==
  /\ r \in open
  /\ status[r] # "waiting"
  /\ \E w \in Waiters : RunOf[w] = r /\ wait[w].arms > 0
  /\ status' = [status EXCEPT ![r] = "waiting"]
  /\ UNCHANGED <<wait, expired, recorded, open, told, heard, call, loop>>

\* The workflow ends.  Its wait rows stay: nothing calls cleanup_run_waits.
Close(r) ==
  /\ r \in open
  /\ open' = open \ {r}
  /\ status' = [status EXCEPT ![r] = "ended"]
  /\ UNCHANGED <<wait, expired, recorded, told, heard, call, loop>>

-----------------------------------------------------------------------------
(* A request starts: the waits are fetched.                                *)

Active(w) == wait[w].arms > 0 /\ ~wait[w].satisfied

\* get_waits_for_channel, and the cut at max_fanout (the query has no order).
ChannelWaits ==
  LET active == {w \in Waiters : Active(w) /\ w \notin expired}
  IN  {ws \in SUBSET active :
         Cardinality(ws) = IF Cardinality(active) > MaxFanout
                           THEN MaxFanout ELSE Cardinality(active)}

\* get_active_waits
RunWaits(r) == {w \in Waiters : RunOf[w] = r /\ Active(w)}

Fetch(c, kind, ws) ==
  /\ loop = "free"
  /\ loop' = c
  /\ call' = [call EXCEPT ![c].pc = "route", ![c].kind = kind,
                          ![c].about = {}, ![c].fetched = ws, ![c].todo = ws,
                          ![c].seen = [w \in Waiters |-> IF w \in ws
                                                         THEN wait[w]
                                                         ELSE NoRow]]
  /\ heard' = [w \in Waiters |-> heard[w] \cup IF w \in ws
                                               THEN {call[c].signal} ELSE {}]
  /\ UNCHANGED <<wait, expired, runVars, told>>

\* emit_channel_signal gets its client before it reads anything.
EmitChannelSignal(c) ==
  /\ call[c].pc = "idle"
  /\ \E ws \in ChannelWaits : Fetch(c, "channel", ws)

\* send_run_signal answers with 409 for a run that is not "waiting", and then
\* gets its client: while that connects, the event loop is free.
FindWaiting(c) ==
  /\ call[c].pc = "idle"
  /\ loop = "free"
  /\ \E r \in Runs :
       /\ status[r] = "waiting"
       /\ call' = [call EXCEPT ![c].pc = "connect", ![c].about = {r}]
  /\ UNCHANGED <<wait, expired, runVars, told, heard, loop>>

SendRunSignal(c) ==
  /\ call[c].pc = "connect"
  /\ \E r \in call[c].about : Fetch(c, "run", RunWaits(r))

-----------------------------------------------------------------------------
(* The loop over the waits.                                                *)

\* The row of wait w as call c sees it.
SeenBy(c, w) == IF call[c].stale THEN wait[w] ELSE call[c].seen[w]

\* The row call c fetched has been deleted by persist_wait_state.
Replaced(c, w) == wait[w].arms # call[c].seen[w].arms

\* Mutant: any needed signal satisfies mode "all".
MatchesAny(w, received, s) ==
  CASE Mode[w] \in {"signal", "any", "all"} -> Needed[w] = {} \/ s \in Needed[w]
    [] Mode[w] \in {"time", "until"} -> FALSE

\* _evaluate_signal
Matches(w, received, s) ==
  CASE Mode[w] \in {"signal", "any"} -> Needed[w] = {} \/ s \in Needed[w]
    [] Mode[w] = "all" -> Needed[w] \subseteq received \cup {s}
    [] Mode[w] \in {"time", "until"} -> FALSE

\* Evaluating a wait in mode "all" appends the signal to signals_received.
Appended(c, w) ==
  IF Mode[w] = "all" /\ call[c].signal \notin SeenBy(c, w).received
  THEN call[c].dirty \cup {w} ELSE call[c].dirty

Routing(c) == loop = c /\ call[c].pc = "route"

Skip(c, w) ==
  /\ Routing(c)
  /\ w \in call[c].todo
  /\ ~(call[c].stale /\ Replaced(c, w))
  /\ ~Matches(w, SeenBy(c, w).received, call[c].signal)
  /\ call' = [call EXCEPT ![c].todo = @ \ {w}, ![c].dirty = Appended(c, w)]
  /\ UNCHANGED <<wait, expired, runVars, told, heard, loop>>

\* flush, then mark_wait_satisfied, which commits if it finds the row.
MarkWaitSatisfied(c, w) ==
  LET dirty == Appended(c, w) IN
  /\ Routing(c)
  /\ w \in call[c].todo
  /\ ~(call[c].stale /\ Replaced(c, w))
  /\ Matches(w, SeenBy(c, w).received, call[c].signal)
  /\ ~ \E d \in dirty : Replaced(c, d)
  /\ IF Replaced(c, w)
     THEN /\ call' = [call EXCEPT ![c].pc = "send", ![c].to = {w},
                                  ![c].todo = @ \ {w}]
          /\ UNCHANGED wait
     ELSE /\ call' = [call EXCEPT ![c].pc = "send", ![c].to = {w},
                                  ![c].todo = @ \ {w}, ![c].stale = TRUE,
                                  ![c].dirty = {}]
          /\ wait' = [d \in Waiters |->
                        [wait[d] EXCEPT
                           !.received = @ \cup IF d \in dirty
                                               THEN {call[c].signal} ELSE {},
                           !.satisfied = @ \/ d = w]]
  /\ UNCHANGED <<expired, runVars, told, heard, loop>>

\* A fetched row that is gone raises: when it is read again after a commit,
\* or when a change to it is flushed.  The request ends with the exception.
RowIsGone(c, w) ==
  /\ Routing(c)
  /\ w \in call[c].todo
  /\ \/ call[c].stale /\ Replaced(c, w)
     \/ /\ Matches(w, SeenBy(c, w).received, call[c].signal)
        /\ \E d \in Appended(c, w) : Replaced(c, d)
  /\ call' = [call EXCEPT ![c].pc = "failed"]
  /\ loop' = "free"
  /\ UNCHANGED <<wait, expired, runVars, told, heard>>

-----------------------------------------------------------------------------
(* temporal_client.send_receive_signal                                     *)

\* After a send the channel router goes on, the run router is done.
AfterSend(c) == IF call[c].kind = "channel" THEN "route" ELSE "done"

HasSend(c) == call[c].client = "TemporalClient"

HasWorkflow(r) == r \in recorded

\* An object without send_receive_signal raises AttributeError, which is
\* caught; a run without a workflow id gives False.  Neither awaits.
NoSend(c) ==
  /\ loop = c
  /\ call[c].pc = "send"
  /\ ~HasSend(c) \/ \A w \in call[c].to : ~HasWorkflow(RunOf[w])
  /\ call' = [call EXCEPT ![c].pc = AfterSend(c), ![c].to = {}]
  /\ loop' = IF call[c].kind = "channel" THEN c ELSE "free"
  /\ UNCHANGED <<wait, expired, runVars, told, heard>>

\* handle.signal: the event loop is free until Temporal answers.
Send(c) ==
  /\ loop = c
  /\ call[c].pc = "send"
  /\ HasSend(c) /\ \A w \in call[c].to : HasWorkflow(RunOf[w])
  /\ call' = [call EXCEPT ![c].pc = "await"]
  /\ loop' = "free"
  /\ UNCHANGED <<wait, expired, runVars, told, heard>>

Hears(c) ==
  /\ \A w \in call[c].to : RunOf[w] \in open
  /\ told' = told \cup call[c].to

Refuses(c) ==
  /\ \A w \in call[c].to : RunOf[w] \in LossyRuns \/ RunOf[w] \notin open
  /\ UNCHANGED told

\* Mutant: the loop over the waits ends with the first refused send.
AnswerOnly(c) ==
  /\ loop = "free"
  /\ call[c].pc = "await"
  /\ \/ /\ Hears(c)
        /\ call' = [call EXCEPT ![c].pc = AfterSend(c), ![c].to = {}]
        /\ loop' = IF call[c].kind = "channel" THEN c ELSE "free"
     \/ /\ Refuses(c)
        /\ call' = [call EXCEPT ![c].pc = "done", ![c].to = {}]
        /\ loop' = "free"
  /\ UNCHANGED <<wait, expired, runVars, heard>>

\* The workflow receives the signal, or Temporal refuses it: the router does
\* not look at the difference.
Answer(c) ==
  /\ loop = "free"
  /\ call[c].pc = "await"
  /\ \/ Hears(c)
     \/ Refuses(c)
  /\ call' = [call EXCEPT ![c].pc = AfterSend(c), ![c].to = {}]
  /\ loop' = IF call[c].kind = "channel" THEN c ELSE "free"
  /\ UNCHANGED <<wait, expired, runVars, heard>>

\* Nothing is left to look at.  get_db closes the session: uncommitted
\* changes are rolled back.
Respond(c) ==
  /\ Routing(c)
  /\ call[c].todo = {}
  /\ call' = [call EXCEPT ![c].pc = "done", ![c].dirty = {}]
  /\ loop' = "free"
  /\ UNCHANGED <<wait, expired, runVars, told, heard>>

Request(c) ==
  \/ EmitChannelSignal(c) \/ FindWaiting(c) \/ SendRunSignal(c)
  \/ NoSend(c) \/ Send(c) \/ Answer(c) \/ Respond(c)
  \/ \E w \in Waiters :
       Skip(c, w) \/ MarkWaitSatisfied(c, w) \/ RowIsGone(c, w)

Next == \/ \E c \in Calls : Request(c)
        \/ \E w \in Waiters : PersistWaitState(w) \/ Expire(w)
        \/ \E r \in Runs : Record(r) \/ Suspend(r) \/ Close(r)

Spec == Init /\ [][Next]_vars

-----------------------------------------------------------------------------
(* Properties                                                              *)

\* No signal is swallowed: a wait that is marked satisfied, and will not be
\* looked at again, has been reported to its workflow or is about to be, if
\* the workflow's id had been recorded and Temporal takes the signal.  That is
\* the wake-up docs/scheduling.md promises to whoever publishes; the client
\* the endpoints really pass keeps it from every workflow.
NoSignalSwallowed ==
  \A w \in Waiters :
    /\ wait[w].satisfied
    /\ RunOf[w] \in open
    /\ RunOf[w] \notin LateRuns \cup LossyRuns
    => \/ w \in told
       \/ \E c \in Calls : call[c].pc \in {"send", "await"} /\ w \in call[c].to

\* A workflow is only woken by signals that satisfy its wait: one of those it
\* needs, in mode "all" every one of them, and none in the timer modes.
WakeupIsWarranted ==
  \A w \in told :
    CASE Mode[w] \in {"signal", "any"} ->
           IF Needed[w] = {} THEN heard[w] # {} ELSE heard[w] \cap Needed[w] # {}
      [] Mode[w] = "all" -> Needed[w] \subseteq heard[w]
      [] Mode[w] \in {"time", "until"} -> FALSE

\* One refused send does not stop the fan-out: when a channel request has
\* been answered, every wait it fetched and its signal matches is satisfied,
\* unless the worker has replaced the row.
FanOutIsComplete ==
  \A c \in Calls :
    call[c].pc = "done" /\ call[c].kind = "channel" =>
      \A w \in call[c].fetched :
        Matches(w, call[c].seen[w].received, call[c].signal) =>
          wait[w].satisfied \/ Replaced(c, w)
=============================================================================
