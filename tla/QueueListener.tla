---------------------------- MODULE QueueListener ----------------------------
(***************************************************************************)
(* Events of type "queue": _listen_queue, sync_listeners and               *)
(* stop_all_listeners (services/events/queue_listener.py), and how the     *)
(* scheduler's loop and its shutdown use them (services/events/            *)
(* scheduler.py).                                                          *)
(*                                                                         *)
(* Every enabled queue event has a task of its own that reads a Redis      *)
(* stream.  sync_listeners runs on each turn of the scheduler's loop.      *)
(* Tasks interleave at their awaits only: the blocking XREAD, the          *)
(* connection run_event_script may wait for, the sleep after an error,     *)
(* r.close(), and the await of a cancelled task.  Between two awaits a     *)
(* handler is one step (pc = "sync" admits no other step).                 *)
(*                                                                         *)
(* Redis is external: a stream is the number of messages added to it, a    *)
(* message is its position, XREAD from "$" starts behind the last message  *)
(* present when the server receives the call.  Closing a connection is     *)
(* taken to succeed: an error of r.close() would leave sync_listeners or   *)
(* stop_all_listeners at the await of that task.                           *)
(***************************************************************************)
EXTENDS Naturals, FiniteSets

CONSTANTS
    Events,       \* queue events
    Edited,       \* those that requests rename and delete, not only switch
    Queues,       \* names of streams
    Slots,        \* identities of listener tasks, at least one per event
    MaxMessages   \* messages added to one stream

ASSUME ListenerAssumption ==
    /\ Edited \subseteq Events
    /\ Slots \subseteq Nat \ {0} /\ IsFiniteSet(Slots)
    /\ MaxMessages \in Nat

None == "none"     \* no queue name; no event
NewOnly == 0       \* last_id "$"

VARIABLES
    exists, enabled, \* per event: the row is there; Event.enabled
    queue,           \* Event.queue_name
    stream,          \* per queue: messages added so far
    client,          \* TemporalClient._instance is set
    task,            \* per slot: the state of a listener task
    dict,            \* _listener_tasks: the slot of the event's task, or 0
    pc,              \* the scheduler's task: "sleep" | "sync" | "await" |
                     \* "stopping" | "stopped"
    wanted,          \* sync_listeners' snapshot: the queue name, or None
    keys,            \* events its first loop has yet to visit
    awaiting,        \* the slot of the cancelled task being awaited, or 0
    stop,            \* stop_scheduler has cancelled the scheduler's task
    handled,         \* history: per event and queue, last message its script got
    disorder         \* history: a message was given twice or after a later one

rowVars  == <<exists, enabled, queue>>
syncVars == <<pc, wanted, keys, awaiting>>
histVars == <<handled, disorder>>
vars == <<rowVars, stream, client, task, dict, syncVars, stop, histVars>>

\* A task is created or between two reads, asleep for five seconds if the last
\* iteration failed ("idle"), at its XREAD ("block", server side cursor cur),
\* waiting for a client with message last ("run"), in its finally clause
\* ("closing") or over ("done").
Free == [st |-> "free", ev |-> None, q |-> None, last |-> 0, cur |-> 0]
Started(e, q) == [st |-> "idle", ev |-> e, q |-> q, last |-> NewOnly, cur |-> 0]
At(t, st, last, cur) == [st |-> st, ev |-> t.ev, q |-> t.q, last |-> last, cur |-> cur]
Over(t) == t.st \in {"free", "done"}

Init ==
    /\ exists = [e \in Events |-> TRUE] /\ enabled = [e \in Events |-> TRUE]
    /\ queue \in [Events -> Queues]
    /\ stream = [q \in Queues |-> 0]
    /\ client = FALSE
    /\ task = [s \in Slots |-> Free] /\ dict = [e \in Events |-> 0]
    /\ pc = "sleep" /\ wanted = [e \in Events |-> None] /\ keys = {}
    /\ awaiting = 0 /\ stop = FALSE
    /\ handled = [e \in Events |-> [q \in Queues |-> 0]] /\ disorder = FALSE

Moves == pc # "sync"    \* the event loop is free for another task

-----------------------------------------------------------------------------
\* _listen_queue.

\* Mutant: the position read from is that of the stream's first message.
FromStart(t) == IF t.last = NewOnly THEN 0 ELSE t.last

\* Where the server starts to read for last_id.
From(t) == IF t.last = NewOnly THEN stream[t.q] ELSE t.last

Issue(s) ==
    /\ Moves /\ task[s].st = "idle"
    /\ task' = [task EXCEPT ![s] = At(@, "block", @.last, From(@))]
    /\ UNCHANGED <<rowVars, stream, client, dict, syncVars, stop, histVars>>

\* Nothing came within the block time, or the call failed (message or not).
ReadFails(s) ==
    /\ Moves /\ task[s].st = "block"
    /\ task' = [task EXCEPT ![s] = At(@, "idle", @.last, 0)]
    /\ UNCHANGED <<rowVars, stream, client, dict, syncVars, stop, histVars>>

\* The script is executed with message m of queue q.
RunScript(e, q, m) ==
    /\ disorder' = (disorder \/ m <= handled[e][q])
    /\ handled' = [handled EXCEPT ![e][q] = m]

\* XREAD returns one message.  last_id moves past it before anything else.
Deliver(s) ==
    /\ Moves /\ task[s].st = "block" /\ stream[task[s].q] > task[s].cur
    /\ LET t == task[s]
           m == t.cur + 1
           Goes(st) == task' = [task EXCEPT ![s] = At(@, st, m, 0)]
       IN \/ /\ ~exists[t.ev]
             /\ Goes("idle") /\ UNCHANGED histVars
          \/ /\ exists[t.ev] /\ ~enabled[t.ev]
             /\ Goes("closing") /\ UNCHANGED histVars
          \/ /\ exists[t.ev] /\ enabled[t.ev] /\ ~client
             /\ Goes("run") /\ UNCHANGED histVars
          \/ /\ exists[t.ev] /\ enabled[t.ev] /\ client
             /\ Goes("idle")
             /\ RunScript(t.ev, t.q, m)
    /\ UNCHANGED <<rowVars, stream, client, dict, syncVars, stop>>

\* The connection attempt of get_client ends, one way or the other.
ClientAnswers(s, up) ==
    /\ Moves /\ task[s].st = "run"
    /\ client' = (client \/ up)
    /\ task' = [task EXCEPT ![s] = At(@, "idle", @.last, 0)]
    /\ RunScript(task[s].ev, task[s].q, task[s].last)
    /\ UNCHANGED <<rowVars, stream, dict, syncVars, stop>>

\* r.close() returns; a task that nobody holds is gone.
Finished(s) == IF dict[task[s].ev] = s \/ awaiting = s
               THEN At(task[s], "done", 0, 0)
               ELSE Free

Closed(s) ==
    /\ Moves /\ task[s].st = "closing"
    /\ task' = [task EXCEPT ![s] = Finished(s)]
    /\ UNCHANGED <<rowVars, stream, client, dict, syncVars, stop, histVars>>

\* What task.cancel() makes of a task at any of its awaits.
Cancelled(t) == At(t, "closing", 0, 0)

-----------------------------------------------------------------------------
\* sync_listeners.

Wanted(e) == exists[e] /\ enabled[e] /\ queue[e] # None

SyncBegin ==
    /\ pc = "sleep"
    /\ pc' = "sync"
    /\ wanted' = [e \in Events |-> IF Wanted(e) THEN queue[e] ELSE None]
    /\ keys' = {e \in Events : dict[e] # 0}
    /\ UNCHANGED <<rowVars, stream, client, task, dict, awaiting, stop, histVars>>

Keep(e) ==
    /\ pc = "sync" /\ e \in keys
    /\ wanted[e] # None /\ ~Over(task[dict[e]])
    /\ keys' = keys \ {e}
    /\ UNCHANGED <<rowVars, stream, client, task, dict, pc, wanted, awaiting,
                   stop, histVars>>

DropDone(e) ==
    /\ pc = "sync" /\ e \in keys /\ Over(task[dict[e]])
    /\ keys' = keys \ {e}
    /\ task' = [task EXCEPT ![dict[e]] = Free]
    /\ dict' = [dict EXCEPT ![e] = 0]
    /\ UNCHANGED <<rowVars, stream, client, pc, wanted, awaiting, stop, histVars>>

\* Mutant: the task is popped and left alone.
CancelUnwantedPopOnly(e) ==
    /\ pc = "sync" /\ e \in keys
    /\ wanted[e] = None /\ ~Over(task[dict[e]])
    /\ keys' = keys \ {e}
    /\ dict' = [dict EXCEPT ![e] = 0]
    /\ UNCHANGED <<rowVars, stream, client, task, pc, wanted, awaiting, stop, histVars>>

CancelUnwanted(e) ==
    /\ pc = "sync" /\ e \in keys
    /\ wanted[e] = None /\ ~Over(task[dict[e]])
    /\ keys' = keys \ {e}
    /\ dict' = [dict EXCEPT ![e] = 0]
    /\ task' = [task EXCEPT ![dict[e]] = Cancelled(@)]
    /\ pc' = "await" /\ awaiting' = dict[e]
    /\ UNCHANGED <<rowVars, stream, client, wanted, stop, histVars>>

\* The awaited task has ended.
AwaitEnds ==
    /\ pc = "await" /\ Over(task[awaiting])
    /\ task' = [task EXCEPT ![awaiting] = Free]
    /\ pc' = "sync" /\ awaiting' = 0
    /\ UNCHANGED <<rowVars, stream, client, dict, wanted, keys, stop, histVars>>

Missing == {e \in Events : wanted[e] # None /\ (dict[e] = 0 \/ Over(task[dict[e]]))}

\* A new task gets the first identity that is free.
Unused(s) == /\ task[s].st = "free"
             /\ \A r \in Slots : task[r].st = "free" => s <= r

StartListener(e) ==
    /\ pc = "sync" /\ keys = {} /\ e \in Missing
    /\ \E s \in Slots :
          /\ IF dict[e] = 0 THEN Unused(s) ELSE s = dict[e]
          /\ task' = [task EXCEPT ![s] = Started(e, wanted[e])]
          /\ dict' = [dict EXCEPT ![e] = s]
    /\ UNCHANGED <<rowVars, stream, client, syncVars, stop, histVars>>

SyncEnd ==
    /\ pc = "sync" /\ keys = {} /\ Missing = {}
    /\ pc' = "sleep" /\ wanted' = [e \in Events |-> None]
    /\ UNCHANGED <<rowVars, stream, client, task, dict, keys, awaiting, stop, histVars>>

-----------------------------------------------------------------------------
\* stop_scheduler and stop_all_listeners.

\* The scheduler's task ends at once when it sleeps.  At the await in
\* sync_listeners the cancellation goes to the awaited task, and what comes back
\* is swallowed there: the loop goes on.
Stop ==
    /\ pc \in {"sleep", "await"} /\ ~stop
    /\ stop' = TRUE
    /\ IF pc = "sleep"
       THEN /\ pc' = "stopping" /\ keys' = {e \in Events : dict[e] # 0}
            /\ UNCHANGED task
       ELSE /\ task' = [task EXCEPT ![awaiting] = At(@, "done", 0, 0)]
            /\ UNCHANGED <<pc, keys>>
    /\ UNCHANGED <<rowVars, stream, client, dict, wanted, awaiting, histVars>>

StopOne(e) ==
    /\ pc = "stopping" /\ awaiting = 0 /\ e \in keys
    /\ IF Over(task[dict[e]])
       THEN keys' = keys \ {e} /\ UNCHANGED <<task, awaiting>>
       ELSE /\ task' = [task EXCEPT ![dict[e]] = Cancelled(@)]
            /\ awaiting' = dict[e]
            /\ UNCHANGED keys
    /\ UNCHANGED <<rowVars, stream, client, dict, pc, wanted, stop, histVars>>

StopAwaitEnds ==
    /\ pc = "stopping" /\ awaiting # 0 /\ Over(task[awaiting])
    /\ keys' = {e \in keys : dict[e] # awaiting} /\ awaiting' = 0
    /\ UNCHANGED <<rowVars, stream, client, task, dict, pc, wanted, stop, histVars>>

\* Mutant: the dictionary is cleared without waiting for the tasks.
StopDoneEarly ==
    /\ pc = "stopping" /\ awaiting = 0
    /\ pc' = "stopped" /\ keys' = {}
    /\ dict' = [e \in Events |-> 0]
    /\ UNCHANGED <<rowVars, stream, client, task, wanted, awaiting, stop, histVars>>

\* _listener_tasks.clear(); the process ends.
StopDone ==
    /\ pc = "stopping" /\ awaiting = 0 /\ keys = {}
    /\ pc' = "stopped"
    /\ dict' = [e \in Events |-> 0]
    /\ task' = [s \in Slots |-> IF Over(task[s]) THEN Free ELSE task[s]]
    /\ UNCHANGED <<rowVars, stream, client, keys, wanted, awaiting, stop, histVars>>

\* The next process starts from the table.
Restart ==
    /\ pc = "stopped"
    /\ pc' = "sleep" /\ stop' = FALSE /\ client' = FALSE
    /\ task' = [s \in Slots |-> Free]
    /\ UNCHANGED <<rowVars, stream, dict, wanted, keys, awaiting, histVars>>

-----------------------------------------------------------------------------
\* Producers, and the endpoints of api/events.py.

AddMessage(q) ==
    /\ Moves /\ stream[q] < MaxMessages
    /\ stream' = [stream EXCEPT ![q] = @ + 1]
    /\ UNCHANGED <<rowVars, client, task, dict, syncVars, stop, histVars>>

Serving == Moves /\ pc \notin {"stopping", "stopped"}

SetEnabled(e, on) ==
    /\ Serving /\ exists[e]
    /\ enabled' = [enabled EXCEPT ![e] = on]
    /\ UNCHANGED <<exists, queue, stream, client, task, dict, syncVars, stop, histVars>>

\* update_event with the field queue_name.
Rename(e, q) ==
    /\ Serving /\ exists[e]
    /\ queue' = [queue EXCEPT ![e] = q]
    /\ UNCHANGED <<exists, enabled, stream, client, task, dict, syncVars, stop, histVars>>

DeleteEvent(e) ==
    /\ Serving /\ exists[e]
    /\ exists' = [exists EXCEPT ![e] = FALSE]
    /\ UNCHANGED <<enabled, queue, stream, client, task, dict, syncVars, stop, histVars>>

-----------------------------------------------------------------------------
Sync ==
    \/ SyncBegin \/ AwaitEnds \/ SyncEnd
    \/ \E e \in Events : Keep(e) \/ DropDone(e) \/ CancelUnwanted(e) \/ StartListener(e)

StopSteps == StopAwaitEnds \/ StopDone \/ \E e \in Events : StopOne(e)

Listener(s) ==
    \/ Issue(s) \/ ReadFails(s) \/ Deliver(s) \/ Closed(s)
    \/ \E up \in BOOLEAN : ClientAnswers(s, up)

Requests ==
    \E e \in Events :
        \/ \E on \in BOOLEAN : SetEnabled(e, on)
        \/ e \in Edited /\ \E q \in Queues \union {None} : Rename(e, q)
        \/ e \in Edited /\ DeleteEvent(e)

Next ==
    \/ Sync \/ Stop \/ StopSteps \/ Restart \/ Requests
    \/ \E s \in Slots : Listener(s)
    \/ \E q \in Queues : AddMessage(q)

\* Tasks that are ready are scheduled; closing a connection ends.
Fairness ==
    /\ WF_vars(Sync) /\ WF_vars(StopSteps)
    /\ \A s \in Slots : WF_vars(Closed(s))

Spec == Init /\ [][Next]_vars /\ Fairness

-----------------------------------------------------------------------------
Tasks == [st : {"free", "idle", "block", "run", "closing", "done"},
          ev : Events \union {None}, q : Queues \union {None}, last : Nat, cur : Nat]

TypeOK ==
    /\ exists \in [Events -> BOOLEAN] /\ enabled \in [Events -> BOOLEAN]
    /\ queue \in [Events -> Queues \union {None}]
    /\ stream \in [Queues -> Nat]
    /\ client \in BOOLEAN /\ stop \in BOOLEAN
    /\ task \in [Slots -> Tasks]
    /\ dict \in [Events -> Slots \union {0}]
    /\ pc \in {"sleep", "sync", "await", "stopping", "stopped"}
    /\ wanted \in [Events -> Queues \union {None}]
    /\ keys \subseteq Events /\ awaiting \in Slots \union {0}
    /\ handled \in [Events -> [Queues -> Nat]] /\ disorder \in BOOLEAN

Alive(s) == ~Over(task[s])

\* An event's script is given the messages of a stream in the order they were
\* added and none of them twice, across disabling, re-enabling, renaming, errors,
\* cancelled scripts and restarts (it need not be given all of them).
HandledInOrder == ~disorder

\* No listener outlives its place in _listener_tasks, except the one that is
\* cancelled and awaited: an event never has two of them.
NoOrphanListener ==
    \A s \in Slots : Alive(s) => (dict[task[s].ev] = s \/ awaiting = s)

\* When stop_scheduler has returned no listener runs.
StopIsComplete == pc = "stopped" => \A s \in Slots : ~Alive(s)

Listening(e) == dict[e] # 0 /\ Alive(dict[e])

\* "Reconcile running listeners with current enabled queue events": a queue event
\* that stays enabled gets a listener, one that stays disabled or deleted loses it.
ListenersReconcile ==
    \A e \in Events :
        /\ Wanted(e) ~> (Listening(e) \/ ~Wanted(e) \/ stop)
        /\ ~Wanted(e) ~> ((\A s \in Slots : Alive(s) => task[s].ev # e) \/ Wanted(e) \/ stop)
=============================================================================
