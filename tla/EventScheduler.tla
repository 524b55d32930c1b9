--------------------------- MODULE EventScheduler ---------------------------
(***************************************************************************)
(* The scheduler of interval and cron events: _scheduler_loop and          *)
(* _cron_is_due (services/events/scheduler.py), run_event_script           *)
(* (api/event_runner.py), what a script's runtime can do to other events   *)
(* (services/events/runtime_api.py), and the endpoints of api/events.py.   *)
(*                                                                         *)
(* All of it runs on the server's one event loop, and a script is executed *)
(* synchronously on that loop: while it runs nothing else does, only time  *)
(* passes.  The one suspension inside a poll is TemporalClient.get_client, *)
(* which awaits the connection as long as no client is cached; there, and  *)
(* while the scheduler sleeps, requests are served.                        *)
(*                                                                         *)
(* Time is discrete and relative: what the code compares are differences   *)
(* of clock readings, so the model keeps the time since last_run_at, up to *)
(* the largest difference a comparison can tell apart, and the clock only  *)
(* modulo the period of the cron schedule.  `now' is read once per poll:   *)
(* elapsed and nowPhase are what it makes of the two.                      *)
(*                                                                         *)
(* Any commit may fail, and go on failing: a script that stores a state    *)
(* the database cannot represent fails its commit at every run.            *)
(* run_event_script then raises before last_run_at is stored, the session  *)
(* is left in need of a rollback, and the handler's own use of event.id    *)
(* raises again, so the poll is over.  It is over, too, when last_run_at   *)
(* was stored and the scheduler's own commit, of next_run_at, fails.       *)
(***************************************************************************)
EXTENDS Naturals, FiniteSets

CONSTANTS
    Events,        \* rows of the events table, present and future
    Cron,          \* those of type "cron"; the others are "interval"
    Initial,       \* the events that exist at the start
    Managed,       \* the events users and scripts create, switch and delete
    Interval,      \* the schedule of the interval events, in ticks
    Period,        \* time between two fire times of the cron events
    Minute,        \* a fire time is due this long (60 s in the code)
    CronGuard,     \* no cron run this soon after the last (55 s in the code)
    PollInterval,  \* POLL_INTERVAL_SECONDS
    MaxConnect,    \* longest time one connection attempt takes
    MaxScript      \* event_script_timeout_seconds: SIGALRM ends the script

ASSUME EventsAssumption ==
    /\ Cron \subseteq Events
    /\ Initial \subseteq Events /\ Managed \subseteq Events
    /\ {Interval, Period, Minute, CronGuard, PollInterval} \subseteq Nat \ {0}
    /\ {MaxConnect, MaxScript} \subseteq Nat
    /\ Minute <= Period

\* The guard covers more than half of the time a fire time is due.
ASSUME GuardAssumption == Minute <= 2 * CronGuard

VARIABLES
    status,    \* per event: "absent" | "live" | "deleted"
    enabled,   \* Event.enabled
    age,       \* time since Event.last_run_at (Never: long ago, or no run yet)
    phase,     \* time since the last cron fire time
    pc,        \* the loop: "sleep" | "poll" | "connect" | "stopped"
    wait,      \* what is left of the sleep, or of the connection attempt
    todo,      \* the events the poll's query returned and it has yet to visit
    cur,       \* at "connect": {the event whose script is about to run}
    elapsed,   \* per event: now - last_run_at, now being the poll's
    nowPhase,  \* phase at the poll's now
    client,    \* TemporalClient._instance is set
    trig       \* events with a trigger request suspended in get_client

\* History: what the properties speak of.
VARIABLES
    sched,     \* time since the last recorded scheduled run ended
    gap,       \* value of sched when the last scheduled run started
    runs,      \* scheduled runs recorded since the last fire time a poll saw
    lap,       \* a fire time has come since the last poll's now
    late       \* scheduled runs started since the event was disabled

loopVars == <<pc, wait, todo, cur, elapsed, nowPhase>>
rowVars  == <<status, enabled>>
histVars == <<sched, gap, runs, late>>
vars == <<status, enabled, age, phase, loopVars, client, trig, histVars,
          lap>>

\* What an event's last run is compared with; no difference beyond matters.
Never(e) == IF e \in Cron THEN CronGuard ELSE Interval
Upto(e, n, d) == IF n + d > Never(e) THEN Never(e) ELSE n + d
Minus(n, d) == IF n > d THEN n - d ELSE 0
Const(v) == [e \in Events |-> v]

Live == {e \in Events : status[e] = "live"}

Init ==
    /\ status = [e \in Events |-> IF e \in Initial THEN "live" ELSE "absent"]
    /\ enabled = Const(TRUE)
    /\ age = [e \in Events |-> Never(e)]
    /\ phase \in 0 .. Period - 1
    /\ pc = "sleep" /\ wait = 0
    /\ todo = {} /\ cur = {} /\ elapsed = Const(0) /\ nowPhase = 0
    /\ client = FALSE /\ trig = {}
    /\ sched = age /\ gap = age
    /\ runs = Const(0) /\ lap = FALSE /\ late = Const(0)

-----------------------------------------------------------------------------
\* Time.  d ticks pass; event e's last_run_at is set to the time they end
\* when e is in Ran, and its scheduled run is remembered when e is in Sched.

\* Mutant: last_run_at is the time the script was started.
StampStart(Ran, d) ==
    age' = [e \in Events |-> IF e \in Ran THEN Upto(e, 0, d) ELSE Upto(e, age[e], d)]

Stamp(Ran, d) ==
    age' = [e \in Events |-> IF e \in Ran THEN 0 ELSE Upto(e, age[e], d)]

Pass(Ran, Sched, d) ==
    /\ Stamp(Ran, d)
    /\ sched' = [e \in Events |-> IF e \in Sched THEN 0 ELSE Upto(e, sched[e], d)]
    /\ phase' = (phase + d) % Period
    /\ lap' = (lap \/ phase + d >= Period)

Tick ==
    /\ pc = "stopped" \/ (pc \in {"sleep", "connect"} /\ wait > 0)
    /\ Pass({}, {}, 1)
    /\ wait' = Minus(wait, 1)
    /\ UNCHANGED <<rowVars, pc, todo, cur, elapsed, nowPhase, client, trig,
                   gap, runs, late>>

-----------------------------------------------------------------------------
\* Scripts.

\* What a script does to the table through runtime.stop_event and
\* runtime.create_event, each of which commits at once; counts are the late
\* counts up to this run, and a new event's starts at zero.
ScriptEffect(counts) ==
    \/ late' = counts /\ UNCHANGED rowVars
    \/ \E t \in Live \intersect Managed :
          /\ enabled' = [enabled EXCEPT ![t] = FALSE]
          /\ late' = counts /\ UNCHANGED status
    \/ \E t \in Managed :
          /\ status[t] = "absent"
          /\ status' = [status EXCEPT ![t] = "live"]
          /\ enabled' = [enabled EXCEPT ![t] = TRUE]
          /\ late' = [counts EXCEPT ![t] = 0]

\* run_event_script's commit goes through: the row must still be there to be
\* updated and referred to.
Recorded(e, ok) == ok => e \in Live

\* The scheduler runs e's script, which takes d ticks.  The poll goes on when
\* both commits, that of the run and that of next_run_at, go through.
RunScheduled(e, d, ok, on) ==
    /\ Recorded(e, ok)
    /\ on => ok
    /\ Pass(IF ok THEN {e} ELSE {}, IF ok THEN {e} ELSE {}, d)
    /\ gap' = [gap EXCEPT ![e] = sched[e]]
    /\ runs' = [runs EXCEPT ![e] = IF ok /\ e \in Cron /\ @ < 3 THEN @ + 1 ELSE @]
    /\ ScriptEffect(IF enabled[e]
                    THEN late
                    ELSE [late EXCEPT ![e] = IF @ < 2 THEN @ + 1 ELSE 2])
    /\ IF on
       THEN /\ pc' = "poll" /\ todo' = todo \ {e} /\ wait' = 0
            /\ elapsed' = [elapsed EXCEPT ![e] = 0]
            /\ UNCHANGED nowPhase
       ELSE /\ pc' = "sleep" /\ todo' = {} /\ wait' = PollInterval
            /\ elapsed' = Const(0) /\ nowPhase' = 0
    /\ cur' = {}
    /\ UNCHANGED trig

-----------------------------------------------------------------------------
\* _scheduler_loop.

\* Mutant: the query forgets to ask for enabled events.
QueryAll == Live

\* The query at the head of the poll.
Query == {e \in Live : enabled[e]}

StartPoll ==
    /\ pc = "sleep" /\ wait = 0
    /\ pc' = "poll"
    /\ todo' = Query
    /\ elapsed' = age
    /\ nowPhase' = phase
    /\ runs' = IF lap THEN Const(0) ELSE runs
    /\ lap' = FALSE
    /\ UNCHANGED <<rowVars, age, phase, wait, cur, client, trig,
                   sched, gap, late>>

\* Mutant: an event that has no last_run_at is not due.
DueAfterFirst(e) ==
    IF e \in Cron THEN nowPhase < Minute /\ elapsed[e] >= CronGuard
                  ELSE elapsed[e] >= Interval /\ elapsed[e] # Never(e)

\* Mutant: no guard against a second run for the same fire time.
DueUnguarded(e) ==
    IF e \in Cron THEN nowPhase < Minute
                  ELSE elapsed[e] >= Interval

Due(e) ==
    IF e \in Cron THEN nowPhase < Minute /\ elapsed[e] >= CronGuard
                  ELSE elapsed[e] >= Interval

Skip(e) ==
    /\ pc = "poll" /\ e \in todo /\ e \in Live /\ ~Due(e)
    /\ todo' = todo \ {e}
    /\ UNCHANGED <<rowVars, age, phase, pc, wait, cur, elapsed, nowPhase,
                   client, trig, histVars, lap>>

\* A due event's script runs at once when a client is cached ...
Fire(e, d, ok, on) ==
    /\ pc = "poll" /\ e \in todo /\ e \in Live /\ Due(e) /\ client
    /\ RunScheduled(e, d, ok, on)
    /\ UNCHANGED client

\* ... and waits for the connection when none is.
AwaitClient(e) ==
    /\ pc = "poll" /\ e \in todo /\ e \in Live /\ Due(e) /\ ~client
    /\ pc' = "connect" /\ cur' = {e} /\ wait' = MaxConnect
    /\ UNCHANGED <<rowVars, age, phase, todo, elapsed, nowPhase, client, trig,
                   histVars, lap>>

\* The attempt succeeds or fails; the script runs in both cases.
Connected(d, ok, on, up) ==
    /\ pc = "connect"
    /\ client' = (client \/ up)
    /\ \E e \in cur : RunScheduled(e, d, ok, on)

\* The poll is over: nothing is left to visit, or the next row was deleted
\* meanwhile and reading it raises.
EndPoll ==
    /\ pc = "poll"
    /\ todo \subseteq Live => todo = {}
    /\ pc' = "sleep" /\ wait' = PollInterval
    /\ todo' = {} /\ elapsed' = Const(0) /\ nowPhase' = 0
    /\ UNCHANGED <<rowVars, age, phase, cur, client, trig,
                   histVars, lap>>

\* stop_scheduler and the end of the process; a restart finds the table.
Stop ==
    /\ pc \in {"sleep", "connect"}
    /\ pc' = "stopped" /\ wait' = 0
    /\ todo' = {} /\ cur' = {} /\ elapsed' = Const(0) /\ nowPhase' = 0
    /\ client' = FALSE /\ trig' = {}
    /\ UNCHANGED <<rowVars, age, phase, histVars, lap>>

Restart ==
    /\ pc = "stopped"
    /\ pc' = "sleep"
    /\ UNCHANGED <<rowVars, age, phase, wait, todo, cur, elapsed, nowPhase,
                   client, trig, histVars, lap>>

-----------------------------------------------------------------------------
\* api/events.py: requests are served where the loop is suspended.

Serving == pc \in {"sleep", "connect"}

\* trigger_event runs the script of a disabled event too.
RunTriggered(e, d, ok) ==
    /\ Recorded(e, ok)
    /\ Pass(IF ok THEN {e} ELSE {}, {}, d)
    /\ elapsed' = IF ok /\ pc = "connect" THEN [elapsed EXCEPT ![e] = 0] ELSE elapsed
    /\ wait' = Minus(wait, d)
    /\ ScriptEffect(late)
    /\ UNCHANGED <<pc, todo, cur, nowPhase, gap, runs>>

Trigger(e, d, ok) ==
    /\ Serving /\ e \in Live /\ client
    /\ RunTriggered(e, d, ok)
    /\ UNCHANGED <<client, trig>>

TriggerAwaits(e) ==
    /\ Serving /\ e \in Live /\ ~client /\ e \notin trig
    /\ trig' = trig \union {e}
    /\ UNCHANGED <<rowVars, age, phase, loopVars, client,
                   histVars, lap>>

TriggerResumes(e, d, ok, up) ==
    /\ Serving /\ e \in trig
    /\ trig' = trig \ {e}
    /\ client' = (client \/ up)
    /\ RunTriggered(e, d, ok)

CreateEvent(e, on) ==
    /\ Serving /\ status[e] = "absent"
    /\ status' = [status EXCEPT ![e] = "live"]
    /\ enabled' = [enabled EXCEPT ![e] = on]
    /\ late' = [late EXCEPT ![e] = 0]
    /\ UNCHANGED <<age, phase, loopVars, client, trig, sched, gap,
                   runs, lap>>

\* enable_event, disable_event, and update_event with the field `enabled'.
SetEnabled(e, on) ==
    /\ Serving /\ e \in Live
    /\ enabled' = [enabled EXCEPT ![e] = on]
    /\ late' = [late EXCEPT ![e] = 0]
    /\ UNCHANGED <<status, age, phase, loopVars, client, trig,
                   sched, gap, runs, lap>>

DeleteEvent(e) ==
    /\ Serving /\ e \in Live
    /\ status' = [status EXCEPT ![e] = "deleted"]
    /\ UNCHANGED <<enabled, age, phase, loopVars, client, trig,
                   histVars, lap>>

-----------------------------------------------------------------------------
Durations == 0 .. MaxScript

Loop ==
    \/ StartPoll \/ EndPoll
    \/ \E e \in Events : Skip(e) \/ AwaitClient(e)
    \/ \E e \in Events, d \in Durations, ok, on \in BOOLEAN : Fire(e, d, ok, on)
    \/ \E d \in Durations, ok, on, up \in BOOLEAN : Connected(d, ok, on, up)

Requests ==
    \/ \E e \in Events : TriggerAwaits(e)
    \/ \E e \in Managed : DeleteEvent(e)
    \/ \E e \in Managed, on \in BOOLEAN : CreateEvent(e, on) \/ SetEnabled(e, on)
    \/ \E e \in Events, d \in Durations, ok \in BOOLEAN : Trigger(e, d, ok)
    \/ \E e \in Events, d \in Durations, ok, up \in BOOLEAN :
          TriggerResumes(e, d, ok, up)

Next == Loop \/ Requests \/ Tick \/ Stop \/ Restart

\* The loop's task is scheduled again whenever it is ready, and time passes.
Fairness == WF_vars(Loop) /\ WF_vars(Tick)

Spec == Init /\ [][Next]_vars /\ Fairness

-----------------------------------------------------------------------------
TypeOK ==
    /\ status \in [Events -> {"absent", "live", "deleted"}]
    /\ enabled \in [Events -> BOOLEAN]
    /\ age \in [Events -> Nat] /\ phase \in 0 .. Period - 1
    /\ pc \in {"sleep", "poll", "connect", "stopped"} /\ wait \in Nat
    /\ todo \subseteq Events /\ cur \subseteq Events
    /\ elapsed \in [Events -> Nat] /\ nowPhase \in 0 .. Period - 1
    /\ client \in BOOLEAN /\ trig \subseteq Events
    /\ sched \in [Events -> Nat] /\ gap \in [Events -> Nat] /\ runs \in [Events -> Nat]
    /\ lap \in BOOLEAN /\ late \in [Events -> 0 .. 2]

\* Between the end of a scheduled run that was recorded and the start of the
\* next one there is at least the interval (for cron events, the guard), though
\* the poll compares with a clock it read before the other scripts of the poll
\* ran and a script may start long after it was found due.
ScheduledRunsAreSpaced ==
    \A e \in Events : gap[e] = Never(e)

\* One fire time of a cron event starts its script at most twice, and once more
\* for every one of these runs whose commit fails.  Not once: a fire time is due
\* for sixty seconds and the guard covers fifty-five.
CronFiresAtMostTwice == \A e \in Cron : runs[e] <= 2

\* An event that was disabled, by a request or by another event's script, is
\* run by the scheduler at most once more: by the poll that had read it.
DisabledEventStops == \A e \in Events : late[e] <= 1

\* A failing commit, of any event's run, breaks the poll off: the events it has
\* yet to visit are left out.
BreakOff == pc \in {"poll", "connect"} /\ pc' = "sleep" /\ ~EndPoll

\* If from some time on no commit fails, an enabled interval event is run, by
\* the scheduler or a request, as long as the server is up: no other event's
\* script, request, connection attempt or restart keeps it waiting for ever.
\* Commits that fail for ever do, those of an event whose state cannot be
\* stored among them: every event the polls would have visited after it starves.
IntervalEventsFire ==
    <>[][~BreakOff]_vars =>
        \A e \in Events \ Cron :
            (e \in Live /\ enabled[e])
                ~> (age[e] = 0 \/ e \notin Live \/ ~enabled[e] \/ pc = "stopped")
=============================================================================
