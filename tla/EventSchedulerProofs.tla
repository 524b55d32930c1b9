-------------------------- MODULE EventSchedulerProofs --------------------------
(***************************************************************************)
(* Safety of the scheduler, for any events and any lengths of intervals,   *)
(* guards, scripts and connection attempts.                                *)
(*                                                                         *)
(* A poll judges by a clock that is older than what it judges.  SpacedInv  *)
(* says why this errs on the safe side: what the poll takes for the time   *)
(* since the last run is at most the time that has passed.  VisitedInv     *)
(* says that a poll visits an event once.  CronInv, under NowInv, ties the *)
(* number of runs for a fire time to how far the clock is past it.         *)
(***************************************************************************)
EXTENDS EventScheduler, TLAPS

SpacedInv ==
    \A e \in Events :
        /\ elapsed[e] <= age[e] /\ age[e] <= sched[e] /\ sched[e] <= Never(e)
        /\ pc \in {"sleep", "stopped"} => elapsed[e] = 0
        /\ e \in cur => sched[e] = Never(e)
        /\ gap[e] = Never(e)

VisitedInv ==
    \A e \in Events :
        /\ late[e] <= 1
        /\ late[e] = 1 => ~enabled[e] /\ e \notin todo /\ e \notin cur

Inv == TypeOK /\ SpacedInv /\ VisitedInv

-----------------------------------------------------------------------------
\* The clock's arithmetic.

LEMMA LengthsOfTime ==
    /\ Period \in Nat /\ Period > 0 /\ Interval \in Nat \ {0} /\ CronGuard \in Nat \ {0}
    /\ PollInterval \in Nat /\ MaxConnect \in Nat
BY EventsAssumption

\* Where phases, counts and lengths start.
LEMMA StartingPoints ==
    /\ 0 \in 0 .. Period - 1 /\ 0 \in 0 .. 2
    /\ \A v \in Nat : Const(v) \in [Events -> Nat]
    /\ Const(0) \in [Events -> Nat] /\ Const(0) \in [Events -> 0 .. 2]
    /\ Const(TRUE) \in [Events -> BOOLEAN]
BY LengthsOfTime DEF Const

LEMMA NeverIsNat == \A e \in Events : Never(e) \in Nat \ {0}
BY EventsAssumption DEF Never

LEMMA UptoBounds ==
    ASSUME NEW e \in Events, NEW n \in Nat, NEW d \in Nat
    PROVE  /\ Upto(e, n, d) \in Nat /\ Upto(e, n, d) <= Never(e)
           /\ n <= Never(e) => n <= Upto(e, n, d)
           /\ n = Never(e) => Upto(e, n, d) = Never(e)
           /\ \A m \in Nat : m <= n => Upto(e, m, d) <= Upto(e, n, d)
BY NeverIsNat DEF Upto

LEMMA MinusIsNat ==
    ASSUME NEW n \in Nat, NEW d \in Nat
    PROVE  Minus(n, d) \in Nat
BY DEF Minus

\* Time passes and runs end; every scheduled run is also a recorded one.
LEMMA TimePasses ==
    ASSUME TypeOK, SpacedInv, NEW Ran \in SUBSET Events, NEW Sched \in SUBSET Ran,
           NEW d \in Nat, Pass(Ran, Sched, d)
    PROVE  /\ age' \in [Events -> Nat] /\ sched' \in [Events -> Nat]
           /\ phase' \in 0 .. Period - 1 /\ lap' \in BOOLEAN
           /\ \A e \in Events : age'[e] <= sched'[e] /\ sched'[e] <= Never(e)
           /\ \A e \in Events \ Ran : age[e] <= age'[e]
           /\ \A e \in Events \ Sched : sched[e] = Never(e) => sched'[e] = Never(e)
<1>1. /\ age' = [e \in Events |-> IF e \in Ran THEN 0 ELSE Upto(e, age[e], d)]
      /\ sched' = [e \in Events |-> IF e \in Sched THEN 0 ELSE Upto(e, sched[e], d)]
  BY DEF Pass, Stamp
<1>2. phase' \in 0 .. Period - 1 /\ lap' \in BOOLEAN
  BY EventsAssumption DEF Pass, TypeOK
<1>3. \A e \in Events : age[e] \in Nat /\ sched[e] \in Nat /\ Never(e) \in Nat
  BY NeverIsNat DEF TypeOK
<1>4. \A e \in Events : /\ Upto(e, age[e], d) \in Nat /\ Upto(e, sched[e], d) \in Nat
                        /\ Upto(e, sched[e], d) <= Never(e)
                        /\ age[e] <= Upto(e, age[e], d)
                        /\ Upto(e, age[e], d) <= Upto(e, sched[e], d)
                        /\ sched[e] = Never(e) => Upto(e, sched[e], d) = Never(e)
  <2> TAKE e \in Events
  <2>1. age[e] \in Nat /\ sched[e] \in Nat /\ Never(e) \in Nat
    BY <1>3
  <2>2. age[e] <= sched[e] /\ sched[e] <= Never(e)
    BY DEF SpacedInv
  <2>3. age[e] <= Never(e)
    BY <2>1, <2>2
  <2> QED BY <2>1, <2>2, <2>3, UptoBounds
<1>5. age' \in [Events -> Nat] /\ sched' \in [Events -> Nat]
  BY <1>1, <1>4
<1>6. \A e \in Events : age'[e] <= sched'[e] /\ sched'[e] <= Never(e)
  <2> TAKE e \in Events
  <2>1. CASE e \in Sched
    BY <2>1, <1>1, <1>3
  <2>2. CASE e \notin Sched
    BY <2>2, <1>1, <1>3, <1>4
  <2> QED BY <2>1, <2>2
<1> QED BY <1>1, <1>2, <1>4, <1>5, <1>6

-----------------------------------------------------------------------------
\* Runs.

\* What is due has waited for its interval, or its guard.
LEMMA DueHasWaited ==
    ASSUME TypeOK, SpacedInv, NEW e \in Events, Due(e)
    PROVE  sched[e] = Never(e)
<1>1. elapsed[e] >= Never(e)
  BY DEF Due, Never
<1>2. elapsed[e] \in Nat /\ age[e] \in Nat /\ sched[e] \in Nat /\ Never(e) \in Nat
  BY NeverIsNat DEF TypeOK
<1> QED BY <1>1, <1>2 DEF SpacedInv

\* A script switches off what it likes, and creates new events.
LEMMA ScriptsKeepTypes ==
    ASSUME TypeOK, NEW counts \in [Events -> 0 .. 2], ScriptEffect(counts)
    PROVE  /\ status' \in [Events -> {"absent", "live", "deleted"}]
           /\ enabled' \in [Events -> BOOLEAN]
           /\ late' \in [Events -> 0 .. 2]
           /\ \A e \in Events : late'[e] \in {0, counts[e]}
           /\ \A e \in Events : late'[e] # 0 => (enabled'[e] => enabled[e])
<1>1. CASE late' = counts /\ UNCHANGED rowVars
  BY <1>1 DEF TypeOK, rowVars
<1>2. ASSUME NEW t \in Live, enabled' = [enabled EXCEPT ![t] = FALSE]
      PROVE  /\ enabled' \in [Events -> BOOLEAN]
             /\ \A e \in Events : enabled'[e] => enabled[e]
  BY <1>2 DEF TypeOK, Live
<1>3. ASSUME NEW t \in Events, status' = [status EXCEPT ![t] = "live"],
             enabled' = [enabled EXCEPT ![t] = TRUE], late' = [counts EXCEPT ![t] = 0]
      PROVE  /\ status' \in [Events -> {"absent", "live", "deleted"}]
             /\ enabled' \in [Events -> BOOLEAN] /\ late' \in [Events -> 0 .. 2]
             /\ \A e \in Events : late'[e] \in {0, counts[e]}
             /\ \A e \in Events : late'[e] # 0 => (enabled'[e] => enabled[e])
  BY <1>3 DEF TypeOK
<1>4. CASE \E t \in Live \intersect Managed :
              /\ enabled' = [enabled EXCEPT ![t] = FALSE]
              /\ late' = counts /\ UNCHANGED status
  <2>1. /\ enabled' \in [Events -> BOOLEAN]
        /\ \A e \in Events : enabled'[e] => enabled[e]
    BY <1>2, <1>4
  <2> QED BY <1>4, <2>1 DEF TypeOK
<1>5. CASE \E t \in Managed :
              /\ status' = [status EXCEPT ![t] = "live"]
              /\ enabled' = [enabled EXCEPT ![t] = TRUE] /\ late' = [counts EXCEPT ![t] = 0]
  BY <1>3, <1>5, EventsAssumption
<1> QED BY <1>1, <1>4, <1>5 DEF ScriptEffect

LEMMA ScheduledRun ==
    ASSUME Inv, NEW e \in Events, NEW d \in Nat, NEW ok \in BOOLEAN, NEW on \in BOOLEAN,
           sched[e] = Never(e), late[e] = 0, RunScheduled(e, d, ok, on),
           client' \in BOOLEAN
    PROVE  Inv'
<1> DEFINE Ran == IF ok THEN {e} ELSE {}
<1>1. Ran \in SUBSET Events /\ Pass(Ran, Ran, d)
  BY DEF RunScheduled
<1>2. /\ age' \in [Events -> Nat] /\ sched' \in [Events -> Nat]
      /\ phase' \in 0 .. Period - 1 /\ lap' \in BOOLEAN
      /\ \A x \in Events : age'[x] <= sched'[x] /\ sched'[x] <= Never(x)
      /\ \A x \in Events \ Ran : age[x] <= age'[x]
  BY <1>1, TimePasses DEF Inv
<1>3. /\ gap' = [gap EXCEPT ![e] = sched[e]] /\ cur' = {} /\ trig' = trig
      /\ runs' \in [Events -> Nat]
  BY EventsAssumption DEF RunScheduled, Inv, TypeOK
<1>4. /\ pc' = IF on THEN "poll" ELSE "sleep"
      /\ todo' = IF on THEN todo \ {e} ELSE {}
      /\ wait' \in Nat /\ nowPhase' \in 0 .. Period - 1
      /\ elapsed' = IF on THEN [elapsed EXCEPT ![e] = 0] ELSE [x \in Events |-> 0]
      /\ on => ok
  BY EventsAssumption DEF RunScheduled, Inv, TypeOK, Const
<1>5. /\ status' \in [Events -> {"absent", "live", "deleted"}]
      /\ enabled' \in [Events -> BOOLEAN] /\ late' \in [Events -> 0 .. 2]
      /\ \A x \in Events : late'[x] <= 1
      /\ \A x \in Events : late'[x] = 1 => ~enabled'[x] /\ (x = e \/ late[x] = 1)
  <2> DEFINE counts == IF enabled[e] THEN late
                       ELSE [late EXCEPT ![e] = IF @ < 2 THEN @ + 1 ELSE 2]
  <2>1. /\ counts \in [Events -> 0 .. 2]
        /\ \A x \in Events : /\ counts[x] <= 1
                             /\ counts[x] = 1 => ~enabled[x] /\ (x = e \/ late[x] = 1)
    BY DEF Inv, TypeOK, VisitedInv
  <2>2. ScriptEffect(counts)
    BY DEF RunScheduled
  <2> HIDE DEF counts
  <2>3. /\ status' \in [Events -> {"absent", "live", "deleted"}]
        /\ enabled' \in [Events -> BOOLEAN] /\ late' \in [Events -> 0 .. 2]
        /\ \A x \in Events : late'[x] \in {0, counts[x]}
        /\ \A x \in Events : late'[x] # 0 => (enabled'[x] => enabled[x])
    BY <2>1, <2>2, ScriptsKeepTypes DEF Inv
  <2> QED BY <2>1, <2>3
<1> HIDE DEF Ran
<1>6. TypeOK'
  BY <1>2, <1>3, <1>4, <1>5 DEF Inv, TypeOK
<1>7. \A x \in Events : elapsed'[x] <= age'[x]
  <2> TAKE x \in Events
  <2>1. elapsed[x] \in Nat /\ age[x] \in Nat /\ age'[x] \in Nat /\ elapsed[x] <= age[x]
    BY <1>2 DEF Inv, TypeOK, SpacedInv
  <2>2. CASE elapsed'[x] = 0
    BY <2>1, <2>2
  <2>3. CASE elapsed'[x] # 0
    <3>1. on /\ x # e
      BY <1>4, <2>3 DEF Inv, TypeOK
    <3>2. elapsed'[x] = elapsed[x]
      BY <1>4, <3>1 DEF Inv, TypeOK
    <3>3. x \notin Ran
      BY <3>1 DEF Ran
    <3> QED BY <1>2, <2>1, <3>2, <3>3
  <2> QED BY <2>2, <2>3
<1>8. SpacedInv'
  <2>1. \A x \in Events : gap'[x] = Never(x)
    BY <1>3 DEF Inv, TypeOK, SpacedInv
  <2>2. pc' \in {"sleep", "stopped"} => \A x \in Events : elapsed'[x] = 0
    BY <1>4
  <2> QED BY <1>2, <1>3, <1>7, <2>1, <2>2 DEF SpacedInv, Never
<1>9. VisitedInv'
  BY <1>3, <1>4, <1>5 DEF Inv, VisitedInv
<1> QED BY <1>6, <1>8, <1>9 DEF Inv

\* A run a request asks for is recorded like any other.
LEMMA TriggeredRun ==
    ASSUME Inv, NEW e \in Events, NEW d \in Nat, NEW ok \in BOOLEAN,
           pc \in {"sleep", "connect"}, RunTriggered(e, d, ok),
           client' \in BOOLEAN, trig' \subseteq Events
    PROVE  Inv'
<1> DEFINE Ran == IF ok THEN {e} ELSE {}
<1>1. Ran \in SUBSET Events /\ {} \in SUBSET Ran /\ Pass(Ran, {}, d)
  BY DEF RunTriggered
<1>2. /\ age' \in [Events -> Nat] /\ sched' \in [Events -> Nat]
      /\ phase' \in 0 .. Period - 1 /\ lap' \in BOOLEAN
      /\ \A x \in Events : age'[x] <= sched'[x] /\ sched'[x] <= Never(x)
      /\ \A x \in Events \ Ran : age[x] <= age'[x]
      /\ \A x \in Events : sched[x] = Never(x) => sched'[x] = Never(x)
  BY <1>1, TimePasses DEF Inv
<1>3. /\ UNCHANGED <<pc, todo, cur, nowPhase, gap, runs>> /\ wait' \in Nat
      /\ elapsed' = IF ok /\ pc = "connect" THEN [elapsed EXCEPT ![e] = 0] ELSE elapsed
  BY EventsAssumption, MinusIsNat DEF RunTriggered, Inv, TypeOK
<1>4. /\ status' \in [Events -> {"absent", "live", "deleted"}]
      /\ enabled' \in [Events -> BOOLEAN] /\ late' \in [Events -> 0 .. 2]
      /\ \A x \in Events : late'[x] \in {0, late[x]}
      /\ \A x \in Events : late'[x] # 0 => (enabled'[x] => enabled[x])
  <2>1. late \in [Events -> 0 .. 2] /\ ScriptEffect(late)
    BY DEF RunTriggered, Inv, TypeOK
  <2> QED BY <2>1, ScriptsKeepTypes DEF Inv
<1> HIDE DEF Ran
<1>5. TypeOK'
  BY <1>2, <1>3, <1>4 DEF Inv, TypeOK
<1>6. \A x \in Events : elapsed'[x] <= age'[x] /\ (pc' = "sleep" => elapsed'[x] = 0)
  <2> TAKE x \in Events
  <2>1. elapsed[x] \in Nat /\ age[x] \in Nat /\ age'[x] \in Nat /\ elapsed[x] <= age[x]
    BY <1>2 DEF Inv, TypeOK, SpacedInv
  <2>2. pc = "sleep" => elapsed[x] = 0
    BY DEF Inv, SpacedInv
  <2>3. CASE x \in Ran
    <3>1. ok /\ x = e
      BY <2>3 DEF Ran
    <3>2. elapsed'[x] = 0
      BY <1>3, <2>2, <3>1 DEF Inv, TypeOK
    <3> QED BY <2>1, <3>2
  <2>4. CASE x \notin Ran
    <3>1. elapsed'[x] = elapsed[x]
      <4>1. CASE ok /\ pc = "connect"
        <5>1. x # e
          BY <2>4, <4>1 DEF Ran
        <5> QED BY <1>3, <4>1, <5>1 DEF Inv, TypeOK
      <4>2. CASE ~(ok /\ pc = "connect")
        BY <1>3, <4>2
      <4> QED BY <4>1, <4>2
    <3> QED BY <1>2, <1>3, <2>1, <2>2, <2>4, <3>1
  <2> QED BY <2>3, <2>4
<1>7. SpacedInv'
  BY <1>2, <1>3, <1>6 DEF Inv, SpacedInv, Never
<1>8. VisitedInv'
  BY <1>3, <1>4 DEF Inv, VisitedInv, TypeOK
<1> QED BY <1>5, <1>7, <1>8 DEF Inv

-----------------------------------------------------------------------------
\* Steps.

LEMMA Initially == Init => Inv
<1> SUFFICES ASSUME Init PROVE Inv
  OBVIOUS
<1>1. TypeOK
  <2>1. age \in [Events -> Nat] /\ status \in [Events -> {"absent", "live", "deleted"}]
    BY NeverIsNat DEF Init
  <2> QED BY <2>1, StartingPoints DEF Init, TypeOK
<1>2. SpacedInv
  BY NeverIsNat DEF Init, SpacedInv, Const
<1>3. VisitedInv
  BY DEF Init, VisitedInv, Const
<1> QED BY <1>1, <1>2, <1>3 DEF Inv

LEMMA LoopPreserves ==
    ASSUME Inv, Loop
    PROVE  Inv'
<1>1. CASE StartPoll
  <2>1. TypeOK'
    BY <1>1 DEF StartPoll, Inv, TypeOK, rowVars, Query, Live, Const
  <2>2. SpacedInv'
    BY <1>1 DEF StartPoll, Inv, TypeOK, SpacedInv, Never
  <2>3. VisitedInv'
    BY <1>1 DEF StartPoll, Inv, TypeOK, VisitedInv, rowVars, Query, Live
  <2> QED BY <2>1, <2>2, <2>3 DEF Inv
<1>2. CASE EndPoll
  <2>1. TypeOK'
    BY <1>2, StartingPoints, LengthsOfTime DEF EndPoll, Inv, TypeOK, rowVars, histVars
  <2>2. SpacedInv'
    BY <1>2 DEF EndPoll, Inv, TypeOK, SpacedInv, Never, histVars, Const
  <2>3. VisitedInv'
    BY <1>2 DEF EndPoll, Inv, VisitedInv, rowVars, histVars
  <2> QED BY <2>1, <2>2, <2>3 DEF Inv
<1>3. ASSUME NEW e \in Events, Skip(e) PROVE Inv'
  BY <1>3 DEF Skip, Inv, TypeOK, SpacedInv, VisitedInv, Never, rowVars, histVars
<1>4. ASSUME NEW e \in Events, AwaitClient(e) PROVE Inv'
  <2>1. sched[e] = Never(e)
    BY <1>4, DueHasWaited DEF AwaitClient, Inv
  <2>2. TypeOK'
    BY <1>4, EventsAssumption DEF AwaitClient, Inv, TypeOK, rowVars, histVars
  <2>3. SpacedInv'
    BY <1>4, <2>1 DEF AwaitClient, Inv, SpacedInv, Never, histVars
  <2>4. VisitedInv'
    BY <1>4 DEF AwaitClient, Inv, VisitedInv, rowVars, histVars
  <2> QED BY <2>2, <2>3, <2>4 DEF Inv
<1>5. ASSUME NEW e \in Events, NEW d \in Durations, NEW ok \in BOOLEAN,
             NEW on \in BOOLEAN, Fire(e, d, ok, on)
      PROVE  Inv'
  <2>1. d \in Nat /\ client' \in BOOLEAN /\ RunScheduled(e, d, ok, on)
    BY <1>5, EventsAssumption DEF Durations, Fire, Inv, TypeOK
  <2>2. sched[e] = Never(e)
    BY <1>5, DueHasWaited DEF Fire, Inv
  <2>3. late[e] = 0
    BY <1>5 DEF Fire, Inv, TypeOK, VisitedInv
  <2> QED BY <2>1, <2>2, <2>3, ScheduledRun
<1>6. ASSUME NEW d \in Durations, NEW ok \in BOOLEAN, NEW on \in BOOLEAN,
             NEW up \in BOOLEAN, Connected(d, ok, on, up)
      PROVE  Inv'
  <2>1. PICK e \in cur : RunScheduled(e, d, ok, on)
    BY <1>6 DEF Connected
  <2>2. e \in Events /\ d \in Nat /\ client' \in BOOLEAN
    BY <1>6, <2>1, EventsAssumption DEF Durations, Connected, Inv, TypeOK
  <2>3. sched[e] = Never(e)
    BY <2>1, <2>2 DEF Inv, SpacedInv
  <2>4. late[e] = 0
    BY <2>1, <2>2 DEF Inv, TypeOK, VisitedInv
  <2> QED BY <2>1, <2>2, <2>3, <2>4, ScheduledRun
<1> QED BY <1>1, <1>2, <1>3, <1>4, <1>5, <1>6 DEF Loop

LEMMA RequestsPreserve ==
    ASSUME Inv, Requests
    PROVE  Inv'
<1>1. ASSUME NEW e \in Events, TriggerAwaits(e) PROVE Inv'
  BY <1>1 DEF TriggerAwaits, Inv, TypeOK, SpacedInv, VisitedInv, Never, rowVars,
     loopVars, histVars
<1>2. ASSUME NEW e \in Managed, DeleteEvent(e) PROVE Inv'
  BY <1>2 DEF DeleteEvent, Inv, TypeOK, SpacedInv, VisitedInv, Never, loopVars, histVars
<1>3. ASSUME NEW e \in Managed, NEW on \in BOOLEAN, CreateEvent(e, on) \/ SetEnabled(e, on)
      PROVE  Inv'
  <2>1. /\ UNCHANGED <<age, phase, loopVars, client, trig, sched, gap, runs, lap>>
        /\ status' \in [Events -> {"absent", "live", "deleted"}]
        /\ enabled' = [enabled EXCEPT ![e] = on] /\ late' = [late EXCEPT ![e] = 0]
    BY <1>3 DEF CreateEvent, SetEnabled, Inv, TypeOK
  <2>2. TypeOK'
    <3>1. enabled' \in [Events -> BOOLEAN]
      BY <2>1 DEF Inv, TypeOK
    <3>2. late' \in [Events -> 0 .. 2]
      BY <2>1, StartingPoints DEF Inv, TypeOK
    <3> QED BY <2>1, <3>1, <3>2 DEF Inv, TypeOK, loopVars
  <2>3. SpacedInv'
    BY <2>1 DEF Inv, SpacedInv, Never, loopVars
  <2>4. VisitedInv'
    BY <2>1 DEF Inv, TypeOK, VisitedInv, loopVars
  <2> QED BY <2>2, <2>3, <2>4 DEF Inv
<1>4. ASSUME NEW e \in Events, NEW d \in Durations, NEW ok \in BOOLEAN, Trigger(e, d, ok)
      PROVE  Inv'
  <2>1. /\ d \in Nat /\ pc \in {"sleep", "connect"} /\ RunTriggered(e, d, ok)
        /\ client' \in BOOLEAN /\ trig' \subseteq Events
    BY <1>4, EventsAssumption DEF Durations, Trigger, Serving, Inv, TypeOK
  <2> QED BY <2>1, TriggeredRun
<1>5. ASSUME NEW e \in Events, NEW d \in Durations, NEW ok \in BOOLEAN,
             NEW up \in BOOLEAN, TriggerResumes(e, d, ok, up)
      PROVE  Inv'
  <2>1. /\ d \in Nat /\ pc \in {"sleep", "connect"} /\ RunTriggered(e, d, ok)
        /\ client' \in BOOLEAN /\ trig' \subseteq Events
    BY <1>5, EventsAssumption DEF Durations, TriggerResumes, Serving, Inv, TypeOK
  <2> QED BY <2>1, TriggeredRun
<1> QED BY <1>1, <1>2, <1>3, <1>4, <1>5 DEF Requests

LEMMA TimePreserves ==
    ASSUME Inv, Tick
    PROVE  Inv'
<1>1. /\ Pass({}, {}, 1) /\ 1 \in Nat /\ wait' \in Nat
      /\ UNCHANGED <<rowVars, pc, todo, cur, elapsed, nowPhase, client, trig, gap,
                     runs, late>>
  BY MinusIsNat DEF Tick, Inv, TypeOK
<1>2. /\ age' \in [Events -> Nat] /\ sched' \in [Events -> Nat]
      /\ phase' \in 0 .. Period - 1 /\ lap' \in BOOLEAN
      /\ \A x \in Events : age'[x] <= sched'[x] /\ sched'[x] <= Never(x)
      /\ \A x \in Events : age[x] <= age'[x]
      /\ \A x \in Events : sched[x] = Never(x) => sched'[x] = Never(x)
  <2> DEFINE none == {}
  <2>1. none \in SUBSET Events /\ none \in SUBSET none /\ Pass(none, none, 1)
    BY <1>1
  <2>2. \A x \in Events : x \in Events \ none
    OBVIOUS
  <2> HIDE DEF none
  <2> QED BY <1>1, <2>1, <2>2, TimePasses DEF Inv
<1>3. TypeOK'
  BY <1>1, <1>2 DEF Inv, TypeOK, rowVars
<1>4. \A x \in Events : elapsed'[x] <= age'[x]
  <2> TAKE x \in Events
  <2>1. elapsed[x] \in Nat /\ age[x] \in Nat /\ age'[x] \in Nat
    BY <1>2 DEF Inv, TypeOK
  <2> QED BY <1>1, <1>2, <2>1 DEF Inv, SpacedInv
<1>5. SpacedInv'
  BY <1>1, <1>2, <1>4 DEF Inv, SpacedInv, Never
<1>6. VisitedInv'
  BY <1>1 DEF Inv, VisitedInv, rowVars
<1> QED BY <1>3, <1>5, <1>6 DEF Inv

LEMMA Invariance == Spec => []Inv
<1>1. ASSUME Inv, [Next]_vars PROVE Inv'
  <2>1. CASE Loop \/ Requests \/ Tick
    BY <1>1, <2>1, LoopPreserves, RequestsPreserve, TimePreserves
  <2>2. CASE Stop
    <3>1. TypeOK'
      BY <1>1, <2>2, StartingPoints DEF Stop, Inv, TypeOK, rowVars, histVars
    <3>2. SpacedInv' /\ VisitedInv'
      BY <1>1, <2>2 DEF Stop, Inv, TypeOK, SpacedInv, VisitedInv, Never, rowVars,
         histVars, Const
    <3> QED BY <3>1, <3>2 DEF Inv
  <2>3. CASE Restart
    BY <1>1, <2>3 DEF Restart, Inv, TypeOK, SpacedInv, VisitedInv, Never, rowVars, histVars
  <2>4. CASE UNCHANGED vars
    BY <1>1, <2>4 DEF vars, Inv, TypeOK, SpacedInv, VisitedInv, Never, rowVars, loopVars,
       histVars
  <2> QED BY <1>1, <2>1, <2>2, <2>3, <2>4 DEF Next
<1> QED BY Initially, <1>1, PTL DEF Spec

\* Every variable keeps its type.
THEOREM SchedulerTypeCorrect == Spec => []TypeOK
BY Invariance, PTL DEF Inv

\* Two scheduled runs of an event are an interval (for cron events, the guard)
\* apart, however long the scripts and connection attempts of a poll take and
\* however the events' rows are changed meanwhile.
THEOREM SpacingSafety == Spec => []ScheduledRunsAreSpaced
<1>1. Inv => ScheduledRunsAreSpaced
  BY DEF Inv, SpacedInv, ScheduledRunsAreSpaced
<1> QED BY Invariance, <1>1, PTL

\* The scheduler runs a disabled event at most once more.
THEOREM DisablingSafety == Spec => []DisabledEventStops
<1>1. Inv => DisabledEventStops
  BY DEF Inv, VisitedInv, DisabledEventStops
<1> QED BY Invariance, <1>1, PTL
-----------------------------------------------------------------------------
\* Cron events: how often one fire time starts a script.

\* The clock that says a since the event's last run and p since the fire time, when
\* r runs have been recorded for the fire time: the first was after the fire time,
\* a second one after the guard as well.
Counted(r, a, p) ==
    /\ r >= 1 => a <= p
    /\ r >= 2 => a + CronGuard <= p

\* What is known of an event that was found due p after its fire time.
Judged(r, p) == r <= 1 /\ (r >= 1 => CronGuard <= p)

CronInv ==
    \A e \in Cron :
        /\ runs[e] <= 2
        /\ ~lap => Counted(runs[e], age[e], phase)
        /\ e \in todo => Counted(runs[e], elapsed[e], nowPhase)
        /\ e \in cur => Judged(runs[e], nowPhase)

\* The poll's clock is the older one, and nothing is awaited but at the connection.
NowInv ==
    /\ ~lap /\ pc \in {"poll", "connect"} => nowPhase <= phase
    /\ pc # "connect" => cur = {}

\* Time passes alike for the event and for the fire time.
LEMMA CountsLater ==
    ASSUME NEW r \in Nat, NEW a \in Nat, NEW p \in Nat, NEW d \in Nat,
           NEW a2 \in Nat, a2 <= a + d, Counted(r, a, p)
    PROVE  Counted(r, a2, p + d)
BY LengthsOfTime DEF Counted

\* An event that has been run meanwhile has waited for less.
LEMMA CountsFewer ==
    ASSUME NEW r \in Nat, NEW a \in Nat, NEW p \in Nat,
           NEW a2 \in Nat, a2 <= a, Counted(r, a, p)
    PROVE  Counted(r, a2, p)
BY LengthsOfTime DEF Counted

\* A run that is recorded after a judgement.
LEMMA CountsRun ==
    ASSUME NEW r \in Nat, NEW p \in Nat, NEW r2 \in Nat, NEW p2 \in Nat,
           r2 <= r + 1, p <= p2, Judged(r, p)
    PROVE  Counted(r2, 0, p2)
BY LengthsOfTime DEF Counted, Judged

\* What is due has been recorded at most once, before the guard.
LEMMA DueIsJudged ==
    ASSUME TypeOK, NEW e \in Cron, Due(e), runs[e] <= 2,
           Counted(runs[e], elapsed[e], nowPhase)
    PROVE  Judged(runs[e], nowPhase)
<1>1. e \in Events /\ Minute \in Nat /\ CronGuard \in Nat
  BY EventsAssumption
<1>2. /\ runs[e] \in Nat /\ elapsed[e] \in Nat /\ nowPhase \in Nat
  BY <1>1, LengthsOfTime DEF TypeOK
<1>3. nowPhase < Minute /\ elapsed[e] >= CronGuard
  BY DEF Due
<1> QED BY <1>1, <1>2, <1>3, GuardAssumption DEF Counted, Judged

\* Time passes for a cron event between two fire times.
LEMMA CronTime ==
    ASSUME TypeOK, NEW Ran \in SUBSET Events, NEW Sched \in SUBSET Events,
           NEW d \in Nat, Pass(Ran, Sched, d), ~lap'
    PROVE  /\ ~lap /\ phase' = phase + d
           /\ \A e \in Events, r \in Nat :
                 Counted(r, age[e], phase) => Counted(r, age'[e], phase')
<1>1. phase \in Nat /\ Period \in Nat \ {0}
  BY LengthsOfTime DEF TypeOK
<1>2. ~lap /\ phase + d < Period
  <2>1. ~lap /\ ~(phase + d >= Period)
    <3>1. lap' = (lap \/ phase + d >= Period)
      BY DEF Pass
    <3> QED BY <3>1, Zenon
  <2>2. ~(phase + d >= Period)
    BY <2>1, Zenon
  <2>3. phase + d < Period
    BY <1>1, <2>2
  <2> QED BY <2>1, <2>3
<1>3. phase' = phase + d
  BY <1>1, <1>2 DEF Pass
<1>4. ASSUME NEW e \in Events, NEW r \in Nat, Counted(r, age[e], phase)
      PROVE  Counted(r, age'[e], phase')
  <2>1. age[e] \in Nat /\ Never(e) \in Nat
    BY NeverIsNat DEF TypeOK
  <2>2. age'[e] = IF e \in Ran THEN 0 ELSE Upto(e, age[e], d)
    BY DEF Pass, Stamp
  <2>3. age'[e] \in Nat /\ age'[e] <= age[e] + d
    BY <2>1, <2>2 DEF Upto
  <2>4. Counted(r, age'[e], phase + d)
    BY <1>1, <1>4, <2>1, <2>3, CountsLater
  <2> QED BY <1>3, <2>4
<1> QED BY <1>2, <1>3, <1>4

\* What the invariants say of the next state, in terms of both states.
LEMMA CronPrimed ==
    /\ CronInv' <=>
         \A e \in Cron :
            /\ runs'[e] <= 2
            /\ ~lap' => Counted(runs'[e], age'[e], phase')
            /\ e \in todo' => Counted(runs'[e], elapsed'[e], nowPhase')
            /\ e \in cur' => Judged(runs'[e], nowPhase')
    /\ NowInv' <=> /\ ~lap' /\ pc' \in {"poll", "connect"} => nowPhase' <= phase'
                   /\ pc' # "connect" => cur' = {}
BY DEF CronInv, NowInv, Counted, Judged

\* What the types say that is needed here.
LEMMA CronTypes ==
    ASSUME TypeOK
    PROVE  /\ phase \in Nat /\ nowPhase \in Nat
           /\ \A e \in Cron : /\ e \in Events /\ runs[e] \in Nat
                              /\ age[e] \in Nat /\ elapsed[e] \in Nat
<1>1. Cron \subseteq Events
  BY EventsAssumption
<1> QED BY <1>1, LengthsOfTime DEF TypeOK

\* A scheduled run of an event that was found due.
LEMMA CronRun ==
    ASSUME TypeOK, CronInv, NowInv, NEW e \in Events, NEW d \in Nat, NEW ok \in BOOLEAN,
           NEW on \in BOOLEAN, RunScheduled(e, d, ok, on), pc \in {"poll", "connect"},
           e \in Cron => Judged(runs[e], nowPhase)
    PROVE  CronInv' /\ NowInv'
<1> DEFINE Ran == IF ok THEN {e} ELSE {}
<1>1. Ran \in SUBSET Events /\ Pass(Ran, Ran, d) /\ cur' = {}
  BY DEF RunScheduled
<1>2. \A x \in Cron : /\ runs'[x] \in Nat /\ runs'[x] <= runs[x] + 1
                      /\ ~(ok /\ x = e) => runs'[x] = runs[x]
  <2>1. runs' = [runs EXCEPT ![e] = IF ok /\ e \in Cron /\ @ < 3 THEN @ + 1 ELSE @]
    BY DEF RunScheduled
  <2> QED BY <2>1, CronTypes DEF TypeOK
<1>3. /\ on => /\ ok /\ pc' = "poll" /\ todo' = todo \ {e} /\ nowPhase' = nowPhase
               /\ elapsed' = [elapsed EXCEPT ![e] = 0]
      /\ ~on => pc' = "sleep" /\ todo' = {}
  BY DEF RunScheduled
<1> HIDE DEF Ran
<1>4. ASSUME ~lap'
      PROVE  /\ ~lap /\ phase' = phase + d /\ phase <= phase' /\ phase' \in Nat
             /\ \A x \in Events, r \in Nat :
                   Counted(r, age[x], phase) => Counted(r, age'[x], phase')
  BY <1>1, <1>4, CronTime, CronTypes
<1>5. NowInv'
  <2>1. ~lap' /\ pc' \in {"poll", "connect"} => nowPhase' <= phase'
    <3> SUFFICES ASSUME ~lap', on
                 PROVE  nowPhase' <= phase'
      BY <1>3
    <3>1. nowPhase <= phase
      BY <1>4 DEF NowInv
    <3> QED BY <1>3, <1>4, <3>1, CronTypes
  <2> QED BY <1>1, <2>1, CronPrimed
<1>6. ASSUME NEW x \in Cron
      PROVE  /\ runs'[x] <= 2
             /\ ~lap' => Counted(runs'[x], age'[x], phase')
             /\ x \in todo' => Counted(runs'[x], elapsed'[x], nowPhase')
  <2>1. /\ x \in Events /\ runs[x] \in Nat
        /\ age[x] \in Nat /\ elapsed[x] \in Nat /\ phase \in Nat /\ nowPhase \in Nat
        /\ runs'[x] \in Nat /\ runs'[x] <= runs[x] + 1
    BY <1>2, CronTypes
  <2>2. runs'[x] <= 2
    <3>1. CASE ok /\ x = e
      <4>1. runs[x] <= 1
        BY <3>1 DEF Judged
      <4> QED BY <2>1, <4>1
    <3>2. CASE ~(ok /\ x = e)
      BY <1>2, <3>2 DEF CronInv
    <3> QED BY <3>1, <3>2
  <2>3. ASSUME ~lap'
        PROVE  Counted(runs'[x], age'[x], phase')
    <3>1. CASE ok /\ x = e
      <4>1. age'[x] = 0
        BY <1>1, <2>1, <3>1 DEF Pass, Stamp, Ran
      <4>2. nowPhase <= phase
        BY <1>4, <2>3 DEF NowInv
      <4>3. nowPhase <= phase' /\ phase' \in Nat
        BY <1>4, <2>1, <2>3, <4>2
      <4>4. Judged(runs[x], nowPhase)
        BY <3>1
      <4>5. Counted(runs'[x], 0, phase')
        BY <2>1, <4>3, <4>4, CountsRun
      <4> QED BY <4>1, <4>5
    <3>2. CASE ~(ok /\ x = e)
      <4>1. Counted(runs[x], age[x], phase)
        BY <1>4, <2>3 DEF CronInv
      <4> QED BY <1>2, <1>4, <2>1, <2>3, <3>2, <4>1
    <3> QED BY <3>1, <3>2
  <2>4. ASSUME x \in todo'
        PROVE  Counted(runs'[x], elapsed'[x], nowPhase')
    <3>1. on /\ x # e /\ x \in todo
      BY <1>3, <2>4
    <3>2. /\ runs'[x] = runs[x] /\ elapsed'[x] = elapsed[x] /\ nowPhase' = nowPhase
      BY <1>2, <1>3, <2>1, <3>1 DEF TypeOK
    <3> QED BY <3>1, <3>2 DEF CronInv
  <2> QED BY <2>2, <2>3, <2>4
<1> QED BY <1>1, <1>5, <1>6, CronPrimed

\* A run that a request asks for.
LEMMA CronTriggered ==
    ASSUME TypeOK, CronInv, NowInv, NEW e \in Events, NEW d \in Nat, NEW ok \in BOOLEAN,
           RunTriggered(e, d, ok)
    PROVE  CronInv' /\ NowInv'
<1> DEFINE Ran == IF ok THEN {e} ELSE {}
<1>1. Ran \in SUBSET Events /\ {} \in SUBSET Events /\ Pass(Ran, {}, d)
  BY DEF RunTriggered
<1>2. UNCHANGED <<pc, todo, cur, nowPhase, runs>>
  BY DEF RunTriggered
<1>3. \A x \in Cron : elapsed'[x] \in Nat /\ elapsed'[x] <= elapsed[x]
  <2>1. \/ elapsed' = elapsed
        \/ elapsed' = [elapsed EXCEPT ![e] = 0]
    BY DEF RunTriggered
  <2> QED BY <2>1, CronTypes DEF TypeOK
<1> HIDE DEF Ran
<1>4. ASSUME ~lap'
      PROVE  /\ ~lap /\ phase' = phase + d /\ phase <= phase' /\ phase' \in Nat
             /\ \A x \in Events, r \in Nat :
                   Counted(r, age[x], phase) => Counted(r, age'[x], phase')
  BY <1>1, <1>4, CronTime, CronTypes
<1>5. NowInv'
  <2>1. ~lap' /\ pc' \in {"poll", "connect"} => nowPhase' <= phase'
    <3> SUFFICES ASSUME ~lap', pc \in {"poll", "connect"}
                 PROVE  nowPhase' <= phase'
      BY <1>2
    <3>1. nowPhase <= phase
      BY <1>4 DEF NowInv
    <3> QED BY <1>2, <1>4, <3>1, CronTypes
  <2>2. pc' # "connect" => cur' = {}
    BY <1>2 DEF NowInv
  <2> QED BY <2>1, <2>2, CronPrimed
<1>6. ASSUME NEW x \in Cron
      PROVE  /\ runs'[x] <= 2
             /\ ~lap' => Counted(runs'[x], age'[x], phase')
             /\ x \in todo' => Counted(runs'[x], elapsed'[x], nowPhase')
             /\ x \in cur' => Judged(runs'[x], nowPhase')
  <2>1. /\ x \in Events /\ runs[x] \in Nat /\ elapsed[x] \in Nat /\ nowPhase \in Nat
        /\ runs'[x] = runs[x]
    BY <1>2, CronTypes
  <2>2. ASSUME ~lap'
        PROVE  Counted(runs'[x], age'[x], phase')
    BY <1>4, <2>1, <2>2 DEF CronInv
  <2>3. ASSUME x \in todo'
        PROVE  Counted(runs'[x], elapsed'[x], nowPhase')
    <3>1. Counted(runs[x], elapsed[x], nowPhase)
      BY <1>2, <2>3 DEF CronInv
    <3>2. Counted(runs[x], elapsed'[x], nowPhase)
      BY <1>3, <2>1, <3>1, CountsFewer
    <3> QED BY <1>2, <2>1, <3>2
  <2> QED BY <1>2, <2>1, <2>2, <2>3 DEF CronInv
<1> QED BY <1>5, <1>6, CronPrimed

\* Steps that leave the counts and the clocks as they are, and visit no more
\* events than were to be visited.
Unhurried ==
    /\ UNCHANGED <<age, phase, runs, lap>>
    /\ cur' \subseteq cur /\ (pc' # "connect" => cur' = {})
    /\ \/ todo' = {} /\ cur' = {} /\ nowPhase' = 0
       \/ /\ todo' \subseteq todo /\ UNCHANGED <<elapsed, nowPhase>>
          /\ pc' \in {"poll", "connect"} => pc \in {"poll", "connect"}

LEMMA CronUnhurried ==
    ASSUME TypeOK, CronInv, NowInv, Unhurried
    PROVE  CronInv' /\ NowInv'
<1>1. /\ UNCHANGED <<age, phase, runs, lap>>
      /\ cur' \subseteq cur /\ (pc' # "connect" => cur' = {})
  BY DEF Unhurried
<1>2. CASE todo' = {} /\ cur' = {} /\ nowPhase' = 0
  <2>1. NowInv'
    BY <1>1, <1>2, CronTypes, CronPrimed
  <2>2. CronInv'
    BY <1>1, <1>2, CronPrimed DEF CronInv
  <2> QED BY <2>1, <2>2
<1>3. CASE /\ todo' \subseteq todo /\ UNCHANGED <<elapsed, nowPhase>>
           /\ pc' \in {"poll", "connect"} => pc \in {"poll", "connect"}
  <2>1. NowInv'
    BY <1>1, <1>3, CronPrimed DEF NowInv
  <2>2. CronInv'
    BY <1>1, <1>3, CronPrimed DEF CronInv
  <2> QED BY <2>1, <2>2
<1> QED BY <1>2, <1>3 DEF Unhurried

LEMMA CronInit == Init => CronInv /\ NowInv
<1> SUFFICES ASSUME Init PROVE CronInv /\ NowInv
  OBVIOUS
<1>1. \A e \in Cron : e \in Events /\ runs[e] = 0
  BY EventsAssumption DEF Init, Const
<1>2. CronInv
  BY <1>1 DEF Init, CronInv, Counted
<1>3. NowInv
  BY DEF Init, NowInv
<1> QED BY <1>2, <1>3

LEMMA CronNext ==
    ASSUME Inv, CronInv, NowInv, [Next]_vars
    PROVE  CronInv' /\ NowInv'
<1>0. TypeOK
  BY DEF Inv
<1>1. CASE StartPoll
  <2>1. /\ pc = "sleep" /\ pc' = "poll" /\ todo' = Query /\ elapsed' = age
        /\ nowPhase' = phase /\ runs' = (IF lap THEN Const(0) ELSE runs)
        /\ UNCHANGED <<age, phase, cur>>
    BY <1>1 DEF StartPoll, rowVars
  <2>2. cur' = {}
    BY <2>1 DEF NowInv
  <2>3. NowInv'
    BY <1>0, <2>1, <2>2, CronTypes, CronPrimed
  <2>4. ASSUME NEW x \in Cron
        PROVE  /\ runs'[x] <= 2
               /\ Counted(runs'[x], age'[x], phase')
    <3>1. CASE lap
      <4>1. runs'[x] = 0
        BY <1>0, <2>1, <3>1, CronTypes DEF Const
      <4> QED BY <1>0, <2>1, <4>1, CronTypes DEF Counted
    <3>2. CASE ~lap
      BY <2>1, <3>2 DEF CronInv
    <3> QED BY <3>1, <3>2
  <2> QED BY <2>1, <2>2, <2>3, <2>4, CronPrimed
<1>2. CASE EndPoll
  <2>1. Unhurried
    BY <1>2 DEF EndPoll, Unhurried, rowVars, histVars, NowInv
  <2> QED BY <1>0, <2>1, CronUnhurried
<1>3. ASSUME NEW e \in Events, Skip(e) PROVE CronInv' /\ NowInv'
  <2>1. Unhurried
    BY <1>3 DEF Skip, Unhurried, rowVars, histVars, NowInv
  <2> QED BY <1>0, <2>1, CronUnhurried
<1>4. ASSUME NEW e \in Events, AwaitClient(e) PROVE CronInv' /\ NowInv'
  <2>1. /\ pc = "poll" /\ e \in todo /\ Due(e)
        /\ pc' = "connect" /\ cur' = {e}
        /\ UNCHANGED <<age, phase, todo, elapsed, nowPhase, runs, lap>>
    BY <1>4 DEF AwaitClient, Live, rowVars, histVars
  <2>2. e \in Cron => Judged(runs[e], nowPhase)
    BY <1>0, <2>1, DueIsJudged DEF CronInv
  <2>3. NowInv'
    BY <2>1, CronPrimed DEF NowInv
  <2>4. CronInv'
    BY <2>1, <2>2, CronPrimed DEF CronInv
  <2> QED BY <2>3, <2>4
<1>5. ASSUME NEW e \in Events, NEW d \in Durations, NEW ok \in BOOLEAN,
             NEW on \in BOOLEAN, Fire(e, d, ok, on)
      PROVE  CronInv' /\ NowInv'
  <2>1. /\ d \in Nat /\ pc = "poll" /\ e \in todo /\ Due(e)
        /\ RunScheduled(e, d, ok, on)
    BY <1>5, EventsAssumption DEF Durations, Fire, Live
  <2>2. e \in Cron => Judged(runs[e], nowPhase)
    BY <1>0, <2>1, DueIsJudged DEF CronInv
  <2> QED BY <1>0, <2>1, <2>2, CronRun
<1>6. ASSUME NEW d \in Durations, NEW ok \in BOOLEAN, NEW on \in BOOLEAN,
             NEW up \in BOOLEAN, Connected(d, ok, on, up)
      PROVE  CronInv' /\ NowInv'
  <2>1. PICK e \in cur : RunScheduled(e, d, ok, on)
    BY <1>6 DEF Connected
  <2>2. e \in Events /\ d \in Nat /\ pc = "connect"
    BY <1>0, <1>6, <2>1, EventsAssumption DEF Durations, Connected, TypeOK
  <2>3. e \in Cron => Judged(runs[e], nowPhase)
    BY <2>1 DEF CronInv
  <2> QED BY <1>0, <2>1, <2>2, <2>3, CronRun
<1>7. ASSUME NEW e \in Events, NEW d \in Durations, NEW ok \in BOOLEAN, NEW up \in BOOLEAN,
             Trigger(e, d, ok) \/ TriggerResumes(e, d, ok, up)
      PROVE  CronInv' /\ NowInv'
  <2>1. d \in Nat /\ RunTriggered(e, d, ok)
    BY <1>7, EventsAssumption DEF Durations, Trigger, TriggerResumes
  <2> QED BY <1>0, <2>1, CronTriggered
<1>8. ASSUME NEW e \in Events, TriggerAwaits(e) PROVE CronInv' /\ NowInv'
  <2>1. Unhurried
    BY <1>8 DEF TriggerAwaits, Unhurried, rowVars, loopVars, histVars, NowInv
  <2> QED BY <1>0, <2>1, CronUnhurried
<1>9. ASSUME NEW e \in Managed, DeleteEvent(e) PROVE CronInv' /\ NowInv'
  <2>1. Unhurried
    BY <1>9 DEF DeleteEvent, Unhurried, loopVars, histVars, NowInv
  <2> QED BY <1>0, <2>1, CronUnhurried
<1>10. ASSUME NEW e \in Managed, NEW on \in BOOLEAN, CreateEvent(e, on) \/ SetEnabled(e, on)
       PROVE  CronInv' /\ NowInv'
  <2>1. Unhurried
    BY <1>10 DEF CreateEvent, SetEnabled, Unhurried, loopVars, NowInv
  <2> QED BY <1>0, <2>1, CronUnhurried
<1>11. CASE Tick
  <2> DEFINE none == {}
  <2>1. /\ none \in SUBSET Events /\ 1 \in Nat /\ Pass(none, none, 1)
        /\ UNCHANGED <<pc, todo, cur, elapsed, nowPhase, runs>>
    BY <1>11 DEF Tick, rowVars
  <2> HIDE DEF none
  <2>2. ASSUME ~lap'
        PROVE  /\ ~lap /\ phase' = phase + 1
               /\ \A x \in Events, r \in Nat :
                     Counted(r, age[x], phase) => Counted(r, age'[x], phase')
    BY <1>0, <2>1, <2>2, CronTime
  <2>3. NowInv'
    <3>1. ~lap' /\ pc' \in {"poll", "connect"} => nowPhase' <= phase'
      BY <1>0, <2>1, <2>2, CronTypes DEF NowInv
    <3>2. pc' # "connect" => cur' = {}
      BY <2>1 DEF NowInv
    <3> QED BY <3>1, <3>2, CronPrimed
  <2>4. ASSUME NEW x \in Cron, ~lap'
        PROVE  Counted(runs'[x], age'[x], phase')
    <3>1. x \in Events /\ runs[x] \in Nat
      BY <1>0, CronTypes
    <3>2. Counted(runs[x], age[x], phase)
      BY <2>1, <2>2, <2>4 DEF CronInv
    <3> QED BY <2>1, <2>2, <2>4, <3>1, <3>2
  <2>5. CronInv'
    BY <2>1, <2>4, CronPrimed DEF CronInv
  <2> QED BY <2>3, <2>5
<1>12. CASE Stop
  <2>1. Unhurried
    BY <1>12 DEF Stop, Unhurried, rowVars, histVars
  <2> QED BY <1>0, <2>1, CronUnhurried
<1>13. CASE Restart
  <2>1. Unhurried
    BY <1>13 DEF Restart, Unhurried, rowVars, histVars, NowInv
  <2> QED BY <1>0, <2>1, CronUnhurried
<1>14. CASE UNCHANGED vars
  <2>1. Unhurried
    BY <1>14 DEF vars, Unhurried, rowVars, loopVars, histVars, NowInv
  <2> QED BY <1>0, <2>1, CronUnhurried
<1> QED
  BY <1>1, <1>2, <1>3, <1>4, <1>5, <1>6, <1>7, <1>8, <1>9, <1>10, <1>11, <1>12, <1>13,
     <1>14 DEF Next, Loop, Requests

\* One fire time starts a cron event's script at most twice, plus once for every
\* one of these runs whose commit failed, whichever requests, scripts and connection
\* attempts delay the polls: a recorded run is after the fire time, the next is due
\* when the guard is over, and when a third could be, the fire time no longer is.
THEOREM CronSafety == Spec => []CronFiresAtMostTwice
<1>1. CronInv => CronFiresAtMostTwice
  BY DEF CronInv, CronFiresAtMostTwice
<1>2. CronInv /\ NowInv /\ Inv /\ [Next]_vars => CronInv' /\ NowInv'
  BY CronNext
<1>3. Spec => [](CronInv /\ NowInv)
  BY Invariance, CronInit, <1>2, PTL DEF Spec
<1> QED BY <1>1, <1>3, PTL
=============================================================================
