------------------------- MODULE SignalRouterProofs -------------------------
(***************************************************************************)
(* The safety of SignalRouter for every set of runs, wait nodes, signals   *)
(* and requests, and every fan-out limit.                                  *)
(***************************************************************************)
EXTENDS SignalRouter, TLAPS

-----------------------------------------------------------------------------
(* Types                                                                   *)

LEMMA InitTypeOK == Init => TypeOK
<1> SUFFICES ASSUME Init PROVE TypeOK
  OBVIOUS
<1>1. NoRow \in Row
  BY DEF NoRow, Row
<1>2. \A s \in Signals : \A k \in Clients : Idle(s, k) \in Call
  BY <1>1 DEF Idle, Call
<1>3. wait \in [Waiters -> Row] /\ call \in [Calls -> Call]
  BY <1>1, <1>2 DEF Init
<1> QED
  BY <1>3, RouterAssumption DEF Init, TypeOK

LEMMA FetchType ==
  ASSUME TypeOK, NEW c \in Calls, NEW kind \in {"channel", "run"},
         NEW ws \in SUBSET Waiters, Fetch(c, kind, ws)
  PROVE  TypeOK'
<1> DEFINE rows == [w \in Waiters |-> IF w \in ws THEN wait[w] ELSE NoRow]
<1>1. rows \in [Waiters -> Row]
  BY DEF TypeOK, NoRow, Row
<1>2. call' = [call EXCEPT ![c] =
                 [call[c] EXCEPT !.pc = "route", !.kind = kind, !.about = {},
                                 !.fetched = ws, !.todo = ws, !.seen = rows]]
  BY DEF Fetch
<1> HIDE DEF rows
<1>3. [call[c] EXCEPT !.pc = "route", !.kind = kind, !.about = {},
                      !.fetched = ws, !.todo = ws, !.seen = rows] \in Call
  <2>1. call[c] \in Call
    BY DEF TypeOK
  <2> QED
    BY <1>1, <2>1 DEF Call
<1>4. call' \in [Calls -> Call]
  BY <1>2, <1>3 DEF TypeOK
<1>5. heard' \in [Waiters -> SUBSET Signals]
  BY DEF Fetch, TypeOK, Call
<1> QED
  BY <1>4, <1>5 DEF Fetch, TypeOK, runVars

\* The steps of a request write well-formed calls and rows.
LEMMA RequestType ==
  ASSUME TypeOK, NEW c \in Calls, Request(c)
  PROVE  TypeOK'
<1> USE DEF runVars
<1>1. call[c] \in Call /\ call \in [Calls -> Call]
  BY DEF TypeOK
<1>2. CASE EmitChannelSignal(c)
  <2>1. PICK ws \in ChannelWaits : Fetch(c, "channel", ws)
    BY <1>2 DEF EmitChannelSignal
  <2>2. ws \in SUBSET Waiters
    BY DEF ChannelWaits
  <2> QED
    BY <2>1, <2>2, FetchType
<1>3. CASE SendRunSignal(c)
  <2>1. PICK r \in call[c].about : Fetch(c, "run", RunWaits(r))
    BY <1>3 DEF SendRunSignal
  <2>2. RunWaits(r) \in SUBSET Waiters
    BY DEF RunWaits
  <2> QED
    BY <2>1, <2>2, FetchType
<1>4. CASE NoSend(c)
  <2>1. AfterSend(c) \in {"route", "done"}
    BY DEF AfterSend
  <2>2. call' \in [Calls -> Call]
    BY <1>1, <1>4, <2>1 DEF NoSend, Call
  <2> QED
    BY <1>4, <2>2 DEF NoSend, TypeOK
<1>5. CASE Send(c)
  BY <1>1, <1>5 DEF Send, TypeOK, Call
<1>6. CASE Answer(c)
  <2>1. told' \subseteq Waiters
    BY <1>1, <1>6 DEF Answer, Hears, Refuses, TypeOK, Call
  <2>2. call' \in [Calls -> Call] /\ loop' \in Calls \cup {"free"}
    BY <1>1, <1>6 DEF Answer, AfterSend, Call
  <2> QED
    BY <1>6, <2>1, <2>2 DEF Answer, TypeOK
<1>7. CASE Respond(c)
  BY <1>1, <1>7 DEF Respond, TypeOK, Call
<1>8. ASSUME NEW w \in Waiters,
             Skip(c, w) \/ MarkWaitSatisfied(c, w) \/ RowIsGone(c, w)
      PROVE  TypeOK'
  <2>1. Appended(c, w) \in SUBSET Waiters
    BY <1>1 DEF Appended, Call
  <2>2. CASE Skip(c, w)
    BY <1>1, <2>1, <2>2 DEF Skip, TypeOK, Call
  <2>3. CASE MarkWaitSatisfied(c, w)
    <3> DEFINE sent    == [call[c] EXCEPT !.pc = "send", !.to = {w},
                                          !.todo = @ \ {w}]
               renewed == [sent EXCEPT !.stale = TRUE, !.dirty = {}]
    <3>1. sent \in Call /\ renewed \in Call
      BY <1>1 DEF Call
    <3>2. \/ call' = [call EXCEPT ![c] = sent] /\ wait' = wait
          \/ /\ call' = [call EXCEPT ![c] = renewed]
             /\ wait' = [d \in Waiters |->
                  [wait[d] EXCEPT
                     !.received = @ \cup IF d \in Appended(c, w)
                                         THEN {call[c].signal} ELSE {},
                     !.satisfied = @ \/ d = w]]
      BY <1>1, <2>3 DEF MarkWaitSatisfied, Call
    <3>3. ASSUME NEW d \in Waiters, NEW add \in SUBSET Signals
          PROVE  [wait[d] EXCEPT !.received = @ \cup add,
                                 !.satisfied = @ \/ d = w] \in Row
      BY DEF TypeOK, Row
    <3>4. call[c].signal \in Signals
      BY <1>1 DEF Call
    <3> HIDE DEF sent, renewed
    <3>5. call' \in [Calls -> Call]
      BY <1>1, <3>1, <3>2
    <3>6. wait' \in [Waiters -> Row]
      <4>1. CASE wait' = wait
        BY <4>1 DEF TypeOK
      <4>2. CASE wait' = [d \in Waiters |->
                  [wait[d] EXCEPT
                     !.received = @ \cup IF d \in Appended(c, w)
                                         THEN {call[c].signal} ELSE {},
                     !.satisfied = @ \/ d = w]]
        BY <3>3, <3>4, <4>2
      <4> QED
        BY <3>2, <4>1, <4>2
    <3> QED
      BY <2>3, <3>5, <3>6 DEF MarkWaitSatisfied, TypeOK
  <2>4. CASE RowIsGone(c, w)
    BY <1>1, <2>4 DEF RowIsGone, TypeOK, Call
  <2> QED
    BY <1>8, <2>2, <2>3, <2>4
<1>9. CASE FindWaiting(c)
  <2>1. PICK r \in Runs :
          call' = [call EXCEPT ![c] = [call[c] EXCEPT !.pc = "connect",
                                                      !.about = {r}]]
    BY <1>9 DEF FindWaiting
  <2>2. [call[c] EXCEPT !.pc = "connect", !.about = {r}] \in Call
    BY <1>1 DEF Call
  <2>3. call' \in [Calls -> Call]
    BY <1>1, <2>1, <2>2
  <2> QED
    BY <1>9, <2>3 DEF FindWaiting, TypeOK
<1> QED
  BY <1>2, <1>3, <1>4, <1>5, <1>6, <1>7, <1>8, <1>9 DEF Request

LEMMA NextTypeOK == TypeOK /\ [Next]_vars => TypeOK'
<1> SUFFICES ASSUME TypeOK, [Next]_vars PROVE TypeOK'
  OBVIOUS
<1> USE DEF runVars
<1>1. ASSUME NEW c \in Calls, Request(c) PROVE TypeOK'
  BY <1>1, RequestType
<1>2. ASSUME NEW w \in Waiters, PersistWaitState(w) PROVE TypeOK'
  <2>1. [NoRow EXCEPT !.arms = wait[w].arms + 1] \in Row
    <3>1. NoRow \in Row
      BY DEF NoRow, Row
    <3>2. wait[w].arms + 1 \in Nat
      BY DEF TypeOK, Row
    <3> QED
      BY <3>1, <3>2 DEF Row
  <2> QED
    BY <1>2, <2>1 DEF PersistWaitState, TypeOK
<1>3. ASSUME NEW w \in Waiters, Expire(w) PROVE TypeOK'
  BY <1>3 DEF Expire, TypeOK
<1>4. ASSUME NEW r \in Runs, Record(r) \/ Suspend(r) \/ Close(r) PROVE TypeOK'
  <2>1. /\ recorded' \subseteq Runs /\ open' \subseteq Runs
        /\ status' \in [Runs -> {"queued", "running", "waiting", "ended"}]
    BY <1>4 DEF Record, Suspend, Close, TypeOK
  <2> QED
    BY <1>4, <2>1 DEF Record, Suspend, Close, TypeOK
<1>5. CASE UNCHANGED vars
  BY <1>5 DEF vars, TypeOK
<1> QED
  BY <1>1, <1>2, <1>3, <1>4, <1>5 DEF Next

\* Type correctness of the signal endpoints.
THEOREM RouterTypeCorrect == Spec => []TypeOK
BY InitTypeOK, NextTypeOK, PTL DEF Spec

-----------------------------------------------------------------------------
(* Wakeups are warranted.  heard only grows, and everything a handler       *)
(* decides by - the received signals of a row, as stored or as fetched, and *)
(* its own signal - is in it.                                               *)

Warranted(w) ==
  CASE Mode[w] \in {"signal", "any"} ->
         IF Needed[w] = {} THEN heard[w] # {} ELSE heard[w] \cap Needed[w] # {}
    [] Mode[w] = "all" -> Needed[w] \subseteq heard[w]
    [] Mode[w] \in {"time", "until"} -> FALSE

RowsHeard == \A w \in Waiters : wait[w].received \subseteq heard[w]

CallHeard(c) ==
  /\ call[c].todo \subseteq call[c].fetched
  /\ call[c].dirty \subseteq call[c].fetched
  /\ call[c].pc \in {"idle", "connect"} => call[c].dirty = {}
  /\ \A w \in Waiters : call[c].seen[w].received \subseteq heard[w]
  /\ \A w \in call[c].fetched : call[c].signal \in heard[w]
  /\ \A w \in call[c].to : Warranted(w)

HeardInv ==
  /\ RowsHeard
  /\ \A c \in Calls : CallHeard(c)
  /\ \A w \in told : Warranted(w)

\* What a wait has been woken for stays heard.
LEMMA WarrantedIsStable ==
  ASSUME TypeOK, NEW w \in Waiters, Warranted(w), heard[w] \subseteq heard'[w]
  PROVE  Warranted(w)'
<1>1. Mode[w] \in {"signal", "any", "all", "time", "until"}
  BY RouterAssumption
<1> QED
  BY <1>1 DEF Warranted

\* A match is warranted by the signals it was decided by.
LEMMA MatchIsWarranted ==
  ASSUME NEW w \in Waiters, NEW received, NEW s,
         received \subseteq heard[w], s \in heard[w], Matches(w, received, s)
  PROVE  Warranted(w)
<1>1. Mode[w] \in {"signal", "any", "all", "time", "until"}
  BY RouterAssumption
<1> QED
  BY <1>1 DEF Warranted, Matches

\* A step that leaves the calls, and heard, alone.
LEMMA HeardFrame ==
  ASSUME TypeOK, HeardInv, UNCHANGED <<heard, call>>,
         told' \subseteq told, RowsHeard'
  PROVE  HeardInv'
BY DEF HeardInv, RowsHeard, CallHeard, Warranted

LEMMA FetchHeard ==
  ASSUME TypeOK, HeardInv, NEW c \in Calls, NEW kind \in {"channel", "run"},
         NEW ws \in SUBSET Waiters, Fetch(c, kind, ws),
         call[c].pc \in {"idle", "connect"}
  PROVE  HeardInv'
<1>1. /\ call[c] \in Call /\ call \in [Calls -> Call]
      /\ told \subseteq Waiters /\ heard \in [Waiters -> SUBSET Signals]
  BY DEF TypeOK
<1>2. \A w \in Waiters : heard[w] \subseteq heard'[w]
  BY DEF Fetch
<1>3. RowsHeard'
  BY <1>2 DEF HeardInv, RowsHeard, Fetch
<1>4. \A w \in told' : Warranted(w)'
  BY <1>1, <1>2, WarrantedIsStable DEF HeardInv, Fetch
<1>5. ASSUME NEW d \in Calls PROVE CallHeard(d)'
  <2>1. call[d].to \subseteq Waiters /\ call'[d].to = call[d].to
        /\ call'[d].signal = call[d].signal
        /\ call'[d].dirty = call[d].dirty
    BY <1>1 DEF Fetch, Call, TypeOK
  <2>2. \A w \in call'[d].to : Warranted(w)'
    BY <1>2, <2>1, WarrantedIsStable DEF HeardInv, CallHeard
  <2>3. CASE d # c
    <3>1. call'[d] = call[d]
      BY <1>1, <2>3 DEF Fetch
    <3>2. call[d].fetched \subseteq Waiters
      BY DEF TypeOK, Call
    <3> QED
      BY <1>2, <2>2, <3>1, <3>2 DEF HeardInv, CallHeard
  <2>4. CASE d = c
    <3>1. /\ call'[c].todo = ws /\ call'[c].fetched = ws
          /\ call'[c].seen = [w \in Waiters |-> IF w \in ws THEN wait[w]
                                                ELSE NoRow]
      BY <1>1 DEF Fetch, Call
    <3>2. call'[c].dirty = {}
      BY <2>1, <2>4 DEF Fetch, HeardInv, CallHeard
    <3>3. \A w \in Waiters : call'[c].seen[w].received \subseteq heard'[w]
      BY <1>2, <3>1 DEF HeardInv, RowsHeard, NoRow
    <3>4. \A w \in call'[c].fetched : call'[c].signal \in heard'[w]
      BY <2>1, <2>4, <3>1 DEF Fetch
    <3> QED
      BY <2>2, <2>4, <3>1, <3>2, <3>3, <3>4 DEF CallHeard
  <2> QED
    BY <2>3, <2>4
<1> QED
  BY <1>3, <1>4, <1>5 DEF HeardInv


\* A request about a run only takes note of the run.
LEMMA FindEffect ==
  ASSUME TypeOK, NEW c \in Calls, FindWaiting(c)
  PROVE  /\ \A d \in Calls \ {c} : call'[d] = call[d]
         /\ call[c].pc = "idle" /\ call'[c].pc = "connect"
         /\ call'[c].fetched = call[c].fetched
         /\ call'[c].seen = call[c].seen
         /\ call'[c].kind = call[c].kind
         /\ call'[c].signal = call[c].signal
         /\ call'[c].client = call[c].client
         /\ call'[c].todo = call[c].todo
         /\ call'[c].dirty = call[c].dirty
         /\ call'[c].to = call[c].to
         /\ UNCHANGED <<wait, told, heard>>
BY DEF TypeOK, FindWaiting, Call

LEMMA FindHeard ==
  ASSUME TypeOK, HeardInv, NEW c \in Calls, FindWaiting(c)
  PROVE  HeardInv'
<1>1. ASSUME NEW d \in Calls PROVE CallHeard(d)'
  <2>1. CASE d # c
    <3>1. call'[d] = call[d] /\ UNCHANGED heard
      BY <2>1, FindEffect
    <3> QED
      BY <3>1 DEF HeardInv, CallHeard, Warranted
  <2>2. CASE d = c
    <3>1. /\ call[c].pc = "idle" /\ call'[c].pc = "connect"
          /\ call'[c].fetched = call[c].fetched
          /\ call'[c].seen = call[c].seen /\ call'[c].signal = call[c].signal
          /\ call'[c].todo = call[c].todo /\ call'[c].dirty = call[c].dirty
          /\ call'[c].to = call[c].to /\ UNCHANGED heard
      BY FindEffect
    <3>2. CallHeard(c)
      BY DEF HeardInv
    <3> QED
      BY <2>2, <3>1, <3>2 DEF CallHeard, Warranted
  <2> QED
    BY <2>1, <2>2
<1> QED
  BY <1>1, FindEffect DEF HeardInv, RowsHeard, Warranted

\* What a step of the loop over the waits does to the handler.
LEMMA RouteEffect ==
  ASSUME TypeOK, NEW c \in Calls, NEW w \in Waiters,
         Skip(c, w) \/ MarkWaitSatisfied(c, w) \/ RowIsGone(c, w)
  PROVE  /\ \A d \in Calls \ {c} : call'[d] = call[d]
         /\ call'[c].fetched = call[c].fetched
         /\ call'[c].seen = call[c].seen
         /\ call'[c].kind = call[c].kind
         /\ call'[c].signal = call[c].signal
         /\ \/ /\ Skip(c, w)
               /\ call'[c].pc = "route"
               /\ call'[c].to = call[c].to
               /\ call'[c].todo = call[c].todo \ {w}
               /\ call'[c].dirty = Appended(c, w)
            \/ /\ MarkWaitSatisfied(c, w)
               /\ call'[c].pc = "send"
               /\ call'[c].to = {w}
               /\ call'[c].todo = call[c].todo \ {w}
               /\ call'[c].dirty \subseteq call[c].dirty
            \/ /\ RowIsGone(c, w)
               /\ call'[c].pc = "failed"
               /\ call'[c].to = call[c].to
               /\ call'[c].todo = call[c].todo
               /\ call'[c].dirty = call[c].dirty
<1>1. call[c] \in Call /\ call \in [Calls -> Call]
  BY DEF TypeOK
<1>2. CASE Skip(c, w)
  <2>1. call' = [call EXCEPT ![c] = [call[c] EXCEPT !.todo = @ \ {w},
                                                   !.dirty = Appended(c, w)]]
    BY <1>2 DEF Skip
  <2>2. call[c].pc = "route"
    BY <1>2 DEF Skip, Routing
  <2> QED
    BY <1>1, <1>2, <2>1, <2>2 DEF Call
<1>3. CASE MarkWaitSatisfied(c, w)
  <2>1. \/ call' = [call EXCEPT ![c] = [call[c] EXCEPT
                      !.pc = "send", !.to = {w}, !.todo = @ \ {w}]]
        \/ call' = [call EXCEPT ![c] = [call[c] EXCEPT
                      !.pc = "send", !.to = {w}, !.todo = @ \ {w},
                      !.stale = TRUE, !.dirty = {}]]
    BY <1>3 DEF MarkWaitSatisfied
  <2>2. \A d \in Calls \ {c} : call'[d] = call[d]
    BY <1>1, <2>1
  <2>3. /\ call'[c].fetched = call[c].fetched
        /\ call'[c].seen = call[c].seen
        /\ call'[c].kind = call[c].kind
        /\ call'[c].signal = call[c].signal
        /\ call'[c].pc = "send"
        /\ call'[c].to = {w}
        /\ call'[c].todo = call[c].todo \ {w}
        /\ call'[c].dirty \subseteq call[c].dirty
    <3>1. CASE call' = [call EXCEPT ![c] = [call[c] EXCEPT
                          !.pc = "send", !.to = {w}, !.todo = @ \ {w}]]
      BY <1>1, <3>1 DEF Call
    <3>2. CASE call' = [call EXCEPT ![c] = [call[c] EXCEPT
                          !.pc = "send", !.to = {w}, !.todo = @ \ {w},
                          !.stale = TRUE, !.dirty = {}]]
      BY <1>1, <3>2 DEF Call
    <3> QED
      BY <2>1, <3>1, <3>2
  <2> QED
    BY <1>3, <2>2, <2>3
<1>4. CASE RowIsGone(c, w)
  <2>1. call' = [call EXCEPT ![c] = [call[c] EXCEPT !.pc = "failed"]]
    BY <1>4 DEF RowIsGone
  <2> QED
    BY <1>1, <1>4, <2>1 DEF Call
<1> QED
  BY <1>2, <1>3, <1>4

\* What a step of a send, or of the answer to the request, does.
LEMMA SendEffect ==
  ASSUME TypeOK, NEW c \in Calls,
         NoSend(c) \/ Send(c) \/ Answer(c) \/ Respond(c)
  PROVE  /\ \A d \in Calls \ {c} : call'[d] = call[d]
         /\ call'[c].fetched = call[c].fetched
         /\ call'[c].seen = call[c].seen
         /\ call'[c].kind = call[c].kind
         /\ call'[c].signal = call[c].signal
         /\ call'[c].todo = call[c].todo
         /\ call'[c].dirty \subseteq call[c].dirty
         /\ call'[c].to \subseteq call[c].to
         /\ call'[c].pc \notin {"idle", "connect"}
         /\ call[c].pc \in {"send", "await"}
            => /\ call'[c].pc \in {"route", "done", "await"}
               /\ call[c].kind = "channel" => call'[c].pc # "done"
               /\ call'[c].pc = "await" => Send(c) /\ call'[c].to = call[c].to
<1>1. call[c] \in Call /\ call \in [Calls -> Call]
  BY DEF TypeOK
<1> QED
  BY <1>1 DEF NoSend, Send, Answer, Respond, Routing, AfterSend, Call

\* What marking a wait satisfied does to the rows.
LEMMA MarkEffect ==
  ASSUME TypeOK, NEW c \in Calls, NEW w \in Waiters, MarkWaitSatisfied(c, w),
         NEW v \in Waiters
  PROVE  /\ wait'[v].arms = wait[v].arms
         /\ wait[v].received \subseteq wait'[v].received
         /\ wait[v].satisfied => wait'[v].satisfied
         /\ wait'[v].satisfied => wait[v].satisfied \/ v = w
         /\ wait'[w].satisfied \/ Replaced(c, w)
<1>1. wait \in [Waiters -> Row]
  BY DEF TypeOK
<1>2. CASE Replaced(c, w)
  <2>1. UNCHANGED wait
    BY <1>2 DEF MarkWaitSatisfied
  <2> QED
    BY <1>2, <2>1
<1>3. CASE ~Replaced(c, w)
  <2>1. wait' = [d \in Waiters |->
                   [wait[d] EXCEPT
                      !.received = @ \cup IF d \in Appended(c, w)
                                          THEN {call[c].signal} ELSE {},
                      !.satisfied = @ \/ d = w]]
    BY <1>3 DEF MarkWaitSatisfied
  <2>2. ASSUME NEW d \in Waiters
        PROVE  /\ wait'[d].arms = wait[d].arms
               /\ wait[d].received \subseteq wait'[d].received
    BY <1>1, <2>1 DEF Row
  <2>3. ASSUME NEW d \in Waiters
        PROVE  wait'[d].satisfied = (wait[d].satisfied \/ d = w)
    <3>1. wait'[d] = [wait[d] EXCEPT
                        !.received = @ \cup IF d \in Appended(c, w)
                                            THEN {call[c].signal} ELSE {},
                        !.satisfied = @ \/ d = w]
      BY <2>1
    <3>2. wait[d] \in Row
      BY <1>1
    <3> QED
      BY <3>1, <3>2 DEF Row
  <2> QED
    BY <2>2, <2>3
<1> QED
  BY <1>2, <1>3

\* The steps of the loop over the waits, and the answers.
LEMMA RouteHeard ==
  ASSUME TypeOK, TypeOK', HeardInv, NEW c \in Calls, NEW w \in Waiters,
         Skip(c, w) \/ MarkWaitSatisfied(c, w) \/ RowIsGone(c, w)
  PROVE  HeardInv'
<1> USE DEF runVars
<1>1. /\ call[c] \in Call /\ call \in [Calls -> Call]
      /\ wait \in [Waiters -> Row]
  BY DEF TypeOK
<1>2. UNCHANGED <<heard, told>> /\ w \in call[c].todo
  BY DEF Skip, MarkWaitSatisfied, RowIsGone
<1>3. w \in call[c].fetched /\ call[c].signal \in heard[w]
  BY <1>2 DEF HeardInv, CallHeard
<1>4. Appended(c, w) \subseteq call[c].fetched
  BY <1>3 DEF Appended, HeardInv, CallHeard
<1>5. SeenBy(c, w).received \subseteq heard[w]
  BY DEF SeenBy, HeardInv, CallHeard, RowsHeard
<1>6. \A v \in told' : Warranted(v)'
  BY <1>2 DEF HeardInv, Warranted
<1>7. RowsHeard'
  <2>1. CASE UNCHANGED wait
    BY <1>2, <2>1 DEF HeardInv, RowsHeard
  <2>2. CASE \A d \in Waiters : wait'[d].received = wait[d].received \cup
               IF d \in Appended(c, w) THEN {call[c].signal} ELSE {}
    BY <1>2, <1>4, <2>2 DEF HeardInv, RowsHeard, CallHeard
  <2>3. CASE MarkWaitSatisfied(c, w) /\ ~UNCHANGED wait
    <3>1. wait' = [d \in Waiters |->
                     [wait[d] EXCEPT
                        !.received = @ \cup IF d \in Appended(c, w)
                                            THEN {call[c].signal} ELSE {},
                        !.satisfied = @ \/ d = w]]
      BY <2>3 DEF MarkWaitSatisfied
    <3>2. \A d \in Waiters : wait'[d].received = wait[d].received \cup
               IF d \in Appended(c, w) THEN {call[c].signal} ELSE {}
      BY <1>1, <3>1 DEF Row
    <3> QED
      BY <3>2, <2>2
  <2> QED
    BY <2>1, <2>3 DEF Skip, RowIsGone
<1>8. ASSUME NEW d \in Calls PROVE CallHeard(d)'
  <2>1. CASE d # c
    <3>1. call'[d] = call[d]
      BY <2>1, RouteEffect
    <3> QED
      BY <1>2, <3>1 DEF HeardInv, CallHeard, Warranted
  <2>2. CASE d = c
    <3>1. /\ call'[c].fetched = call[c].fetched
          /\ call'[c].seen = call[c].seen /\ call'[c].signal = call[c].signal
          /\ call'[c].todo \subseteq call[c].todo
          /\ call'[c].pc \notin {"idle", "connect"}
      BY RouteEffect
    <3>2. call'[c].dirty \subseteq call[c].fetched
      BY <1>4, RouteEffect DEF HeardInv, CallHeard
    <3>3. \A v \in call'[c].to : Warranted(v)'
      <4>1. CASE call'[c].to = call[c].to
        BY <1>2, <4>1 DEF HeardInv, CallHeard, Warranted
      <4>2. CASE MarkWaitSatisfied(c, w) /\ call'[c].to = {w}
        <5>1. Warranted(w)
          BY <1>3, <1>5, <4>2, MatchIsWarranted DEF MarkWaitSatisfied
        <5> QED
          BY <1>2, <4>2, <5>1 DEF Warranted
      <4> QED
        BY <4>1, <4>2, RouteEffect
    <3> QED
      BY <1>2, <2>2, <3>1, <3>2, <3>3 DEF HeardInv, CallHeard
  <2> QED
    BY <2>1, <2>2
<1> QED
  BY <1>6, <1>7, <1>8 DEF HeardInv

LEMMA SendHeard ==
  ASSUME TypeOK, HeardInv, NEW c \in Calls,
         NoSend(c) \/ Send(c) \/ Answer(c) \/ Respond(c)
  PROVE  HeardInv'
<1> USE DEF runVars
<1>1. call[c] \in Call /\ call \in [Calls -> Call]
  BY DEF TypeOK
<1>2. UNCHANGED <<heard, wait>> /\ told' \subseteq told \cup call[c].to
  BY DEF NoSend, Send, Answer, Respond, Hears, Refuses
<1>3. RowsHeard' /\ \A w \in told' : Warranted(w)'
  BY <1>2 DEF HeardInv, RowsHeard, CallHeard, Warranted
<1>4. ASSUME NEW d \in Calls PROVE CallHeard(d)'
  <2>1. CASE d # c
    <3>1. call'[d] = call[d]
      BY <2>1, SendEffect
    <3> QED
      BY <1>2, <3>1 DEF HeardInv, CallHeard, Warranted
  <2>2. CASE d = c
    <3>1. /\ call'[c].fetched = call[c].fetched
          /\ call'[c].seen = call[c].seen /\ call'[c].signal = call[c].signal
          /\ call'[c].todo = call[c].todo
          /\ call'[c].pc \notin {"idle", "connect"}
          /\ call'[c].dirty \subseteq call[c].dirty
          /\ call'[c].to \subseteq call[c].to
      BY SendEffect
    <3> QED
      BY <1>2, <2>2, <3>1 DEF HeardInv, CallHeard, Warranted
  <2> QED
    BY <2>1, <2>2
<1> QED
  BY <1>3, <1>4 DEF HeardInv

LEMMA NextHeard == TypeOK /\ TypeOK' /\ HeardInv /\ [Next]_vars => HeardInv'
<1> SUFFICES ASSUME TypeOK, TypeOK', HeardInv, [Next]_vars PROVE HeardInv'
  OBVIOUS
<1> USE DEF runVars
<1>1. ASSUME NEW c \in Calls, Request(c) PROVE HeardInv'
  <2>1. CASE EmitChannelSignal(c) \/ SendRunSignal(c)
    <3>1. PICK kind \in {"channel", "run"}, ws \in SUBSET Waiters :
            Fetch(c, kind, ws)
      BY <2>1 DEF EmitChannelSignal, SendRunSignal, ChannelWaits, RunWaits
    <3>2. call[c].pc \in {"idle", "connect"}
      BY <2>1 DEF EmitChannelSignal, SendRunSignal
    <3> QED
      BY <3>1, <3>2, FetchHeard
  <2> QED
    BY <1>1, <2>1, FindHeard, RouteHeard, SendHeard DEF Request
<1>2. ASSUME NEW w \in Waiters, PersistWaitState(w) PROVE HeardInv'
  <2>1. RowsHeard'
    <3>1. wait'[w].received = {} /\ \A v \in Waiters \ {w} : wait'[v] = wait[v]
      BY <1>2 DEF PersistWaitState, TypeOK, NoRow
    <3> QED
      BY <1>2, <3>1 DEF PersistWaitState, HeardInv, RowsHeard
  <2> QED
    BY <1>2, <2>1, HeardFrame DEF PersistWaitState
<1>3. CASE UNCHANGED <<wait, told, heard, call>>
  BY <1>3, HeardFrame DEF HeardInv, RowsHeard
<1> QED
  BY <1>1, <1>2, <1>3 DEF Next, Expire, Record, Suspend, Close, vars

LEMMA InitHeard == Init => HeardInv
BY DEF Init, Idle, NoRow, HeardInv, RowsHeard, CallHeard

\* A workflow is only woken by signals that satisfy its wait, whatever rows
\* are replaced, timed out or committed while the handlers are at work.
THEOREM WakeupsAreWarranted == Spec => []WakeupIsWarranted
<1>1. HeardInv => WakeupIsWarranted
  BY DEF HeardInv, WakeupIsWarranted, Warranted
<1> QED
  BY <1>1, InitTypeOK, NextTypeOK, InitHeard, NextHeard, PTL DEF Spec

-----------------------------------------------------------------------------
(* Nobody is woken by an object without send_receive_signal, and that is    *)
(* all the callers of the router have.                                      *)

\* No handler has come to await an answer of Temporal.
SilentInv == told = {} /\ \A c \in Calls : call[c].pc # "await"

LEMMA NextSilent ==
  ASSUME "TemporalClient" \notin Clients, TypeOK, SilentInv, [Next]_vars
  PROVE  SilentInv'
<1> USE DEF runVars
<1>1. call \in [Calls -> Call]
  BY DEF TypeOK
<1>2. ASSUME NEW c \in Calls, Request(c) PROVE SilentInv'
  <2>1. call[c].client \in Clients /\ call[c].pc # "await"
    BY <1>1 DEF Call, SilentInv
  <2>2. ~Send(c) /\ ~Answer(c)
    BY <2>1 DEF Send, HasSend, Answer
  <2>3. CASE EmitChannelSignal(c) \/ SendRunSignal(c)
    <3>1. PICK kind, ws : Fetch(c, kind, ws)
      BY <2>3 DEF EmitChannelSignal, SendRunSignal
    <3>2. call'[c].pc = "route" /\ \A d \in Calls \ {c} : call'[d] = call[d]
      BY <1>1, <3>1 DEF Fetch, Call
    <3> QED
      BY <3>1, <3>2 DEF Fetch, SilentInv
  <2>4. CASE FindWaiting(c)
    BY <2>4, FindEffect DEF SilentInv
  <2>5. CASE NoSend(c) \/ Respond(c)
    <3>1. call'[c].pc \in {"route", "done"}
      BY <1>1, <2>5 DEF NoSend, Respond, AfterSend, Call
    <3>2. UNCHANGED told /\ \A d \in Calls \ {c} : call'[d] = call[d]
      BY <2>5, SendEffect DEF NoSend, Respond
    <3> QED
      BY <3>1, <3>2 DEF SilentInv
  <2>6. ASSUME NEW w \in Waiters,
               Skip(c, w) \/ MarkWaitSatisfied(c, w) \/ RowIsGone(c, w)
        PROVE  SilentInv'
    <3>1. UNCHANGED told
      BY <2>6 DEF Skip, MarkWaitSatisfied, RowIsGone
    <3>2. /\ call'[c].pc \in {"route", "send", "failed"}
          /\ \A d \in Calls \ {c} : call'[d] = call[d]
      BY <2>6, RouteEffect
    <3> QED
      BY <3>1, <3>2 DEF SilentInv
  <2> QED
    BY <1>2, <2>2, <2>3, <2>4, <2>5, <2>6 DEF Request
<1>3. CASE UNCHANGED call /\ told' \subseteq told
  BY <1>3 DEF SilentInv
<1> QED
  BY <1>2, <1>3
     DEF Next, PersistWaitState, Expire, Record, Suspend, Close, vars

\* With what the callers really hand to the router - the temporalio Client, or
\* None - no workflow is ever told of a signal, whatever waits are marked
\* satisfied for it: channel_router and wait_service swallow the exception.
THEOREM NobodyIsWoken ==
  ASSUME "TemporalClient" \notin Clients
  PROVE  Spec => [](told = {})
<1>1. Init => SilentInv
  BY DEF Init, Idle, SilentInv
<1>2. TypeOK /\ SilentInv /\ [Next]_vars => SilentInv'
  BY NextSilent
<1>3. SilentInv => told = {}
  BY DEF SilentInv
<1> QED
  BY <1>1, <1>2, <1>3, InitTypeOK, NextTypeOK, PTL DEF Spec

-----------------------------------------------------------------------------
(* The fan-out.  A row only changes by being inserted again, which the      *)
(* count of its insertions shows, or by growing.                            *)

RowKept(c, w) ==
  /\ call[c].seen[w].arms <= wait[w].arms
  /\ ~Replaced(c, w) => call[c].seen[w].received \subseteq wait[w].received

Looked(c, w) ==
  Matches(w, call[c].seen[w].received, call[c].signal) =>
    wait[w].satisfied \/ Replaced(c, w)

CallFanOut(c) ==
  /\ call[c].todo \subseteq call[c].fetched
  /\ \A w \in Waiters : RowKept(c, w)
  /\ \A w \in call[c].fetched \ call[c].todo : Looked(c, w)
  /\ call[c].kind = "channel" /\ call[c].pc = "done" => call[c].todo = {}

FanOutInv == \A c \in Calls : CallFanOut(c)

\* A step of the rows under a handler that has not moved.
LEMMA FanOutFrame ==
  ASSUME TypeOK, TypeOK', NEW c \in Calls, CallFanOut(c), call'[c] = call[c],
         \A w \in Waiters :
           \/ wait'[w].arms > wait[w].arms
           \/ /\ wait'[w].arms = wait[w].arms
              /\ wait[w].received \subseteq wait'[w].received
              /\ wait[w].satisfied => wait'[w].satisfied
  PROVE  CallFanOut(c)'
<1>1. /\ call[c].fetched \subseteq Waiters
      /\ \A w \in Waiters : /\ call[c].seen[w].arms \in Nat
                            /\ wait[w].arms \in Nat /\ wait'[w].arms \in Nat
  BY DEF TypeOK, Call, Row
<1>2. \A w \in Waiters : RowKept(c, w)'
  BY <1>1 DEF CallFanOut, RowKept, Replaced
<1>3. ASSUME NEW w \in call[c].fetched \ call[c].todo PROVE Looked(c, w)'
  <2>1. RowKept(c, w) /\ Looked(c, w) /\ w \in Waiters
    BY <1>1 DEF CallFanOut
  <2>2. wait[w].satisfied \/ Replaced(c, w)
        => wait'[w].satisfied \/ Replaced(c, w)'
    BY <1>1, <2>1 DEF RowKept, Replaced
  <2> QED
    BY <2>1, <2>2 DEF Looked, Matches
<1> QED
  BY <1>2, <1>3 DEF CallFanOut

\* More received signals never make a match fail.
LEMMA MatchGrows ==
  ASSUME NEW w \in Waiters, NEW r1, NEW r2, r1 \subseteq r2, NEW s,
         Matches(w, r1, s)
  PROVE  Matches(w, r2, s)
<1>1. Mode[w] \in {"signal", "any", "all", "time", "until"}
  BY RouterAssumption
<1> QED
  BY <1>1 DEF Matches

LEMMA NextFanOut ==
  ASSUME TypeOK, TypeOK', FanOutInv, [Next]_vars
  PROVE  FanOutInv'
<1> USE DEF runVars
<1>1. /\ call \in [Calls -> Call] /\ call' \in [Calls -> Call]
      /\ wait \in [Waiters -> Row] /\ wait' \in [Waiters -> Row]
  BY DEF TypeOK
<1> SUFFICES ASSUME NEW d \in Calls PROVE CallFanOut(d)'
  BY DEF FanOutInv
<1>2. CallFanOut(d)
  BY DEF FanOutInv
<1>3. ASSUME NEW c \in Calls, NEW kind \in {"channel", "run"},
             NEW ws \in SUBSET Waiters, Fetch(c, kind, ws)
      PROVE  CallFanOut(d)'
  <2>1. CASE d # c
    <3>1. call'[d] = call[d]
      BY <1>1, <1>3, <2>1 DEF Fetch
    <3> QED
      BY <1>2, <1>3, <3>1, FanOutFrame DEF Fetch
  <2>2. CASE d = c
    <3>1. /\ call'[c].todo = ws /\ call'[c].fetched = ws
          /\ call'[c].pc = "route"
          /\ call'[c].seen = [w \in Waiters |-> IF w \in ws THEN wait[w]
                                                ELSE NoRow]
      <4> DEFINE rows == [w \in Waiters |-> IF w \in ws THEN wait[w] ELSE NoRow]
      <4>1. call' = [call EXCEPT ![c] =
                       [call[c] EXCEPT !.pc = "route", !.kind = kind,
                                       !.about = {}, !.fetched = ws,
                                       !.todo = ws, !.seen = rows]]
        BY <1>3 DEF Fetch
      <4> HIDE DEF rows
      <4>2. /\ call'[c].todo = ws /\ call'[c].fetched = ws
            /\ call'[c].pc = "route" /\ call'[c].seen = rows
        BY <1>1, <4>1 DEF Call
      <4> QED
        BY <4>2 DEF rows
    <3>2. \A w \in Waiters : wait[w].arms \in Nat /\ wait'[w] = wait[w]
      BY <1>1, <1>3 DEF Fetch, Row
    <3>3. \A w \in Waiters : RowKept(c, w)'
      BY <3>1, <3>2 DEF RowKept, Replaced, NoRow
    <3> QED
      BY <2>2, <3>1, <3>3 DEF CallFanOut
  <2> QED
    BY <2>1, <2>2
<1>4. ASSUME NEW c \in Calls, NEW w \in Waiters,
             Skip(c, w) \/ MarkWaitSatisfied(c, w) \/ RowIsGone(c, w)
      PROVE  CallFanOut(d)'
  <2>1. \A v \in Waiters : /\ wait'[v].arms = wait[v].arms
                           /\ wait[v].received \subseteq wait'[v].received
                           /\ wait[v].satisfied => wait'[v].satisfied
    BY <1>4, MarkEffect DEF Skip, RowIsGone
  <2>2. CASE d # c
    BY <1>2, <1>4, <2>1, <2>2, RouteEffect, FanOutFrame
  <2>3. CASE d = c
    <3>1. /\ call'[c].fetched = call[c].fetched
          /\ call'[c].seen = call[c].seen
          /\ call'[c].signal = call[c].signal
          /\ call'[c].todo \subseteq call[c].todo
          /\ call'[c].pc # "done"
      BY <1>4, RouteEffect
    <3>2. \A v \in Waiters : RowKept(c, v)'
      BY <1>2, <2>1, <2>3, <3>1 DEF CallFanOut, RowKept, Replaced
    <3>3. ASSUME NEW v \in call[c].fetched \ call[c].todo
          PROVE  Looked(c, v)'
      <4>1. v \in Waiters /\ Looked(c, v)
        BY <1>1, <1>2, <2>3 DEF CallFanOut, Call
      <4> QED
        BY <2>1, <3>1, <4>1 DEF Looked, Replaced, Matches
    <3>4. CASE Skip(c, w)
      <4>1. ~Replaced(c, w) => ~Matches(w, call[c].seen[w].received,
                                       call[c].signal)
        BY <1>2, <2>3, <3>4, MatchGrows
           DEF Skip, SeenBy, CallFanOut, RowKept
      <4>2. Looked(c, w)'
        BY <2>1, <3>1, <4>1 DEF Looked, Replaced, Matches
      <4>3. call'[c].todo = call[c].todo \ {w}
        BY <3>4, RouteEffect DEF Skip, MarkWaitSatisfied, RowIsGone
      <4> QED
        BY <1>2, <2>3, <3>1, <3>2, <3>3, <4>2, <4>3 DEF CallFanOut
    <3>5. CASE MarkWaitSatisfied(c, w)
      <4>1. Looked(c, w)'
        BY <2>1, <3>1, <3>5, MarkEffect DEF Looked, Replaced
      <4>2. call'[c].todo = call[c].todo \ {w}
        BY <3>5, RouteEffect DEF Skip, MarkWaitSatisfied, RowIsGone
      <4> QED
        BY <1>2, <2>3, <3>1, <3>2, <3>3, <4>1, <4>2 DEF CallFanOut
    <3>6. CASE RowIsGone(c, w)
      <4>1. call'[c].todo = call[c].todo
        BY <3>6, <1>1 DEF RowIsGone, Call
      <4> QED
        BY <1>2, <2>3, <3>1, <3>2, <3>3, <4>1 DEF CallFanOut
    <3> QED
      BY <1>4, <3>4, <3>5, <3>6
  <2> QED
    BY <2>2, <2>3
<1>5. ASSUME NEW c \in Calls, NoSend(c) \/ Send(c) \/ Answer(c) \/ Respond(c)
      PROVE  CallFanOut(d)'
  <2>1. UNCHANGED wait
    BY <1>5 DEF NoSend, Send, Answer, Respond
  <2>2. CASE d # c
    BY <1>2, <1>5, <2>1, <2>2, SendEffect, FanOutFrame
  <2>3. CASE d = c
    <3>1. call'[c].kind = "channel" /\ call'[c].pc = "done"
          => call'[c].todo = {}
      <4>1. CASE Respond(c)
        BY <4>1, SendEffect DEF Respond
      <4>2. CASE NoSend(c) \/ Send(c) \/ Answer(c)
        BY <4>2, SendEffect DEF NoSend, Send, Answer
      <4> QED
        BY <1>5, <4>1, <4>2
    <3>2. /\ call'[c].fetched = call[c].fetched
          /\ call'[c].seen = call[c].seen
          /\ call'[c].signal = call[c].signal
          /\ call'[c].todo = call[c].todo
      BY <1>5, SendEffect
    <3>3. \A w \in Waiters : RowKept(c, w)'
      BY <1>2, <2>1, <2>3, <3>2 DEF CallFanOut, RowKept, Replaced
    <3>4. \A w \in call[c].fetched \ call[c].todo : Looked(c, w)'
      BY <1>2, <2>1, <2>3, <3>2 DEF CallFanOut, Looked, Replaced, Matches
    <3> QED
      BY <1>2, <2>3, <3>1, <3>2, <3>3, <3>4 DEF CallFanOut
  <2> QED
    BY <2>2, <2>3
<1>6. ASSUME NEW c \in Calls, Request(c) PROVE CallFanOut(d)'
  <2>1. CASE EmitChannelSignal(c) \/ SendRunSignal(c)
    <3>1. PICK kind \in {"channel", "run"}, ws \in SUBSET Waiters :
            Fetch(c, kind, ws)
      BY <2>1 DEF EmitChannelSignal, SendRunSignal, ChannelWaits, RunWaits
    <3> QED
      BY <1>3, <3>1
  <2>2. CASE FindWaiting(c)
    <3>1. CASE d # c
      BY <1>2, <2>2, <3>1, FindEffect, FanOutFrame
    <3>2. CASE d = c
      <4>1. /\ call'[c].fetched = call[c].fetched
            /\ call'[c].seen = call[c].seen
            /\ call'[c].signal = call[c].signal
            /\ call'[c].todo = call[c].todo
            /\ call'[c].pc = "connect" /\ wait' = wait
        BY <2>2, FindEffect
      <4> QED
        BY <1>2, <3>2, <4>1
           DEF CallFanOut, RowKept, Looked, Replaced, Matches
    <3> QED
      BY <3>1, <3>2
  <2> QED
    BY <1>4, <1>5, <1>6, <2>1, <2>2 DEF Request
<1>7. ASSUME NEW w \in Waiters, PersistWaitState(w) PROVE CallFanOut(d)'
  <2>1. wait[w].arms \in Nat /\ wait'[w].arms = wait[w].arms + 1
    BY <1>1, <1>7 DEF PersistWaitState, NoRow, Row
  <2>2. \A v \in Waiters \ {w} : wait'[v] = wait[v]
    BY <1>1, <1>7 DEF PersistWaitState
  <2>3. wait'[w].arms > wait[w].arms
    BY <2>1
  <2>4. call'[d] = call[d]
    BY <1>7 DEF PersistWaitState
  <2> QED
    BY <1>2, <2>2, <2>3, <2>4, FanOutFrame
<1>8. CASE UNCHANGED <<wait, call>>
  BY <1>2, <1>8, FanOutFrame
<1> QED
  BY <1>6, <1>7, <1>8 DEF Next, Expire, Record, Suspend, Close, vars

\* One refused send does not stop the fan-out: a channel request that has been
\* answered has satisfied every wait it fetched and its signal matches, but
\* for those the worker inserted again meanwhile.
THEOREM FanOutCompletes == Spec => []FanOutIsComplete
<1>1. Init => FanOutInv
  BY DEF Init, Idle, NoRow, FanOutInv, CallFanOut, RowKept, Replaced
<1>2. TypeOK /\ TypeOK' /\ FanOutInv /\ [Next]_vars => FanOutInv'
  BY NextFanOut
<1>3. FanOutInv => FanOutIsComplete
  BY DEF FanOutInv, CallFanOut, Looked, FanOutIsComplete
<1> QED
  BY <1>1, <1>2, <1>3, InitTypeOK, NextTypeOK, PTL DEF Spec

=============================================================================
