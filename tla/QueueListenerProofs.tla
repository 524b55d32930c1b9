-------------------------- MODULE QueueListenerProofs --------------------------
(***************************************************************************)
(* Safety of the queue listeners, for any events, streams and tasks.       *)
(*                                                                         *)
(* PlacesInv says where a task may be referred to, which is what makes an  *)
(* event's task unique; ReadingInv says that the positions a task reads    *)
(* from are never behind what the event's script has been given.           *)
(***************************************************************************)
EXTENDS QueueListener, TLAPS

PlacesInv ==
    /\ \A e \in Events :
          dict[e] # 0 => /\ task[dict[e]].ev = e
                         /\ task[dict[e]].st # "free"
                         /\ dict[e] # awaiting \/ pc = "stopping"
    /\ \A s \in Slots : Alive(s) => /\ task[s].ev \in Events /\ task[s].q \in Queues
                                    /\ dict[task[s].ev] = s \/ awaiting = s
    /\ awaiting # 0 => pc \in {"await", "stopping"}
    /\ pc = "await" => awaiting # 0
    /\ awaiting # 0 => task[awaiting].st \in {"closing", "done"}
    /\ \A e \in keys : dict[e] # 0
    /\ pc = "stopping" =>
          /\ \A e \in Events : dict[e] # 0 /\ Alive(dict[e]) => e \in keys
          /\ awaiting # 0 => \E e \in keys : dict[e] = awaiting
    /\ pc = "stopped" => /\ \A s \in Slots : ~Alive(s)
                         /\ \A e \in Events : dict[e] = 0

ReadingInv ==
    /\ ~disorder
    /\ \A e \in Events, q \in Queues : handled[e][q] <= stream[q]
    /\ \A s \in Slots :
          LET t == task[s]
              h == handled[t.ev][t.q]
          IN /\ t.st \in {"idle", "block"} => t.last = NewOnly \/ t.last >= h
             /\ t.st = "block" => t.cur >= h
             /\ t.st = "run" => t.last > h /\ t.last <= stream[t.q]

Inv == TypeOK /\ PlacesInv /\ ReadingInv

-----------------------------------------------------------------------------
\* Zero is not a task.
LEMMA SlotsArePositive == 0 \notin Slots /\ Slots \subseteq Nat
BY ListenerAssumption

\* A task that goes to another of its awaits remains the same event's task.
LEMMA OneTask ==
    ASSUME TypeOK, NEW s \in Slots, NEW last \in Nat, NEW cur \in Nat,
           NEW st \in {"free", "idle", "block", "run", "closing", "done"},
           task' = [task EXCEPT ![s] = At(@, st, last, cur)]
    PROVE  /\ task' \in [Slots -> Tasks]
           /\ task'[s].st = st /\ task'[s].last = last /\ task'[s].cur = cur
           /\ task'[s].ev = task[s].ev /\ task'[s].q = task[s].q
           /\ \A r \in Slots : r # s => task'[r] = task[r]
BY DEF TypeOK, At, Tasks

\* What is known of a task that is alive, and of one that still reads.
LEMMA LiveTask ==
    ASSUME Inv, NEW s \in Slots, Alive(s)
    PROVE  /\ task[s] \in Tasks /\ task[s].ev \in Events /\ task[s].q \in Queues
           /\ task[s].last \in Nat /\ task[s].cur \in Nat
           /\ stream[task[s].q] \in Nat /\ handled[task[s].ev][task[s].q] \in Nat
           /\ handled[task[s].ev][task[s].q] <= stream[task[s].q]
           /\ dict[task[s].ev] = s \/ awaiting = s
           /\ task[s].st # "closing" => dict[task[s].ev] = s /\ awaiting # s
<1>1. task[s] \in Tasks /\ task[s].ev \in Events /\ task[s].q \in Queues
  BY DEF Inv, TypeOK, PlacesInv
<1>2. task[s].last \in Nat /\ task[s].cur \in Nat
  BY <1>1 DEF Tasks
<1>3. stream[task[s].q] \in Nat /\ handled[task[s].ev][task[s].q] \in Nat
  BY <1>1 DEF Inv, TypeOK
<1>4. awaiting = s => task[s].st = "closing"
  BY SlotsArePositive DEF Inv, PlacesInv, Alive, Over
<1> QED BY <1>1, <1>2, <1>3, <1>4 DEF Inv, PlacesInv, ReadingInv

\* A task that moves on keeps its place.
LEMMA PlaceKept ==
    ASSUME Inv, NEW s \in Slots, Alive(s),
           task'[s].ev = task[s].ev, task'[s].q = task[s].q, task'[s].st # "free",
           \A r \in Slots : r # s => task'[r] = task[r],
           awaiting = s => task'[s].st \in {"closing", "done"},
           UNCHANGED <<dict, pc, keys, awaiting>>
    PROVE  PlacesInv'
<1>1. \A e \in Events : dict[e] # 0 => dict[e] \in Slots
  BY DEF Inv, TypeOK
<1>2. \A r \in Slots : task'[r].ev = task[r].ev /\ task'[r].q = task[r].q
  OBVIOUS
<1>3. \A r \in Slots : Alive(r)' => Alive(r)
  BY DEF Alive, Over
<1>4. \A r \in Slots : task[r].st # "free" => task'[r].st # "free"
  OBVIOUS
<1>5. \A e \in Events : dict'[e] # 0 => /\ task'[dict'[e]].ev = e
                                        /\ task'[dict'[e]].st # "free"
                                        /\ dict'[e] # awaiting' \/ pc' = "stopping"
  BY <1>1, <1>2, <1>4 DEF Inv, PlacesInv
<1>6. \A r \in Slots : Alive(r)' => /\ task'[r].ev \in Events /\ task'[r].q \in Queues
                                    /\ dict'[task'[r].ev] = r \/ awaiting' = r
  BY <1>2, <1>3 DEF Inv, PlacesInv
<1>7. awaiting' # 0 => task'[awaiting'].st \in {"closing", "done"}
  BY DEF Inv, TypeOK, PlacesInv
<1>8. pc' = "stopping" =>
          /\ \A e \in Events : dict[e] # 0 /\ Alive(dict[e])' => e \in keys
          /\ awaiting # 0 => \E e \in keys : dict[e] = awaiting
  BY <1>1, <1>3 DEF Inv, PlacesInv
<1>9. pc' = "stopped" => \A r \in Slots : ~Alive(r)'
  BY DEF Inv, PlacesInv
<1> QED BY <1>5, <1>6, <1>7, <1>8, <1>9 DEF Inv, PlacesInv

\* The invariant holds when the process starts.
LEMMA Initially == Init => Inv
<1> SUFFICES ASSUME Init PROVE Inv
  OBVIOUS
<1>1. TypeOK
  BY DEF Init, TypeOK, Tasks, Free
<1>2. PlacesInv
  BY <1>1, SlotsArePositive DEF Init, TypeOK, PlacesInv, Alive, Over, Free
<1>3. ReadingInv
  BY <1>1 DEF Init, TypeOK, ReadingInv, Free
<1> QED BY <1>1, <1>2, <1>3 DEF Inv

\* A task starts to read where it left off, or behind the last message.
LEMMA IssuePreserves ==
    ASSUME Inv, NEW s \in Slots, Issue(s)
    PROVE  Inv'
<1>1. /\ Alive(s) /\ task[s].st = "idle"
      /\ UNCHANGED <<exists, enabled, queue, stream, client, dict, pc, wanted, keys,
                     awaiting, stop, handled, disorder>>
  BY DEF Issue, Alive, Over, rowVars, syncVars, histVars
<1>2. /\ task' \in [Slots -> Tasks]
      /\ task'[s].st = "block" /\ task'[s].last = task[s].last /\ task'[s].cur = From(task[s])
      /\ task'[s].ev = task[s].ev /\ task'[s].q = task[s].q
      /\ \A r \in Slots : r # s => task'[r] = task[r]
  <2>1. From(task[s]) \in Nat /\ task[s].last \in Nat
    BY <1>1, LiveTask DEF From
  <2>2. task' = [task EXCEPT ![s] = At(@, "block", task[s].last, From(task[s]))]
    BY DEF Issue
  <2> QED BY <2>1, <2>2, OneTask DEF Inv
<1>3. TypeOK'
  BY <1>1, <1>2 DEF Inv, TypeOK
<1>4. PlacesInv'
  BY <1>1, <1>2, LiveTask, PlaceKept
<1>5. ReadingInv'
  <2> DEFINE h == handled[task[s].ev][task[s].q]
  <2>1. task[s].last = NewOnly \/ task[s].last >= h
    BY <1>1 DEF Inv, ReadingInv
  <2>2. From(task[s]) >= h
    BY <1>1, <2>1, LiveTask DEF From
  <2> QED BY <1>1, <1>2, <2>1, <2>2 DEF Inv, ReadingInv
<1> QED BY <1>3, <1>4, <1>5 DEF Inv

\* A read that fails moves nothing.
LEMMA ReadFailsPreserves ==
    ASSUME Inv, NEW s \in Slots, ReadFails(s)
    PROVE  Inv'
<1>1. /\ Alive(s) /\ task[s].st = "block"
      /\ UNCHANGED <<exists, enabled, queue, stream, client, dict, pc, wanted, keys,
                     awaiting, stop, handled, disorder>>
  BY DEF ReadFails, Alive, Over, rowVars, syncVars, histVars
<1>2. /\ task' \in [Slots -> Tasks]
      /\ task'[s].st = "idle" /\ task'[s].last = task[s].last /\ task'[s].cur = 0
      /\ task'[s].ev = task[s].ev /\ task'[s].q = task[s].q
      /\ \A r \in Slots : r # s => task'[r] = task[r]
  <2>1. 0 \in Nat /\ task[s].last \in Nat
    BY <1>1, LiveTask DEF From
  <2>2. task' = [task EXCEPT ![s] = At(@, "idle", task[s].last, 0)]
    BY DEF ReadFails
  <2> QED BY <2>1, <2>2, OneTask DEF Inv
<1>3. TypeOK'
  BY <1>1, <1>2 DEF Inv, TypeOK
<1>4. PlacesInv'
  BY <1>1, <1>2, LiveTask, PlaceKept
<1>5. ReadingInv'
  <2> DEFINE h == handled[task[s].ev][task[s].q]
  <2>1. task[s].last = NewOnly \/ task[s].last >= h
    BY <1>1 DEF Inv, ReadingInv
  <2> QED BY <1>1, <1>2, <2>1 DEF Inv, ReadingInv
<1> QED BY <1>3, <1>4, <1>5 DEF Inv

\* The script is given a message behind all it was given.
LEMMA ScriptGiven ==
    ASSUME Inv, NEW s \in Slots, Alive(s), task[s].st # "closing",
           NEW m \in Nat, handled[task[s].ev][task[s].q] < m, m <= stream[task[s].q],
           RunScript(task[s].ev, task[s].q, m), stream' = stream,
           task'[s].st = "idle", task'[s].last = m,
           task'[s].ev = task[s].ev, task'[s].q = task[s].q,
           \A r \in Slots : r # s => task'[r] = task[r]
    PROVE  /\ handled' \in [Events -> [Queues -> Nat]] /\ disorder' \in BOOLEAN
           /\ ReadingInv'
<1> DEFINE a == task[s].ev
           b == task[s].q
<1>1. /\ a \in Events /\ b \in Queues /\ dict[a] = s
      /\ handled[a][b] \in Nat /\ stream \in [Queues -> Nat]
      /\ handled \in [Events -> [Queues -> Nat]]
  BY LiveTask DEF Inv, TypeOK
<1>2. handled' = [handled EXCEPT ![a][b] = m] /\ disorder' \in BOOLEAN /\ ~disorder'
  <2>1. ~disorder /\ ~(m <= handled[a][b])
    BY <1>1 DEF Inv, ReadingInv
  <2>2. /\ disorder' = (disorder \/ m <= handled[a][b])
        /\ handled' = [handled EXCEPT ![a][b] = m]
    BY DEF RunScript
  <2> QED BY <2>1, <2>2
<1>3. /\ handled' \in [Events -> [Queues -> Nat]] /\ handled'[a][b] = m
      /\ \A e \in Events, q \in Queues : e # a \/ q # b => handled'[e][q] = handled[e][q]
  BY <1>1, <1>2
<1>4. \A e \in Events, q \in Queues : handled'[e][q] <= stream'[q]
  BY <1>1, <1>3 DEF Inv, ReadingInv
<1>5. ASSUME NEW r \in Slots, r # s, Alive(r), task[r].st # "closing"
      PROVE  handled'[task[r].ev][task[r].q] = handled[task[r].ev][task[r].q]
  <2>1. task[r].ev \in Events /\ task[r].q \in Queues /\ dict[task[r].ev] = r
    BY <1>5, LiveTask
  <2> QED BY <1>1, <1>3, <1>5, <2>1
<1> HIDE DEF a, b
<1>6. ASSUME NEW r \in Slots
      PROVE  LET t == task'[r]
                 h == handled'[t.ev][t.q]
             IN /\ t.st \in {"idle", "block"} => t.last = NewOnly \/ t.last >= h
                /\ t.st = "block" => t.cur >= h
                /\ t.st = "run" => t.last > h /\ t.last <= stream'[t.q]
  <2>1. CASE r = s
    BY <1>3, <2>1 DEF a, b
  <2>2. CASE r # s /\ task[r].st \in {"idle", "block", "run"}
    <3>1. task'[r] = task[r] /\ Alive(r) /\ task[r].st # "closing"
      BY <2>2 DEF Alive, Over
    <3>2. handled'[task[r].ev][task[r].q] = handled[task[r].ev][task[r].q]
      BY <1>5, <2>2, <3>1
    <3> QED BY <3>1, <3>2 DEF Inv, ReadingInv
  <2>3. CASE r # s /\ task[r].st \notin {"idle", "block", "run"}
    BY <2>3
  <2> QED BY <2>1, <2>2, <2>3
<1> QED BY <1>2, <1>3, <1>4, <1>6 DEF ReadingInv

\* A message is behind everything the script was given, whatever becomes of it.
LEMMA DeliverPreserves ==
    ASSUME Inv, NEW s \in Slots, Deliver(s)
    PROVE  Inv'
<1> DEFINE m == task[s].cur + 1
<1>1. /\ Alive(s) /\ task[s].st = "block" /\ stream[task[s].q] > task[s].cur
      /\ UNCHANGED <<exists, enabled, queue, stream, client, dict, pc, wanted, keys,
                     awaiting, stop>>
  BY DEF Deliver, Alive, Over, rowVars, syncVars
<1>2. /\ m \in Nat /\ handled[task[s].ev][task[s].q] < m /\ m <= stream[task[s].q]
      /\ task[s].ev \in Events /\ task[s].q \in Queues
  BY <1>1, LiveTask DEF Inv, ReadingInv
<1>3. PICK st \in {"idle", "closing", "run"} :
          /\ task' = [task EXCEPT ![s] = At(@, st, m, 0)]
          /\ \/ UNCHANGED <<handled, disorder>>
             \/ st = "idle" /\ RunScript(task[s].ev, task[s].q, m)
  BY DEF Deliver, histVars
<1> HIDE DEF m
<1>4. /\ task' \in [Slots -> Tasks]
      /\ task'[s].st = st /\ task'[s].last = m /\ task'[s].cur = 0
      /\ task'[s].ev = task[s].ev /\ task'[s].q = task[s].q
      /\ \A r \in Slots : r # s => task'[r] = task[r]
  <2>1. task' = [task EXCEPT ![s] = At(@, st, m, 0)]
    BY <1>3
  <2>2. TypeOK /\ m \in Nat
    BY <1>2 DEF Inv
  <2>3. CASE st = "idle"
    BY <2>1, <2>2, <2>3, OneTask
  <2>4. CASE st = "closing"
    BY <2>1, <2>2, <2>4, OneTask
  <2>5. CASE st = "run"
    BY <2>1, <2>2, <2>5, OneTask
  <2> QED BY <2>3, <2>4, <2>5
<1>5. PlacesInv'
  BY <1>1, <1>4, LiveTask, PlaceKept
<1>6. CASE UNCHANGED <<handled, disorder>>
  <2>1. ReadingInv'
    BY <1>1, <1>2, <1>4, <1>6 DEF Inv, TypeOK, ReadingInv
  <2> QED BY <1>1, <1>4, <1>5, <1>6, <2>1 DEF Inv, TypeOK
<1>7. CASE st = "idle" /\ RunScript(task[s].ev, task[s].q, m)
  <2>1. handled' \in [Events -> [Queues -> Nat]] /\ disorder' \in BOOLEAN /\ ReadingInv'
    BY <1>1, <1>2, <1>4, <1>7, ScriptGiven
  <2> QED BY <1>1, <1>4, <1>5, <2>1 DEF Inv, TypeOK
<1> QED BY <1>3, <1>6, <1>7

\* So it is when the script had to wait for a client.
LEMMA ClientPreserves ==
    ASSUME Inv, NEW s \in Slots, NEW up \in BOOLEAN, ClientAnswers(s, up)
    PROVE  Inv'
<1>1. /\ Alive(s) /\ task[s].st = "run" /\ client' \in BOOLEAN
      /\ RunScript(task[s].ev, task[s].q, task[s].last)
      /\ UNCHANGED <<exists, enabled, queue, stream, dict, pc, wanted, keys, awaiting, stop>>
  BY DEF ClientAnswers, Alive, Over, rowVars, syncVars, Inv, TypeOK
<1>2. /\ task' \in [Slots -> Tasks]
      /\ task'[s].st = "idle" /\ task'[s].last = task[s].last /\ task'[s].cur = 0
      /\ task'[s].ev = task[s].ev /\ task'[s].q = task[s].q
      /\ \A r \in Slots : r # s => task'[r] = task[r]
  <2>1. task[s].last \in Nat
    BY <1>1, LiveTask
  <2>2. task' = [task EXCEPT ![s] = At(@, "idle", task[s].last, 0)]
    BY DEF ClientAnswers
  <2> QED BY <2>1, <2>2, OneTask DEF Inv
<1>3. PlacesInv'
  BY <1>1, <1>2, LiveTask, PlaceKept
<1>4. /\ task[s].last \in Nat /\ handled[task[s].ev][task[s].q] < task[s].last
      /\ task[s].last <= stream[task[s].q]
  BY <1>1, LiveTask DEF Inv, ReadingInv
<1>5. handled' \in [Events -> [Queues -> Nat]] /\ disorder' \in BOOLEAN /\ ReadingInv'
  BY <1>1, <1>2, <1>4, ScriptGiven
<1> QED BY <1>1, <1>2, <1>3, <1>5 DEF Inv, TypeOK

\* Where task s is about to end or has ended, nothing is read.
LEMMA ReadingStops ==
    ASSUME ReadingInv, NEW s \in Slots, task'[s].st \in {"free", "closing", "done"},
           \A r \in Slots : r # s => task'[r] = task[r],
           UNCHANGED <<stream, handled, disorder>>
    PROVE  ReadingInv'
BY DEF ReadingInv

\* A task that ends keeps its place until it is looked at.
LEMMA ClosedPreserves ==
    ASSUME Inv, NEW s \in Slots, Closed(s)
    PROVE  Inv'
<1>1. /\ Alive(s) /\ task[s].st = "closing" /\ task' = [task EXCEPT ![s] = Finished(s)]
      /\ UNCHANGED <<exists, enabled, queue, stream, client, dict, pc, wanted, keys,
                     awaiting, stop, handled, disorder>>
  BY DEF Closed, Alive, Over, rowVars, syncVars, histVars
<1>2. CASE dict[task[s].ev] = s \/ awaiting = s
  <2>1. task' = [task EXCEPT ![s] = At(@, "done", 0, 0)]
    BY <1>1, <1>2 DEF Finished
  <2>2. /\ task' \in [Slots -> Tasks] /\ task'[s].st = "done"
        /\ task'[s].ev = task[s].ev /\ task'[s].q = task[s].q
        /\ \A r \in Slots : r # s => task'[r] = task[r]
    BY <2>1, OneTask DEF Inv
  <2>3. TypeOK'
    BY <1>1, <2>2 DEF Inv, TypeOK
  <2>4. PlacesInv'
    BY <1>1, <2>2, PlaceKept
  <2>5. ReadingInv'
    BY <1>1, <2>2, ReadingStops DEF Inv
  <2> QED BY <2>3, <2>4, <2>5 DEF Inv
<1>3. dict[task[s].ev] = s \/ awaiting = s
  BY <1>1, LiveTask
<1> QED BY <1>2, <1>3

\* The first loop visits the events that have a task.
LEMMA SyncBeginPreserves ==
    ASSUME Inv, SyncBegin
    PROVE  Inv'
<1>1. TypeOK'
  BY SlotsArePositive DEF SyncBegin, Wanted, NewOnly, Tasks, Inv, TypeOK, rowVars,
     syncVars, histVars
<1>2. PlacesInv'
  BY SlotsArePositive DEF SyncBegin, Wanted, NewOnly, Inv, TypeOK, PlacesInv, Alive,
     Over, Tasks, rowVars, syncVars, histVars
<1>3. ReadingInv'
  BY SlotsArePositive DEF SyncBegin, Wanted, NewOnly, Inv, TypeOK, PlacesInv,
     ReadingInv, Alive, Over, Tasks, rowVars, syncVars, histVars
<1> QED BY <1>1, <1>2, <1>3 DEF Inv

\* A task that is still wanted stays.
LEMMA KeepPreserves ==
    ASSUME Inv, NEW e \in Events, Keep(e)
    PROVE  Inv'
<1>1. TypeOK'
  BY SlotsArePositive DEF Keep, NewOnly, Tasks, Inv, TypeOK, rowVars, syncVars,
     histVars
<1>2. PlacesInv'
  BY SlotsArePositive DEF Keep, NewOnly, Inv, TypeOK, PlacesInv, Alive, Over, Tasks,
     rowVars, syncVars, histVars
<1>3. ReadingInv'
  BY SlotsArePositive DEF Keep, NewOnly, Inv, TypeOK, PlacesInv, ReadingInv, Alive,
     Over, Tasks, rowVars, syncVars, histVars
<1> QED BY <1>1, <1>2, <1>3 DEF Inv

\* A task that is over loses its place.
LEMMA DropDonePreserves ==
    ASSUME Inv, NEW e \in Events, DropDone(e)
    PROVE  Inv'
<1>1. TypeOK'
  BY SlotsArePositive DEF DropDone, Free, NewOnly, Tasks, Inv, TypeOK, rowVars,
     syncVars, histVars
<1>2. PlacesInv'
  BY SlotsArePositive DEF DropDone, Free, NewOnly, Inv, TypeOK, PlacesInv, Alive,
     Over, Tasks, rowVars, syncVars, histVars
<1>3. ReadingInv'
  BY SlotsArePositive DEF DropDone, Free, NewOnly, Inv, TypeOK, PlacesInv,
     ReadingInv, Alive, Over, Tasks, rowVars, syncVars, histVars
<1> QED BY <1>1, <1>2, <1>3 DEF Inv

\* A task that is cancelled and awaited closes its connection.
LEMMA CancelledTask ==
    ASSUME Inv, NEW s \in Slots, NEW st \in {"closing", "done"},
           task' = [task EXCEPT ![s] = At(@, st, 0, 0)]
    PROVE  /\ task' \in [Slots -> Tasks] /\ task'[s].st = st
           /\ task'[s].ev = task[s].ev /\ task'[s].q = task[s].q
           /\ \A r \in Slots : r # s => task'[r] = task[r]
<1>1. st \in {"free", "idle", "block", "run", "closing", "done"} /\ 0 \in Nat
  OBVIOUS
<1> QED BY <1>1, OneTask DEF Inv

\* A cancelled task is awaited; it has no other place.
LEMMA CancelPreserves ==
    ASSUME Inv, NEW e \in Events, CancelUnwanted(e)
    PROVE  Inv'
<1> DEFINE s == dict[e]
<1>1. /\ pc = "sync" /\ awaiting = 0 /\ s \in Slots /\ task[s].ev = e /\ Alive(s)
      /\ keys' = keys \ {e} /\ dict' = [dict EXCEPT ![e] = 0]
      /\ pc' = "await" /\ awaiting' = s
      /\ task' = [task EXCEPT ![s] = At(@, "closing", 0, 0)]
      /\ UNCHANGED <<exists, enabled, queue, stream, client, wanted, stop, handled, disorder>>
  BY DEF CancelUnwanted, Cancelled, rowVars, histVars, Inv, TypeOK, PlacesInv, Alive
<1> HIDE DEF s
<1>2. /\ task' \in [Slots -> Tasks] /\ task'[s].st = "closing"
      /\ task'[s].ev = task[s].ev /\ task'[s].q = task[s].q
      /\ \A r \in Slots : r # s => task'[r] = task[r]
  BY <1>1, CancelledTask
<1>3. TypeOK'
  BY <1>1, <1>2 DEF Inv, TypeOK
<1>4. PlacesInv'
  <2>1. \A r \in Slots : /\ task'[r].ev = task[r].ev /\ task'[r].q = task[r].q
                         /\ task[r].st # "free" => task'[r].st # "free"
                         /\ Alive(r)' => Alive(r)
    BY <1>1, <1>2 DEF Alive, Over
  <2>2. /\ dict'[e] = 0
        /\ \A f \in Events : f # e => dict'[f] = dict[f]
        /\ \A f \in Events : dict[f] # 0 => dict[f] \in Slots
    BY <1>1 DEF Inv, TypeOK
  <2>3. \A f \in Events : dict'[f] # 0 => /\ task'[dict'[f]].ev = f
                                          /\ task'[dict'[f]].st # "free"
                                          /\ dict'[f] # awaiting'
    BY <1>1, <2>1, <2>2 DEF Inv, PlacesInv
  <2>4. \A r \in Slots : Alive(r)' => /\ task'[r].ev \in Events /\ task'[r].q \in Queues
                                      /\ dict'[task'[r].ev] = r \/ awaiting' = r
    BY <1>1, <2>1, <2>2, SlotsArePositive DEF s, Inv, PlacesInv
  <2>5. awaiting' # 0 /\ task'[awaiting'].st = "closing"
    BY <1>1, <1>2, SlotsArePositive
  <2>6. \A f \in keys' : dict'[f] # 0
    BY <1>1, <2>2 DEF Inv, TypeOK, PlacesInv
  <2> QED BY <1>1, <2>3, <2>4, <2>5, <2>6 DEF PlacesInv
<1>5. ReadingInv'
  BY <1>1, <1>2, ReadingStops DEF Inv
<1> QED BY <1>3, <1>4, <1>5 DEF Inv

\* The awaited task has no place in the dictionary.
LEMMA AwaitEndsPreserves ==
    ASSUME Inv, AwaitEnds
    PROVE  Inv'
<1>1. TypeOK'
  BY SlotsArePositive DEF AwaitEnds, Free, NewOnly, Tasks, Inv, TypeOK, rowVars,
     syncVars, histVars
<1>2. PlacesInv'
  BY SlotsArePositive DEF AwaitEnds, Free, NewOnly, Inv, TypeOK, PlacesInv, Alive,
     Over, Tasks, rowVars, syncVars, histVars
<1>3. ReadingInv'
  BY SlotsArePositive DEF AwaitEnds, Free, NewOnly, Inv, TypeOK, PlacesInv,
     ReadingInv, Alive, Over, Tasks, rowVars, syncVars, histVars
<1> QED BY <1>1, <1>2, <1>3 DEF Inv

\* A new task replaces none that is alive.
LEMMA StartPreserves ==
    ASSUME Inv, NEW e \in Events, StartListener(e)
    PROVE  Inv'
<1>1. TypeOK'
  BY SlotsArePositive DEF StartListener, Missing, Unused, Started, NewOnly, Tasks,
     Inv, TypeOK, rowVars, syncVars, histVars
<1>2. PlacesInv'
  BY SlotsArePositive DEF StartListener, Missing, Unused, Started, NewOnly, Inv,
     TypeOK, PlacesInv, Alive, Over, Tasks, rowVars, syncVars, histVars
<1>3. ReadingInv'
  BY SlotsArePositive DEF StartListener, Missing, Unused, Started, NewOnly, Inv,
     TypeOK, PlacesInv, ReadingInv, Alive, Over, Tasks, rowVars, syncVars, histVars
<1> QED BY <1>1, <1>2, <1>3 DEF Inv

\* The snapshot of the table is dropped.
LEMMA SyncEndPreserves ==
    ASSUME Inv, SyncEnd
    PROVE  Inv'
<1>1. TypeOK'
  BY SlotsArePositive DEF SyncEnd, NewOnly, Tasks, Inv, TypeOK, rowVars, syncVars,
     histVars
<1>2. PlacesInv'
  BY SlotsArePositive DEF SyncEnd, NewOnly, Inv, TypeOK, PlacesInv, Alive, Over,
     Tasks, rowVars, syncVars, histVars
<1>3. ReadingInv'
  BY SlotsArePositive DEF SyncEnd, NewOnly, Inv, TypeOK, PlacesInv, ReadingInv,
     Alive, Over, Tasks, rowVars, syncVars, histVars
<1> QED BY <1>1, <1>2, <1>3 DEF Inv

\* A shutdown finds the scheduler asleep, or ends the awaited task.
LEMMA StopPreserves ==
    ASSUME Inv, Stop
    PROVE  Inv'
<1>1. CASE pc = "sleep"
  BY <1>1, SlotsArePositive DEF Stop, NewOnly, Inv, TypeOK, PlacesInv, ReadingInv,
     Alive, Over, rowVars, histVars
<1>2. CASE pc = "await"
  <2>1. /\ awaiting \in Slots /\ task[awaiting].st \in {"closing", "done"}
        /\ task' = [task EXCEPT ![awaiting] = At(@, "done", 0, 0)] /\ stop' = TRUE
        /\ UNCHANGED <<exists, enabled, queue, stream, client, dict, pc, wanted, keys,
                       awaiting, handled, disorder>>
    BY <1>2 DEF Stop, rowVars, histVars, Inv, TypeOK, PlacesInv
  <2>2. /\ task' \in [Slots -> Tasks] /\ task'[awaiting].st = "done"
        /\ task'[awaiting].ev = task[awaiting].ev /\ task'[awaiting].q = task[awaiting].q
        /\ \A r \in Slots : r # awaiting => task'[r] = task[r]
    BY <2>1, CancelledTask
  <2>3. TypeOK'
    BY <2>1, <2>2 DEF Inv, TypeOK
  <2>4. PlacesInv'
    BY <1>2, <2>1, <2>2, SlotsArePositive DEF Inv, TypeOK, PlacesInv, Alive, Over
  <2>5. ReadingInv'
    BY <2>1, <2>2, ReadingStops DEF Inv
  <2> QED BY <2>3, <2>4, <2>5 DEF Inv
<1> QED BY <1>1, <1>2 DEF Stop

\* Tasks are cancelled one after the other.
LEMMA StopOnePreserves ==
    ASSUME Inv, NEW e \in Events, StopOne(e)
    PROVE  Inv'
<1>1. /\ pc = "stopping" /\ awaiting = 0 /\ e \in keys
      /\ dict[e] \in Slots /\ task[dict[e]].ev = e
      /\ UNCHANGED <<exists, enabled, queue, stream, client, dict, pc, wanted, stop,
                     handled, disorder>>
  BY DEF StopOne, rowVars, histVars, Inv, TypeOK, PlacesInv
<1>2. CASE Over(task[dict[e]])
  <2>1. keys' = keys \ {e} /\ UNCHANGED <<task, awaiting>>
    BY <1>2 DEF StopOne
  <2>2. TypeOK' /\ ReadingInv'
    BY <1>1, <2>1 DEF Inv, TypeOK, ReadingInv, NewOnly
  <2>3. PlacesInv'
    BY <1>1, <1>2, <2>1 DEF Inv, TypeOK, PlacesInv, Alive
  <2> QED BY <2>2, <2>3 DEF Inv
<1>3. CASE ~Over(task[dict[e]])
  <2>1. /\ task' = [task EXCEPT ![dict[e]] = At(@, "closing", 0, 0)]
        /\ awaiting' = dict[e] /\ keys' = keys
    BY <1>3 DEF StopOne, Cancelled
  <2>2. /\ task' \in [Slots -> Tasks] /\ task'[dict[e]].st = "closing"
        /\ task'[dict[e]].ev = task[dict[e]].ev /\ task'[dict[e]].q = task[dict[e]].q
        /\ \A r \in Slots : r # dict[e] => task'[r] = task[r]
    BY <1>1, <2>1, CancelledTask
  <2>3. TypeOK'
    BY <1>1, <2>1, <2>2 DEF Inv, TypeOK
  <2>4. PlacesInv'
    <3>1. \A r \in Slots : /\ task'[r].ev = task[r].ev /\ task'[r].q = task[r].q
                           /\ task[r].st # "free" => task'[r].st # "free"
                           /\ Alive(r)' => Alive(r)
      BY <1>3, <2>2 DEF Alive, Over
    <3>2. \A f \in Events : dict[f] # 0 => dict[f] \in Slots
      BY DEF Inv, TypeOK
    <3>3. \A f \in Events : dict'[f] # 0 => /\ task'[dict'[f]].ev = f
                                            /\ task'[dict'[f]].st # "free"
      BY <1>1, <3>1, <3>2 DEF Inv, PlacesInv
    <3>4. \A r \in Slots : Alive(r)' => /\ task'[r].ev \in Events /\ task'[r].q \in Queues
                                        /\ dict'[task'[r].ev] = r \/ awaiting' = r
      BY <1>1, <3>1, SlotsArePositive DEF Inv, PlacesInv
    <3>5. \A f \in keys' : dict'[f] # 0
      BY <1>1, <2>1 DEF Inv, PlacesInv
    <3>6. \A f \in Events : dict[f] # 0 /\ Alive(dict[f])' => f \in keys'
      BY <1>1, <2>1, <3>1, <3>2 DEF Inv, PlacesInv
    <3>7. \E f \in keys' : dict'[f] = awaiting'
      BY <1>1, <2>1
    <3> QED BY <1>1, <2>1, <2>2, <3>3, <3>4, <3>5, <3>6, <3>7 DEF PlacesInv
  <2>5. ReadingInv'
    BY <1>1, <2>2, ReadingStops DEF Inv
  <2> QED BY <2>3, <2>4, <2>5 DEF Inv
<1> QED BY <1>2, <1>3

\* The next one is due.
LEMMA StopAwaitPreserves ==
    ASSUME Inv, StopAwaitEnds
    PROVE  Inv'
<1>1. TypeOK'
  BY SlotsArePositive DEF StopAwaitEnds, NewOnly, Tasks, Inv, TypeOK, rowVars,
     syncVars, histVars
<1>2. PlacesInv'
  BY SlotsArePositive DEF StopAwaitEnds, NewOnly, Inv, TypeOK, PlacesInv, Alive,
     Over, Tasks, rowVars, syncVars, histVars
<1>3. ReadingInv'
  BY SlotsArePositive DEF StopAwaitEnds, NewOnly, Inv, TypeOK, PlacesInv,
     ReadingInv, Alive, Over, Tasks, rowVars, syncVars, histVars
<1> QED BY <1>1, <1>2, <1>3 DEF Inv

\* Nothing is left.
LEMMA StopDonePreserves ==
    ASSUME Inv, StopDone
    PROVE  Inv'
<1>1. TypeOK'
  BY SlotsArePositive DEF StopDone, Free, NewOnly, Tasks, Inv, TypeOK, rowVars,
     syncVars, histVars
<1>2. PlacesInv'
  BY SlotsArePositive DEF StopDone, Free, NewOnly, Inv, TypeOK, PlacesInv, Alive,
     Over, Tasks, rowVars, syncVars, histVars
<1>3. ReadingInv'
  BY SlotsArePositive DEF StopDone, Free, NewOnly, Inv, TypeOK, PlacesInv,
     ReadingInv, Alive, Over, Tasks, rowVars, syncVars, histVars
<1> QED BY <1>1, <1>2, <1>3 DEF Inv

\* A new process has no tasks.
LEMMA RestartPreserves ==
    ASSUME Inv, Restart
    PROVE  Inv'
<1>1. /\ pc = "stopped" /\ awaiting = 0 /\ pc' = "sleep" /\ stop' = FALSE
      /\ client' = FALSE /\ task' = [s \in Slots |-> Free]
      /\ UNCHANGED <<exists, enabled, queue, stream, dict, wanted, keys, awaiting,
                     handled, disorder>>
  BY DEF Restart, rowVars, histVars, Inv, PlacesInv
<1>2. \A s \in Slots : task'[s].st = "free"
  BY <1>1 DEF Free
<1>3. TypeOK'
  BY <1>1 DEF Inv, TypeOK, Tasks, Free
<1>4. PlacesInv'
  BY <1>1, <1>2 DEF Inv, TypeOK, PlacesInv, Alive, Over
<1>5. ReadingInv'
  BY <1>1, <1>2 DEF Inv, ReadingInv
<1> QED BY <1>3, <1>4, <1>5 DEF Inv

\* Rows change under the tasks' feet.
LEMMA RequestsPreserve ==
    ASSUME Inv, Requests
    PROVE  Inv'
<1>1. PICK e \in Events :
          \/ \E on \in BOOLEAN : SetEnabled(e, on)
          \/ \E q \in Queues \union {None} : Rename(e, q)
          \/ DeleteEvent(e)
  BY DEF Requests
<1>2. UNCHANGED <<stream, client, task, dict, syncVars, stop, histVars>>
  BY <1>1 DEF SetEnabled, Rename, DeleteEvent
<1>3. exists' \in [Events -> BOOLEAN]
  BY <1>1 DEF SetEnabled, Rename, DeleteEvent, Inv, TypeOK
<1>4. enabled' \in [Events -> BOOLEAN]
  BY <1>1 DEF SetEnabled, Rename, DeleteEvent, Inv, TypeOK
<1>5. queue' \in [Events -> Queues \union {None}]
  BY <1>1 DEF SetEnabled, Rename, DeleteEvent, Inv, TypeOK
<1>6. TypeOK'
  BY <1>2, <1>3, <1>4, <1>5 DEF Inv, TypeOK, syncVars, histVars
<1>7. PlacesInv' /\ ReadingInv'
  BY <1>2 DEF Inv, PlacesInv, ReadingInv, Alive, Over, syncVars, histVars
<1> QED BY <1>6, <1>7 DEF Inv

\* Streams only grow.
LEMMA MessagesPreserve ==
    ASSUME Inv, NEW q \in Queues, AddMessage(q)
    PROVE  Inv'
<1>1. /\ stream' \in [Queues -> Nat] /\ \A p \in Queues : stream[p] <= stream'[p]
      /\ UNCHANGED <<exists, enabled, queue, client, task, dict, pc, wanted, keys,
                     awaiting, stop, handled, disorder>>
  BY DEF AddMessage, rowVars, syncVars, histVars, Inv, TypeOK
<1>2. TypeOK' /\ PlacesInv'
  BY <1>1 DEF Inv, TypeOK, PlacesInv, Alive, Over
<1>3. \A e \in Events, p \in Queues : handled'[e][p] <= stream'[p]
  BY <1>1 DEF Inv, TypeOK, ReadingInv
<1>4. ASSUME NEW s \in Slots, task[s].st = "run"
      PROVE  task[s].last <= stream'[task[s].q]
  <2>1. task[s].q \in Queues /\ task[s].last \in Nat
    BY <1>4, LiveTask DEF Alive, Over
  <2>2. task[s].last <= stream[task[s].q]
    BY <1>4 DEF Inv, ReadingInv
  <2> QED BY <1>1, <2>1, <2>2 DEF Inv, TypeOK
<1>5. ReadingInv'
  BY <1>1, <1>3, <1>4 DEF Inv, ReadingInv
<1> QED BY <1>2, <1>5 DEF Inv

LEMMA Invariance == Spec => []Inv
<1>1. ASSUME Inv, [Next]_vars PROVE Inv'
  <2>1. CASE Sync
    BY <1>1, <2>1, SyncBeginPreserves, AwaitEndsPreserves, SyncEndPreserves,
       KeepPreserves,
       DropDonePreserves, CancelPreserves, StartPreserves DEF Sync
  <2>2. CASE Stop \/ StopSteps \/ Restart
    BY <1>1, <2>2, StopPreserves, StopAwaitPreserves, StopDonePreserves,
       StopOnePreserves,
       RestartPreserves DEF StopSteps
  <2>3. CASE \E s \in Slots : Listener(s)
    BY <1>1, <2>3, IssuePreserves, ReadFailsPreserves, DeliverPreserves,
       ClosedPreserves,
       ClientPreserves DEF Listener
  <2>4. CASE Requests \/ \E q \in Queues : AddMessage(q)
    BY <1>1, <2>4, RequestsPreserve, MessagesPreserve
  <2>5. CASE UNCHANGED vars
    BY <1>1, <2>5 DEF vars, NewOnly, Inv, TypeOK, PlacesInv, ReadingInv, Alive,
       Over, rowVars, syncVars, histVars
  <2> QED BY <1>1, <2>1, <2>2, <2>3, <2>4, <2>5 DEF Next
<1> QED BY Initially, <1>1, PTL DEF Spec

-----------------------------------------------------------------------------
\* Every variable keeps its type.
THEOREM ListenersTypeCorrect == Spec => []TypeOK
BY Invariance, PTL DEF Inv

\* An event's script gets the messages of a stream in order and none twice, for
\* any number of events, streams, tasks and messages.
THEOREM OrderSafety == Spec => []HandledInOrder
<1>1. Inv => HandledInOrder
  BY DEF Inv, ReadingInv, HandledInOrder
<1> QED BY Invariance, <1>1, PTL

\* A listener that is alive is in _listener_tasks or being awaited, so that an
\* event never has two that read.
THEOREM PlaceSafety == Spec => []NoOrphanListener
<1>1. Inv => NoOrphanListener
  BY DEF Inv, PlacesInv, NoOrphanListener
<1> QED BY Invariance, <1>1, PTL

\* stop_scheduler leaves no listener behind.
THEOREM StopSafety == Spec => []StopIsComplete
<1>1. Inv => StopIsComplete
  BY DEF Inv, PlacesInv, StopIsComplete
<1> QED BY Invariance, <1>1, PTL
=============================================================================
