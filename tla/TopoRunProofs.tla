---------------------------- MODULE TopoRunProofs ----------------------------
(***************************************************************************)
(* Proofs about TopoRun, for every graph, every choice of iterator and     *)
(* workflow nodes and every bound.                                         *)
(***************************************************************************)
EXTENDS TopoRun, FiniteSetTheorems, TLAPS

-----------------------------------------------------------------------------
\* What holds in every state.

\* The outputs of a node, and how a row and an activity may stand.
Output   == {"none", "ok", "error"}
Status   == {"none", "running", "cancelled", "success", "error"}
Activity == {"idle", "walk", "body", "iter", "child", "ended", "raised",
             "cancelled", "crashed"}

WalkTypes ==
    /\ act \in Activity /\ cur \in Nodes \union {0}
    /\ indeg \in [Nodes -> Int] /\ queue \in Seq(Nodes)
    /\ outs \in [Nodes -> Output] /\ snap \in [Nodes -> Output]
    /\ initial \in [Nodes -> Output]

RowTypes ==
    /\ row \in [Children -> Status] /\ kept \in [Children -> BOOLEAN]
    /\ child \in Children \union {0} /\ of \in [Nodes -> Children \union {0}]
    /\ faults \in Nat /\ crashes \in Nat

\* A node is at hand exactly at the awaits.
ActInv ==
    /\ act \in Awaits <=> cur # 0
    /\ act = "ended" => queue = <<>>

\* The nodes that have been through: their children are released.
Gone(deg, q, n) == {m \in Nodes : deg[m] = 0 /\ m \notin Range(q) /\ m # n}

\* What the walk keeps, with the node n at hand: an in-degree counts the
\* predecessors that are not through, and what is queued waits for nothing.
Waiting(deg, q, n) ==
    /\ deg \in [Nodes -> Int] /\ q \in Seq(Nodes) /\ IsInjective(q)
    /\ n \notin Range(q)
    /\ \A m \in Nodes : m \in Range(q) \/ m = n => deg[m] = 0
    /\ \A s \in Nodes : deg[s] = Cardinality(Preds(s) \ Gone(deg, q, n))

WalkInv ==
    act \in Awaits \union {"walk", "ended"} =>
        /\ Waiting(indeg, queue, cur)
        /\ \A m \in Gone(indeg, queue, cur) : outs[m] # "none"

\* The nodes that no cycle is upstream of; only they have outputs.
Sound == {n \in Nodes : \A m \in Above(n) \union {n} : m \notin Above(m)}

SoundInv ==
    \A n \in Nodes :
        outs[n] # "none" \/ snap[n] # "none" \/ initial[n] # "none" => n \in Sound

\* A child row is being executed in a workflow node only, it is running unless a
\* user has cancelled it, and the rows that outputs name are successes.
ChildInv ==
    child # 0 => act = "child" /\ row[child] \in {"running", "cancelled"}

NameInv == \A n \in Nodes : of[n] # 0 => row[of[n]] = "success"

\* The rows that are running and have no activity at work on them.
Orphans(r, k) == {c \in Children : r[c] = "running" /\ c # k}

OrphanInv == Cardinality(Orphans(row, child)) <= crashes + faults

-----------------------------------------------------------------------------
\* Sets of nodes and the queue.

\* Every set of nodes is finite.
LEMMA SomeNodes ==
    ASSUME NEW S \in SUBSET Nodes
    PROVE  IsFiniteSet(S) /\ Cardinality(S) \in Nat
<1>1. IsFiniteSet(Nodes)
    BY TopoAssumption, FS_Interval DEF Nodes
<1> QED
    BY <1>1, FS_Subset, FS_CardinalityType

\* An order of S is a sequence that has each element of S once.
LEMMA Ordered ==
    ASSUME NEW S \in SUBSET Nodes, NEW new \in Orders(S)
    PROVE  /\ new \in Seq(Nodes) /\ IsInjective(new)
           /\ Range(new) = S
<1>1. Cardinality(S) \in Nat
    BY SomeNodes
<1>2. new \in [1 .. Cardinality(S) -> S] /\ IsInjective(new)
      /\ \A s \in S : \E i \in 1 .. Cardinality(S) : new[i] = s
    BY DEF Orders, Bijection, Injection, Surjection
<1>3. new \in Seq(Nodes)
    BY <1>1, <1>2
<1>4. Range(new) = S
    BY <1>2 DEF Range
<1> QED
    BY <1>2, <1>3, <1>4

\* The head of a queue without repetitions is not in its tail.
LEMMA Dequeued ==
    ASSUME NEW q \in Seq(Nodes), IsInjective(q), q # <<>>
    PROVE  /\ Head(q) \in Nodes /\ Tail(q) \in Seq(Nodes)
           /\ IsInjective(Tail(q))
           /\ Head(q) \notin Range(Tail(q))
           /\ Range(q) = Range(Tail(q)) \union {Head(q)}
<1>1. Len(q) \in Nat \ {0} /\ DOMAIN q = 1 .. Len(q) /\ Head(q) = q[1]
    OBVIOUS
<1>2. Tail(q) \in Seq(Nodes) /\ DOMAIN Tail(q) = 1 .. Len(q) - 1
      /\ \A i \in 1 .. Len(q) - 1 : Tail(q)[i] = q[i + 1]
    OBVIOUS
<1>3. Head(q) \in Nodes
    OBVIOUS
<1>4. IsInjective(Tail(q))
    BY <1>1, <1>2 DEF IsInjective
<1>5. Head(q) \notin Range(Tail(q))
    BY <1>1, <1>2 DEF IsInjective, Range
<1>6. Range(q) = Range(Tail(q)) \union {Head(q)}
  <2>1. \A x \in Range(Tail(q)) : x \in Range(q)
      BY <1>1, <1>2 DEF Range
  <2>2. Head(q) \in Range(q)
      BY <1>1 DEF Range
  <2>3. \A x \in Range(q) : x \in Range(Tail(q)) \/ x = Head(q)
    <3> SUFFICES ASSUME NEW i \in 1 .. Len(q), i # 1
                 PROVE  q[i] \in Range(Tail(q))
        BY <1>1 DEF Range
    <3>1. i - 1 \in 1 .. Len(q) - 1 /\ Tail(q)[i - 1] = q[i]
        BY <1>1, <1>2
    <3> QED
        BY <1>2, <3>1 DEF Range
  <2> QED
      BY <2>1, <2>2, <2>3
<1> QED
    BY <1>2, <1>3, <1>4, <1>5, <1>6

\* Nodes that are not in the queue are appended to it.
LEMMA Enqueued ==
    ASSUME NEW q \in Seq(Nodes), IsInjective(q),
           NEW S \in SUBSET Nodes, NEW new \in Orders(S),
           \A s \in S : s \notin Range(q)
    PROVE  /\ q \o new \in Seq(Nodes) /\ IsInjective(q \o new)
           /\ Range(q \o new) = Range(q) \union S
<1>1. new \in Seq(Nodes) /\ IsInjective(new) /\ Range(new) = S
    BY Ordered
<1>2. /\ Len(q) \in Nat /\ DOMAIN q = 1 .. Len(q)
      /\ Len(new) \in Nat /\ DOMAIN new = 1 .. Len(new)
    BY <1>1
<1>3. /\ q \o new \in Seq(Nodes) /\ DOMAIN (q \o new) = 1 .. Len(q) + Len(new)
      /\ \A i \in 1 .. Len(q) + Len(new) :
            (q \o new)[i] = IF i <= Len(q) THEN q[i] ELSE new[i - Len(q)]
    BY <1>1
<1>4. \A i \in 1 .. Len(q) : (q \o new)[i] = q[i] /\ q[i] \in Range(q)
    BY <1>2, <1>3 DEF Range
<1>5. \A i \in 1 .. Len(q) + Len(new) :
         i > Len(q) => /\ i - Len(q) \in 1 .. Len(new)
                       /\ (q \o new)[i] = new[i - Len(q)]
                       /\ new[i - Len(q)] \in S
    BY <1>1, <1>2, <1>3 DEF Range
<1>6. IsInjective(q \o new)
  <2> SUFFICES ASSUME NEW i \in 1 .. Len(q) + Len(new), NEW j \in 1 .. Len(q) + Len(new),
                      (q \o new)[i] = (q \o new)[j]
               PROVE  i = j
      BY <1>3 DEF IsInjective
  <2>1. CASE i <= Len(q) /\ j <= Len(q)
    <3>1. q[i] = q[j] /\ i \in DOMAIN q /\ j \in DOMAIN q
        BY <1>2, <1>4, <2>1
    <3> QED
        BY <3>1 DEF IsInjective
  <2>2. CASE i > Len(q) /\ j > Len(q)
    <3>1. /\ new[i - Len(q)] = new[j - Len(q)]
          /\ i - Len(q) \in DOMAIN new /\ j - Len(q) \in DOMAIN new
        BY <1>2, <1>5, <2>2
    <3>2. i - Len(q) = j - Len(q)
        BY <1>1, <3>1 DEF IsInjective
    <3> QED
        BY <1>2, <3>2
  <2>3. CASE i <= Len(q) /\ j > Len(q)
      BY <1>2, <1>4, <1>5, <2>3
  <2>4. CASE i > Len(q) /\ j <= Len(q)
      BY <1>2, <1>4, <1>5, <2>4
  <2> QED
      BY <1>2, <2>1, <2>2, <2>3, <2>4
<1>7. Range(q \o new) = Range(q) \union S
  <2>1. \A x \in Range(q \o new) : x \in Range(q) \/ x \in S
      BY <1>2, <1>3, <1>4, <1>5 DEF Range
  <2>2. \A x \in Range(q) : x \in Range(q \o new)
      BY <1>2, <1>3, <1>4 DEF Range
  <2>3. \A x \in S : x \in Range(q \o new)
    <3> SUFFICES ASSUME NEW j \in 1 .. Len(new)
                 PROVE  new[j] \in Range(q \o new)
        BY <1>1, <1>2 DEF Range
    <3>1. Len(q) + j \in 1 .. Len(q) + Len(new) /\ (q \o new)[Len(q) + j] = new[j]
        BY <1>2, <1>3
    <3> QED
        BY <1>3, <3>1 DEF Range
  <2> QED
      BY <2>1, <2>2, <2>3
<1> QED
    BY <1>3, <1>6, <1>7

-----------------------------------------------------------------------------
\* The walk, as a matter of in-degrees, queue and node at hand.

\* The queue's head is taken: what is gone stays the same.
LEMMA Taken ==
    ASSUME NEW deg, NEW q, Waiting(deg, q, 0), q # <<>>
    PROVE  /\ Head(q) \in Nodes
           /\ Waiting(deg, Tail(q), Head(q))
           /\ Gone(deg, Tail(q), Head(q)) = Gone(deg, q, 0)
           /\ Head(q) \notin Gone(deg, q, 0)
<1>1. q \in Seq(Nodes) /\ IsInjective(q)
    BY DEF Waiting
<1>2. /\ Head(q) \in Nodes /\ Tail(q) \in Seq(Nodes)
      /\ IsInjective(Tail(q)) /\ Head(q) \notin Range(Tail(q))
      /\ Range(q) = Range(Tail(q)) \union {Head(q)}
    BY <1>1, Dequeued
<1>3. 0 \notin Nodes
    BY DEF Nodes
<1>4. Gone(deg, Tail(q), Head(q)) = Gone(deg, q, 0)
    BY <1>2, <1>3 DEF Gone
<1>5. Waiting(deg, Tail(q), Head(q))
    BY <1>2, <1>4 DEF Waiting
<1>6. Head(q) \notin Gone(deg, q, 0)
    BY <1>2 DEF Gone
<1> QED
    BY <1>2, <1>4, <1>5, <1>6

\* What a node that is through or at hand waited for is gone.
LEMMA NothingWaits ==
    ASSUME NEW deg, NEW q, NEW n, Waiting(deg, q, n), NEW m \in Nodes,
           deg[m] = 0
    PROVE  Preds(m) \subseteq Gone(deg, q, n)
<1>1. Preds(m) \ Gone(deg, q, n) \in SUBSET Nodes
    BY DEF Preds
<1>2. IsFiniteSet(Preds(m) \ Gone(deg, q, n))
    BY <1>1, SomeNodes
<1>3. Cardinality(Preds(m) \ Gone(deg, q, n)) = 0
    BY DEF Waiting
<1>4. Preds(m) \ Gone(deg, q, n) = {}
    BY <1>2, <1>3, FS_EmptySet
<1> QED
    BY <1>4

\* A node that waits for another one has an in-degree.
LEMMA SomethingWaits ==
    ASSUME NEW deg, NEW q, NEW n, Waiting(deg, q, n), NEW m \in Nodes,
           NEW p \in Preds(m), p \notin Gone(deg, q, n)
    PROVE  deg[m] > 0
<1>1. Preds(m) \ Gone(deg, q, n) \in SUBSET Nodes
    BY DEF Preds
<1>2. IsFiniteSet(Preds(m) \ Gone(deg, q, n))
      /\ Cardinality(Preds(m) \ Gone(deg, q, n)) \in Nat
    BY <1>1, SomeNodes
<1>3. Preds(m) \ Gone(deg, q, n) # {}
    OBVIOUS
<1>4. Cardinality(Preds(m) \ Gone(deg, q, n)) # 0
    BY <1>2, <1>3, FS_EmptySet
<1> QED
    BY <1>2, <1>4 DEF Waiting

\* The in-degrees once the children of n are released.
Lowered(deg, n) ==
    [s \in Nodes |-> IF s \in Succs(n) THEN deg[s] - 1 ELSE deg[s]]

\* The node at hand is through: it is gone, and those that waited for it alone
\* are queued.
LEMMA Passed ==
    ASSUME NEW deg, NEW q, NEW n \in Nodes, Waiting(deg, q, n),
           NEW new \in Orders({s \in Succs(n) : deg[s] = 1})
    PROVE  /\ Waiting(Lowered(deg, n), q \o new, 0)
           /\ Gone(Lowered(deg, n), q \o new, 0) = Gone(deg, q, n) \union {n}
<1> DEFINE ready == {s \in Succs(n) : deg[s] = 1}
           low == Lowered(deg, n)
           gone == Gone(deg, q, n)
<1>1. /\ deg \in [Nodes -> Int] /\ q \in Seq(Nodes) /\ IsInjective(q)
      /\ n \notin Range(q) /\ deg[n] = 0
      /\ \A m \in Nodes : m \in Range(q) => deg[m] = 0
    BY DEF Waiting
<1>2. ready \in SUBSET Nodes
    BY DEF Succs
<1>3. \A s \in ready : s \notin Range(q)
    BY <1>1, <1>2
<1>4. /\ q \o new \in Seq(Nodes) /\ IsInjective(q \o new)
      /\ Range(q \o new) = Range(q) \union ready
    BY <1>1, <1>2, <1>3, Enqueued
<1>5. n \notin gone
    BY DEF Gone
<1>6. \A s \in Succs(n) : s \in Nodes /\ n \in Preds(s) /\ deg[s] > 0
  <2> SUFFICES ASSUME NEW s \in Succs(n)
               PROVE  s \in Nodes /\ n \in Preds(s) /\ deg[s] > 0
      OBVIOUS
  <2>1. s \in Nodes /\ n \in Preds(s)
      BY DEF Succs, Preds
  <2> QED
      BY <1>5, <2>1, SomethingWaits
<1>7. n \notin Succs(n)
    BY <1>1, <1>6
<1>8. /\ low \in [Nodes -> Int]
      /\ \A s \in Nodes : low[s] = IF s \in Succs(n) THEN deg[s] - 1 ELSE deg[s]
    BY <1>1 DEF Lowered
<1>9. 0 \notin Nodes /\ 0 \notin Range(q \o new)
  <2>1. 0 \notin Nodes
      BY DEF Nodes
  <2>2. Range(q) \subseteq Nodes
      BY <1>1 DEF Range
  <2> QED
      BY <1>2, <1>4, <2>1, <2>2
<1>10. Gone(low, q \o new, 0) = gone \union {n}
  <2>1. n \in Gone(low, q \o new, 0)
      BY <1>1, <1>2, <1>4, <1>7, <1>8, <1>9 DEF Gone
  <2>2. \A m \in gone : m \in Gone(low, q \o new, 0)
    <3> SUFFICES ASSUME NEW m \in gone
                 PROVE  m \in Gone(low, q \o new, 0)
        OBVIOUS
    <3>1. m \in Nodes /\ deg[m] = 0 /\ m \notin Range(q)
        BY DEF Gone
    <3>2. m \notin Succs(n)
        BY <1>6, <3>1
    <3> QED
        BY <1>4, <1>8, <1>9, <3>1, <3>2 DEF Gone
  <2>3. \A m \in Gone(low, q \o new, 0) : m \in gone \/ m = n
    <3> SUFFICES ASSUME NEW m \in Gone(low, q \o new, 0), m # n
                 PROVE  m \in gone
        OBVIOUS
    <3>1. m \in Nodes /\ low[m] = 0 /\ m \notin Range(q) /\ m \notin ready
        BY <1>4 DEF Gone
    <3>2. m \notin Succs(n)
        BY <1>1, <1>8, <3>1
    <3> QED
        BY <1>8, <3>1, <3>2 DEF Gone
  <2> QED
      BY <2>1, <2>2, <2>3
<1>11. \A m \in Nodes : m \in Range(q \o new) \/ m = 0 => low[m] = 0
  <2> SUFFICES ASSUME NEW m \in Nodes, m \in Range(q) \/ m \in ready
               PROVE  low[m] = 0
      BY <1>4, <1>9
  <2>1. CASE m \in Range(q)
      BY <1>1, <1>6, <1>8, <2>1
  <2>2. CASE m \in ready
      BY <1>8, <2>2
  <2> QED
      BY <2>1, <2>2
<1>12. \A s \in Nodes : low[s] = Cardinality(Preds(s) \ (gone \union {n}))
  <2> SUFFICES ASSUME NEW s \in Nodes
               PROVE  low[s] = Cardinality(Preds(s) \ (gone \union {n}))
      OBVIOUS
  <2>1. Preds(s) \ gone \in SUBSET Nodes
      BY DEF Preds
  <2>2. IsFiniteSet(Preds(s) \ gone)
      BY <2>1, SomeNodes
  <2>3. Preds(s) \ (gone \union {n}) = (Preds(s) \ gone) \ {n}
      OBVIOUS
  <2>4. Cardinality((Preds(s) \ gone) \ {n}) =
           IF n \in Preds(s) \ gone THEN Cardinality(Preds(s) \ gone) - 1
           ELSE Cardinality(Preds(s) \ gone)
      BY <2>2, FS_RemoveElement
  <2>5. deg[s] = Cardinality(Preds(s) \ gone)
      BY DEF Waiting
  <2>6. n \in Preds(s) <=> s \in Succs(n)
      BY DEF Preds, Succs
  <2> QED
      BY <1>5, <1>8, <2>3, <2>4, <2>5, <2>6
<1> QED
    BY <1>4, <1>8, <1>9, <1>10, <1>11, <1>12 DEF Waiting

\* A walk begins with the nodes that have no predecessors, and nothing is gone.
LEMMA Begun ==
    ASSUME NEW q \in Orders(Entries)
    PROVE  LET deg == [n \in Nodes |-> Cardinality(Preds(n))]
           IN  Waiting(deg, q, 0) /\ Gone(deg, q, 0) = {}
<1> DEFINE deg == [n \in Nodes |-> Cardinality(Preds(n))]
<1>1. Entries \in SUBSET Nodes
    BY DEF Entries
<1>2. q \in Seq(Nodes) /\ IsInjective(q) /\ Range(q) = Entries
    BY <1>1, Ordered
<1>3. \A n \in Nodes : Preds(n) \in SUBSET Nodes
    BY DEF Preds
<1>4. \A n \in Nodes : deg[n] = Cardinality(Preds(n)) /\ deg[n] \in Nat
    BY <1>3, SomeNodes
<1>5. \A n \in Nodes : deg[n] = 0 <=> n \in Entries
  <2> SUFFICES ASSUME NEW n \in Nodes
               PROVE  Cardinality(Preds(n)) = 0 <=> Preds(n) = {}
      BY <1>4 DEF Entries
  <2>1. IsFiniteSet(Preds(n))
      BY <1>3, SomeNodes
  <2> QED
      BY <2>1, FS_EmptySet
<1>6. Gone(deg, q, 0) = {}
    BY <1>2, <1>5 DEF Gone
<1>7. deg \in [Nodes -> Int]
    BY <1>4
<1>8. \A n \in Nodes : Preds(n) \ {} = Preds(n)
    OBVIOUS
<1>9. 0 \notin Nodes
    BY DEF Nodes
<1> QED
    BY <1>1, <1>2, <1>4, <1>5, <1>6, <1>7, <1>8, <1>9 DEF Waiting

-----------------------------------------------------------------------------
\* What is upstream of a node.

\* The predecessors of a node are upstream of it, and so is what is upstream of
\* a node that is.
LEMMA Upwards ==
    ASSUME NEW n \in Nodes
    PROVE  /\ Preds(n) \subseteq Above(n) /\ Above(n) \subseteq Nodes
           /\ \A p \in Above(n) : Above(p) \subseteq Above(n)
<1>1. Preds(n) \subseteq Above(n) /\ Above(n) \subseteq Nodes
    BY DEF Above, Preds
<1>2. ASSUME NEW p \in Above(n), NEW m \in Above(p)
      PROVE  m \in Above(n)
  <2> SUFFICES ASSUME NEW S \in SUBSET Nodes, Preds(n) \subseteq S,
                      \A s \in S : Preds(s) \subseteq S
               PROVE  m \in S
      BY <1>2 DEF Above
  <2>1. p \in S
      BY <1>2 DEF Above
  <2>2. Preds(p) \subseteq S
      BY <2>1
  <2> QED
      BY <1>2, <2>2 DEF Above
<1> QED
    BY <1>1, <1>2

\* All that is upstream of a node that waits for nothing is gone.
LEMMA GoneAbove ==
    ASSUME NEW deg, NEW q, NEW n, Waiting(deg, q, n), NEW m \in Nodes,
           deg[m] = 0
    PROVE  Above(m) \subseteq Gone(deg, q, n)
<1> DEFINE gone == Gone(deg, q, n)
<1>1. gone \in SUBSET Nodes
    BY DEF Gone
<1>2. Preds(m) \subseteq gone
    BY NothingWaits
<1>3. \A g \in gone : g \in Nodes /\ deg[g] = 0
    BY DEF Gone
<1>4. \A g \in gone : Preds(g) \subseteq gone
    BY <1>3, NothingWaits
<1> HIDE DEF gone
<1>5. Above(m) \subseteq gone
    BY <1>1, <1>2, <1>4 DEF Above
<1> QED
    BY <1>5 DEF gone

\* If no cycle is upstream of what is gone, none is upstream of a node that waits
\* for nothing.
LEMMA SoundAbove ==
    ASSUME NEW deg, NEW q, NEW n, Waiting(deg, q, n), NEW m \in Nodes,
           deg[m] = 0, m \notin Gone(deg, q, n),
           Gone(deg, q, n) \subseteq Sound
    PROVE  m \in Sound
<1>1. Above(m) \subseteq Gone(deg, q, n)
    BY GoneAbove
<1>2. \A p \in Above(m) : p \notin Above(p)
    BY <1>1 DEF Sound
<1>3. m \notin Above(m)
    BY <1>1
<1> QED
    BY <1>2, <1>3 DEF Sound

\* When nothing is queued, every node that no cycle is upstream of is gone.
LEMMA SoundGone ==
    ASSUME NEW deg, Waiting(deg, <<>>, 0), NEW n \in Sound
    PROVE  n \in Gone(deg, <<>>, 0)
<1> DEFINE gone == Gone(deg, <<>>, 0)
           left == {Above(m) : m \in Sound \ gone}
<1> SUFFICES ASSUME n \notin gone
             PROVE  FALSE
    OBVIOUS
<1>1. Sound \in SUBSET Nodes
    BY DEF Sound
<1>2. \A m \in Nodes : Above(m) \in FiniteSubsetsOf(Nodes)
  <2> SUFFICES ASSUME NEW m \in Nodes
               PROVE  Above(m) \in FiniteSubsetsOf(Nodes)
      OBVIOUS
  <2>1. Above(m) \in SUBSET Nodes
      BY Upwards
  <2> QED
      BY <2>1, SomeNodes DEF FiniteSubsetsOf
<1>3. left \subseteq FiniteSubsetsOf(Nodes) /\ left # {}
    BY <1>1, <1>2
<1>4. PICK above \in left : \A other \in left :
                <<other, above>> \notin StrictSubsetOrdering(Nodes)
  <2>1. IsWellFoundedOn(StrictSubsetOrdering(Nodes), FiniteSubsetsOf(Nodes))
      BY FS_StrictSubsetOrderingWellFounded
  <2> HIDE DEF left
  <2> QED
      BY <1>3, <2>1, WFMin
<1>5. PICK m \in Sound \ gone : above = Above(m)
    OBVIOUS
<1>6. m \in Nodes /\ m # 0
    BY <1>1 DEF Nodes
<1>7. deg[m] # 0
    BY <1>6 DEF Gone, Range
<1>8. PICK p \in Preds(m) : p \notin gone
  <2>1. Preds(m) \ gone \in SUBSET Nodes
      BY DEF Preds
  <2>2. IsFiniteSet(Preds(m) \ gone)
      BY <2>1, SomeNodes
  <2>3. Cardinality(Preds(m) \ gone) # 0
      BY <1>6, <1>7 DEF Waiting
  <2>4. Preds(m) \ gone # {}
      BY <2>2, <2>3, FS_EmptySet
  <2> QED
      BY <2>4
<1>9. /\ p \in Nodes /\ p \in Above(m) /\ Above(p) \subseteq Above(m)
      /\ Above(m) \subseteq Nodes
    BY <1>6, <1>8, Upwards DEF Preds
<1>10. p \in Sound /\ p \notin Above(p)
    BY <1>5, <1>9 DEF Sound
<1>11. Above(p) \in left
    BY <1>8, <1>10
<1>12. <<Above(p), Above(m)>> \in StrictSubsetOrdering(Nodes)
    BY <1>9, <1>10 DEF StrictSubsetOrdering
<1> QED
    BY <1>4, <1>5, <1>11, <1>12

\* The graph does not change, nor does what is said of it.
LEMMA SameGraph ==
    ASSUME edges' = edges
    PROVE  /\ \A n : Preds(n)' = Preds(n)
           /\ \A n : Above(n)' = Above(n)
           /\ Sound' = Sound
           /\ Waiting(indeg, queue, cur)' <=> Waiting(indeg', queue', cur')
<1>1. \A n : Preds(n)' = Preds(n)
    BY DEF Preds
<1>2. \A n : Above(n)' = Above(n)
    BY <1>1 DEF Above
<1>3. Sound' = Sound
    BY <1>2 DEF Sound
<1>4. Waiting(indeg, queue, cur)' <=> Waiting(indeg', queue', cur')
    BY <1>1 DEF Waiting
<1> QED
    BY <1>1, <1>2, <1>3, <1>4

-----------------------------------------------------------------------------
\* The steps, as far as the walk is concerned.

\* The activity leaves the walk at an await.
Leave ==
    /\ act \in Awaits /\ act' \in {"raised", "cancelled", "crashed"} /\ cur' = 0
    /\ UNCHANGED <<initial, indeg, queue, outs, snap>>

\* A node at hand comes to its end.
Finish == act \in Awaits /\ initial' = initial /\ \E o \in {"ok", "error"} : Store(o)

WalkStep ==
    /\ edges' = edges
    /\ \/ Begin \/ Skip \/ Execute \/ EndWalk \/ Retry \/ Resume
       \/ Finish \/ Leave
       \/ UNCHANGED <<initial, act, cur, indeg, queue, outs, snap>>

\* Every step is one of those.
LEMMA WalkSteps == [Next]_vars => WalkStep
<1> USE DEF WalkStep, graphVars, walkVars
<1> SUFFICES ASSUME [Next]_vars
             PROVE  WalkStep
    OBVIOUS
<1>1. CASE Begin
    BY <1>1 DEF Begin
<1>2. CASE Skip
    BY <1>2 DEF Skip
<1>3. CASE Execute
    BY <1>3 DEF Execute
<1>4. CASE Body
    BY <1>4 DEF Body, Finish, Awaits
<1>5. CASE EndWalk
    BY <1>5 DEF EndWalk
<1>6. CASE NoArray
    BY <1>6 DEF NoArray, Leave, Awaits
<1>7. CASE ItemOk
    BY <1>7 DEF ItemOk
<1>8. CASE ItemRaises
  <2>1. CASE strategy = "stop"
      BY <1>8, <2>1 DEF ItemRaises, Leave, Awaits
  <2>2. CASE strategy # "stop"
      BY <1>8, <2>2 DEF ItemRaises
  <2> QED
      BY <2>1, <2>2
<1>9. CASE IterEnds
    BY <1>9 DEF IterEnds, Finish, Awaits
<1>10. CASE ChildEmpty
    BY <1>10 DEF ChildEmpty, Finish, Awaits
<1>11. CASE ChildCreate
  <2>1. CASE Store("error")
      BY <1>11, <2>1 DEF ChildCreate, Finish, Awaits
  <2>2. CASE UNCHANGED <<walkVars, act, snap, faults>>
      BY <1>11, <2>2 DEF ChildCreate
  <2> QED
      BY <1>11, <2>1, <2>2 DEF ChildCreate
<1>12. CASE ChildChunk
    BY <1>12 DEF ChildChunk
<1>13. CASE ChildRaises
    BY <1>13 DEF ChildRaises, Finish, Awaits
<1>14. ASSUME NEW t \in {"finished", "suspended", "failed"}, ChildReturns(t)
       PROVE  WalkStep
    BY <1>14 DEF ChildReturns, Finish, Awaits
<1>15. ASSUME NEW t \in {"finished", "suspended", "failed"}, NEW again \in BOOLEAN,
              ChildUnsaved(t, again)
       PROVE  WalkStep
    BY <1>15 DEF ChildUnsaved, Finish, Awaits
<1>16. CASE UserCancelsChild
    BY <1>16 DEF UserCancelsChild
<1>17. CASE Cancel
    BY <1>17 DEF Cancel, Leave
<1>22. CASE CancelLost
    BY <1>22 DEF CancelLost, Finish, Awaits
<1>23. ASSUME NEW s \in {"success", "error"}, CancelPublish(s)
       PROVE  WalkStep
    BY <1>23 DEF CancelPublish, Leave, Awaits
<1>24. CASE ChildUnset
    BY <1>24 DEF ChildUnset, Leave, Awaits
<1>18. CASE Crash
    BY <1>18 DEF Crash, Leave
<1>19. CASE Retry
    BY <1>19 DEF Retry
<1>20. CASE Resume
    BY <1>20 DEF Resume
<1>21. CASE Stopped \/ UNCHANGED vars
    BY <1>21 DEF Stopped, vars
<1> QED
    BY <1>1, <1>2, <1>3, <1>4, <1>5, <1>6, <1>7, <1>8, <1>9, <1>10, <1>11, <1>12,
       <1>13, <1>14, <1>15, <1>16, <1>17, <1>18, <1>19, <1>20, <1>21, <1>22, <1>23,
       <1>24 DEF Next, Walk

WalkInvs == WalkTypes /\ ActInv /\ WalkInv /\ SoundInv

\* A walk starts from nothing.
LEMMA WalkInit == Init => WalkInvs
<1> SUFFICES ASSUME Init
             PROVE  WalkInvs
    OBVIOUS
<1>1. WalkTypes
    BY DEF Init, WalkTypes, Activity, Output, Blank
<1>2. ActInv /\ WalkInv
    BY DEF Init, ActInv, WalkInv, Awaits
<1>3. SoundInv
    BY DEF Init, SoundInv, Blank
<1> QED
    BY <1>1, <1>2, <1>3 DEF WalkInvs

\* The release of a node's children makes the walk pass the node.
LEMMA Releases ==
    ASSUME NEW q, NEW n \in Nodes, Waiting(indeg, q, n), Release(n, q)
    PROVE  Waiting(indeg', queue', 0)
           /\ Gone(indeg', queue', 0) = Gone(indeg, q, n) \union {n}
<1>1. indeg' = Lowered(indeg, n)
    BY DEF Release, Lowered
<1>2. PICK new \in Orders({s \in Succs(n) : indeg[s] = 1}) : queue' = q \o new
    BY DEF Release
<1> QED
    BY <1>1, <1>2, Passed

\* No step breaks the order of the walk.
LEMMA WalkNext ==
    ASSUME WalkInvs, WalkStep
    PROVE  WalkInvs'
<1>1. edges' = edges
    BY DEF WalkStep
<1>2. WalkTypes /\ ActInv /\ WalkInv /\ SoundInv
    BY DEF WalkInvs
<1>3. ASSUME WalkTypes', ActInv',
             act' \in Awaits \union {"walk", "ended"} =>
                 /\ Waiting(indeg', queue', cur')
                 /\ \A m \in Gone(indeg', queue', cur') : outs'[m] # "none",
             \A n \in Nodes :
                 outs'[n] # "none" \/ snap'[n] # "none" \/ initial'[n] # "none"
                     => n \in Sound
      PROVE  WalkInvs'
  <2>1. Sound' = Sound /\ (Waiting(indeg, queue, cur)' <=> Waiting(indeg', queue', cur'))
      BY <1>1, SameGraph
  <2>2. WalkInv'
      BY <1>3, <2>1 DEF WalkInv, Gone, Awaits
  <2>3. SoundInv'
      BY <1>3, <2>1 DEF SoundInv
  <2> QED
      BY <1>3, <2>2, <2>3 DEF WalkInvs
<1>4. CASE Begin
  <2>1. /\ indeg' = [n \in Nodes |-> Cardinality(Preds(n))]
        /\ queue' \in Orders(Entries)
        /\ outs' = initial /\ initial' = initial /\ snap' = snap
        /\ act' \in {"walk", "raised"} /\ act = "idle" /\ cur' = cur
      BY <1>4 DEF Begin
  <2>2. Waiting(indeg', queue', 0) /\ Gone(indeg', queue', 0) = {}
      BY <2>1, Begun
  <2>3. cur = 0
      BY <1>2, <2>1 DEF ActInv, Awaits
  <2>4. WalkTypes'
      BY <1>2, <2>1, <2>2 DEF WalkTypes, Activity, Waiting
  <2>5. ActInv'
      BY <2>1, <2>3 DEF ActInv, Awaits
  <2> QED
      BY <1>2, <1>3, <2>1, <2>2, <2>3, <2>4, <2>5 DEF SoundInv
<1>5. CASE Skip
  <2>1. /\ act = "walk" /\ queue # <<>> /\ outs[Head(queue)] = "ok"
        /\ Release(Head(queue), Tail(queue))
        /\ UNCHANGED <<initial, act, cur, outs, snap>>
      BY <1>5 DEF Skip
  <2>2. cur = 0 /\ Waiting(indeg, queue, 0)
      BY <1>2, <2>1 DEF ActInv, WalkInv, Awaits
  <2>3. /\ Head(queue) \in Nodes
        /\ Waiting(indeg, Tail(queue), Head(queue))
        /\ Gone(indeg, Tail(queue), Head(queue)) = Gone(indeg, queue, 0)
      BY <2>1, <2>2, Taken
  <2>4. /\ Waiting(indeg', queue', 0)
        /\ Gone(indeg', queue', 0) = Gone(indeg, queue, 0) \union {Head(queue)}
      BY <2>1, <2>3, Releases
  <2>5. WalkTypes'
      BY <1>2, <2>1, <2>4 DEF WalkTypes, Waiting
  <2>6. ActInv'
      BY <2>1, <2>2 DEF ActInv, Awaits
  <2>7. \A m \in Gone(indeg', queue', cur') : outs'[m] # "none"
      BY <1>2, <2>1, <2>2, <2>4 DEF WalkInv
  <2> QED
      BY <1>2, <1>3, <2>1, <2>2, <2>4, <2>5, <2>6, <2>7 DEF SoundInv
<1>6. CASE Execute
  <2>1. /\ act = "walk" /\ queue # <<>>
        /\ cur' = Head(queue) /\ queue' = Tail(queue) /\ act' \in Awaits
        /\ UNCHANGED <<initial, indeg, outs, snap>>
      BY <1>6 DEF Execute, Awaits
  <2>2. cur = 0 /\ Waiting(indeg, queue, 0)
      BY <1>2, <2>1 DEF ActInv, WalkInv, Awaits
  <2>3. /\ cur' \in Nodes /\ Waiting(indeg', queue', cur')
        /\ Gone(indeg', queue', cur') = Gone(indeg, queue, 0)
      BY <2>1, <2>2, Taken
  <2>4. WalkTypes'
      BY <1>2, <2>1, <2>3 DEF WalkTypes, Waiting, Activity, Awaits
  <2>5. ActInv'
      BY <2>1, <2>3 DEF ActInv, Awaits, Nodes
  <2>6. \A m \in Gone(indeg', queue', cur') : outs'[m] # "none"
      BY <1>2, <2>1, <2>2, <2>3 DEF WalkInv
  <2> QED
      BY <1>2, <1>3, <2>1, <2>3, <2>4, <2>5, <2>6 DEF SoundInv
<1>7. CASE EndWalk
  <2>1. /\ act = "walk" /\ queue = <<>> /\ act' = "ended" /\ snap' = outs
        /\ UNCHANGED <<initial, cur, indeg, queue, outs>>
      BY <1>7 DEF EndWalk, walkVars
  <2>2. WalkTypes' /\ ActInv'
      BY <1>2, <2>1 DEF WalkTypes, Activity, ActInv, Awaits
  <2> QED
      BY <1>2, <1>3, <2>1, <2>2 DEF WalkInv, SoundInv
<1>8. CASE Retry
  <2>1. /\ act = "crashed" /\ act' = "idle"
        /\ UNCHANGED <<initial, cur, indeg, queue, outs, snap>>
      BY <1>8 DEF Retry, walkVars
  <2>2. WalkTypes' /\ ActInv'
      BY <1>2, <2>1 DEF WalkTypes, Activity, ActInv, Awaits
  <2> QED
      BY <1>2, <1>3, <2>1, <2>2 DEF SoundInv, Awaits
<1>9. CASE Resume
  <2>1. /\ act \in {"raised", "cancelled", "ended"} /\ act' = "idle" /\ initial' = snap
        /\ UNCHANGED <<cur, indeg, queue, outs, snap>>
      BY <1>9 DEF Resume, walkVars
  <2>2. WalkTypes' /\ ActInv'
      BY <1>2, <2>1 DEF WalkTypes, Activity, ActInv, Awaits
  <2> QED
      BY <1>2, <1>3, <2>1, <2>2 DEF SoundInv, Awaits
<1>10. CASE Finish
  <2>1. PICK o \in {"ok", "error"} : Store(o)
      BY <1>10 DEF Finish
  <2>2. /\ act \in Awaits /\ outs' = [outs EXCEPT ![cur] = o] /\ snap' = outs'
        /\ Release(cur, queue) /\ cur' = 0 /\ act' = "walk" /\ initial' = initial
      BY <1>10, <2>1 DEF Finish, Store
  <2>3. cur \in Nodes /\ Waiting(indeg, queue, cur) /\ indeg[cur] = 0
      BY <1>2, <2>2 DEF WalkTypes, ActInv, WalkInv, Waiting
  <2>4. /\ Waiting(indeg', queue', cur')
        /\ Gone(indeg', queue', cur') = Gone(indeg, queue, cur) \union {cur}
      BY <2>2, <2>3, Releases
  <2>5. \A n \in Nodes : outs'[n] = IF n = cur THEN o ELSE outs[n]
      BY <1>2, <2>2 DEF WalkTypes
  <2>6. WalkTypes'
      BY <1>2, <2>2, <2>4 DEF WalkTypes, Waiting, Activity, Output
  <2>7. ActInv'
      BY <2>2 DEF ActInv, Awaits
  <2>8. \A m \in Gone(indeg', queue', cur') : outs'[m] # "none"
    <3>1. \A m \in Gone(indeg, queue, cur) : m \in Nodes /\ outs[m] # "none"
        BY <1>2, <2>2 DEF WalkInv, Gone
    <3> QED
        BY <2>3, <2>4, <2>5, <3>1
  <2>9. cur \in Sound
    <3>1. Gone(indeg, queue, cur) \subseteq Sound
        BY <1>2, <2>2 DEF WalkInv, Gone, SoundInv
    <3>2. cur \notin Gone(indeg, queue, cur)
        BY DEF Gone
    <3> QED
        BY <2>3, <3>1, <3>2, SoundAbove
  <2>10. \A n \in Nodes :
            outs'[n] # "none" \/ snap'[n] # "none" \/ initial'[n] # "none"
                => n \in Sound
      BY <1>2, <2>2, <2>5, <2>9 DEF SoundInv
  <2> QED
      BY <1>3, <2>4, <2>6, <2>7, <2>8, <2>10
<1>11. CASE Leave
  <2>1. /\ act' \in {"raised", "cancelled", "crashed"} /\ cur' = 0
        /\ UNCHANGED <<initial, indeg, queue, outs, snap>>
      BY <1>11 DEF Leave
  <2>2. WalkTypes' /\ ActInv'
      BY <1>2, <2>1 DEF WalkTypes, Activity, ActInv, Awaits
  <2> QED
      BY <1>2, <1>3, <2>1, <2>2 DEF SoundInv, Awaits
<1>12. CASE UNCHANGED <<initial, act, cur, indeg, queue, outs, snap>>
  <2>1. WalkTypes' /\ ActInv'
      BY <1>2, <1>12 DEF WalkTypes, ActInv
  <2> QED
      BY <1>2, <1>3, <1>12, <2>1 DEF WalkInv, SoundInv
<1> QED
    BY <1>4, <1>5, <1>6, <1>7, <1>8, <1>9, <1>10, <1>11, <1>12 DEF WalkStep

\* The walk is in order in every state.
LEMMA WalkAlways == Spec => []WalkInvs
<1>1. WalkInvs /\ [Next]_vars => WalkInvs'
    BY WalkSteps, WalkNext
<1> QED
    BY <1>1, WalkInit, PTL DEF Spec

-----------------------------------------------------------------------------
\* A node is executed only when every node upstream of it has an output, and never
\* when it is upstream of itself: the in-degrees count the predecessors that are
\* not through, so all that is upstream of a queued node is through.
THEOREM UpstreamOrder == Spec => UpstreamFirst
<1> DEFINE First == cur' # cur /\ cur' # 0 =>
                       \A p \in Above(cur') : outs[p] # "none" /\ p # cur'
<1>1. ASSUME WalkInvs, [Next]_vars
      PROVE  [First]_vars
  <2>1. WalkInv /\ ActInv /\ WalkTypes
      BY <1>1 DEF WalkInvs
  <2>2. CASE Execute
    <3>1. act = "walk" /\ queue # <<>> /\ cur' = Head(queue)
        BY <2>2 DEF Execute
    <3>2. /\ cur = 0 /\ Waiting(indeg, queue, 0)
          /\ \A m \in Gone(indeg, queue, 0) : outs[m] # "none"
        BY <2>1, <3>1 DEF WalkInv, ActInv, Awaits
    <3>3. /\ Head(queue) \in Nodes /\ Head(queue) \notin Gone(indeg, queue, 0)
          /\ Waiting(indeg, Tail(queue), Head(queue))
        BY <3>1, <3>2, Taken
    <3>4. indeg[Head(queue)] = 0
        BY <3>3 DEF Waiting
    <3>5. Above(Head(queue)) \subseteq Gone(indeg, queue, 0)
        BY <3>2, <3>3, <3>4, GoneAbove
    <3> QED
        BY <3>1, <3>2, <3>3, <3>5
  <2>3. CASE cur' = cur \/ cur' = 0
      BY <2>3
  <2>4. Execute \/ cur' = cur \/ cur' = 0
    <3>1. WalkStep
        BY <1>1, WalkSteps
    <3> QED
        BY <3>1 DEF WalkStep, Begin, Skip, EndWalk, Retry, Resume, Finish, Leave,
                    Store, walkVars
  <2> QED
      BY <2>2, <2>3, <2>4
<1> QED
    BY <1>1, WalkAlways, PTL DEF Spec, UpstreamFirst

\* A walk that ends has an output for exactly the nodes that no cycle is upstream
\* of.  No other node is ever queued; and of the nodes that are left without an
\* output when the queue is empty each has a predecessor that is left too, so a
\* node with the fewest nodes upstream of it among those would be on a cycle.
THEOREM WalksAreComplete == Spec => []WalkIsComplete
<1>1. WalkInvs => WalkIsComplete
  <2> SUFFICES ASSUME WalkInvs, act = "ended"
               PROVE  {n \in Nodes : outs[n] # "none"} = Sound
      BY DEF WalkIsComplete, Sound
  <2>1. /\ queue = <<>> /\ cur = 0 /\ Waiting(indeg, <<>>, 0)
        /\ \A m \in Gone(indeg, <<>>, 0) : outs[m] # "none"
      BY DEF WalkInvs, WalkTypes, ActInv, WalkInv, Awaits
  <2>2. \A n \in Nodes : outs[n] # "none" => n \in Sound
      BY DEF WalkInvs, SoundInv
  <2>3. \A n \in Sound : n \in Gone(indeg, <<>>, 0)
      BY <2>1, SoundGone
  <2>4. \A n \in Sound : n \in Nodes /\ outs[n] # "none"
      BY <2>1, <2>3 DEF Sound
  <2> QED
      BY <2>2, <2>4
<1> QED
    BY <1>1, WalkAlways, PTL

-----------------------------------------------------------------------------
\* The child rows.

\* There are finitely many of them.
LEMMA SomeChildren ==
    ASSUME NEW S \in SUBSET Children
    PROVE  IsFiniteSet(S) /\ Cardinality(S) \in Nat
<1>1. Cardinality(SubNodes) \in Nat
    BY TopoAssumption, SomeNodes
<1>2. (MaxCrashes + MaxResumes + 1) * Cardinality(SubNodes) \in Nat
    BY <1>1, TopoAssumption
<1>3. IsFiniteSet(Children)
    BY <1>2, FS_Interval DEF Children
<1> QED
    BY <1>3, FS_Subset, FS_CardinalityType

\* Rows that are no longer running do not add to those left behind.
LEMMA NoMoreOrphans ==
    ASSUME NEW r, NEW k, NEW r2, NEW k2,
           Orphans(r2, k2) \subseteq Orphans(r, k)
    PROVE  Cardinality(Orphans(r2, k2)) <= Cardinality(Orphans(r, k))
<1>1. Orphans(r, k) \in SUBSET Children
    BY DEF Orphans
<1>2. IsFiniteSet(Orphans(r, k))
    BY <1>1, SomeChildren
<1> QED
    BY <1>2, FS_Subset

\* A row that is given up adds one.
LEMMA OneOrphan ==
    ASSUME NEW r, NEW k \in Children \union {0}
    PROVE  Cardinality(Orphans(r, 0)) <= Cardinality(Orphans(r, k)) + 1
<1>1. Orphans(r, k) \in SUBSET Children /\ Orphans(r, 0) \in SUBSET Children
    BY DEF Orphans
<1>2. IsFiniteSet(Orphans(r, k)) /\ Cardinality(Orphans(r, k)) \in Nat
      /\ IsFiniteSet(Orphans(r, 0)) /\ Cardinality(Orphans(r, 0)) \in Nat
    BY <1>1, SomeChildren
<1>3. IsFiniteSet(Orphans(r, k) \union {k})
      /\ Cardinality(Orphans(r, k) \union {k}) <= Cardinality(Orphans(r, k)) + 1
  <2>1. /\ IsFiniteSet(Orphans(r, k) \union {k})
        /\ Cardinality(Orphans(r, k) \union {k}) =
              IF k \in Orphans(r, k) THEN Cardinality(Orphans(r, k))
              ELSE Cardinality(Orphans(r, k)) + 1
      BY <1>2, FS_AddElement
  <2> QED
      BY <1>2, <2>1
<1>4. Orphans(r, 0) \in SUBSET (Orphans(r, k) \union {k})
    BY DEF Orphans
<1>5. Cardinality(Orphans(r, 0)) <= Cardinality(Orphans(r, k) \union {k})
    BY <1>3, <1>4, FS_Subset
<1>6. Cardinality(Orphans(r, k) \union {k}) \in Nat
    BY <1>3, FS_CardinalityType
<1> QED
    BY <1>2, <1>3, <1>5, <1>6

\* The rows left behind are no more than crashes and faults together.
Bounded(r, k, c, f) == Cardinality(Orphans(r, k)) <= c + f

LEMMA SpentOnOrphan ==
    ASSUME NEW r, NEW k \in Children \union {0},
           NEW c \in Nat, NEW f \in Nat, NEW c2 \in Nat, NEW f2 \in Nat,
           c2 >= c, f2 >= f, c2 > c \/ f2 > f, Bounded(r, k, c, f)
    PROVE  Bounded(r, 0, c2, f2)
<1>1. Cardinality(Orphans(r, 0)) <= Cardinality(Orphans(r, k)) + 1
    BY OneOrphan
<1>2. Orphans(r, k) \in SUBSET Children /\ Orphans(r, 0) \in SUBSET Children
    BY DEF Orphans
<1>3. Cardinality(Orphans(r, k)) \in Nat /\ Cardinality(Orphans(r, 0)) \in Nat
    BY <1>2, SomeChildren
<1> QED
    BY <1>1, <1>3 DEF Bounded

RowInvs == RowTypes /\ ChildInv /\ NameInv /\ OrphanInv

LEMMA RowInit == Init => RowInvs
<1> SUFFICES ASSUME Init
             PROVE  RowInvs
    OBVIOUS
<1>1. RowTypes /\ ChildInv /\ NameInv
    BY DEF Init, RowTypes, Status, Blank, ChildInv, NameInv
<1>2. Orphans(row, child) = {}
    BY DEF Init, Orphans
<1>3. OrphanInv
    BY <1>2, FS_EmptySet DEF Init, OrphanInv
<1> QED
    BY <1>1, <1>3 DEF RowInvs

\* Steps outside of a workflow node leave the rows alone.
Elsewhere ==
    /\ act # "child" \/ UNCHANGED act
    /\ UNCHANGED <<row, kept, child, of, faults, crashes>>

LEMMA ElsewhereKeeps == RowInvs /\ Elsewhere => RowInvs'
<1> SUFFICES ASSUME RowInvs, Elsewhere
             PROVE  RowInvs'
    OBVIOUS
<1>1. RowTypes /\ ChildInv /\ NameInv /\ OrphanInv
    BY DEF RowInvs
<1>2. UNCHANGED <<row, kept, child, of, faults, crashes>>
    BY DEF Elsewhere
<1>3. RowTypes' /\ NameInv'
    BY <1>1, <1>2 DEF RowTypes, NameInv
<1>4. ChildInv'
    BY <1>1, <1>2 DEF Elsewhere, ChildInv
<1>5. OrphanInv'
    BY <1>1, <1>2 DEF OrphanInv, Orphans
<1> QED
    BY <1>3, <1>4, <1>5 DEF RowInvs

\* A child is over and its row has been given the status s, no longer "running";
\* if that is "success" the output of the node at hand may name it.
LEMMA RowClosed ==
    ASSUME RowInvs, NEW s \in Status \ {"running"}, child \in Children,
           row' = [row EXCEPT ![child] = s], child' = 0,
           kept' = kept, faults' \in Nat, faults' >= faults, crashes' = crashes,
           \/ of' = of
           \/ s = "success" /\ of' = [of EXCEPT ![cur] = child]
    PROVE  RowInvs'
<1>1. RowTypes /\ ChildInv /\ NameInv /\ OrphanInv
    BY DEF RowInvs
<1>2. RowTypes'
    BY <1>1 DEF RowTypes
<1>3. ChildInv'
    BY DEF ChildInv
<1>4. row[child] # "success"
  <2>1. child # 0
      BY DEF Children
  <2> QED
      BY <1>1, <2>1 DEF ChildInv
<1>5. NameInv'
  <2> SUFFICES ASSUME NEW n \in Nodes, of'[n] # 0
               PROVE  row'[of'[n]] = "success"
      BY DEF NameInv
  <2>1. CASE of'[n] = of[n]
      BY <1>1, <1>4, <2>1 DEF NameInv, RowTypes
  <2>2. CASE of'[n] # of[n]
    <3>1. s = "success" /\ of'[n] = child
        BY <1>1, <2>2 DEF RowTypes
    <3> QED
        BY <1>1, <3>1 DEF RowTypes
  <2> QED
      BY <2>1, <2>2
<1>6. OrphanInv'
  <2>1. Orphans(row', child') \subseteq Orphans(row, child)
      BY <1>1 DEF Orphans, RowTypes
  <2>2. Cardinality(Orphans(row', child')) <= Cardinality(Orphans(row, child))
      BY <2>1, NoMoreOrphans
  <2>3. Orphans(row, child) \in SUBSET Children
        /\ Orphans(row', child') \in SUBSET Children
      BY DEF Orphans
  <2>4. Cardinality(Orphans(row, child)) \in Nat
        /\ Cardinality(Orphans(row', child')) \in Nat
      BY <2>3, SomeChildren
  <2>5. Cardinality(Orphans(row', child')) <= crashes' + faults'
      BY <1>1, <2>2, <2>4 DEF OrphanInv, RowTypes
  <2>6. OrphanInv' <=> Cardinality(Orphans(row', child')) <= crashes' + faults'
      BY DEF OrphanInv, Orphans
  <2> QED
      BY <2>5, <2>6
<1> QED
    BY <1>2, <1>3, <1>5, <1>6 DEF RowInvs

\* A row is given up by a crash or by a database that fails.
LEMMA RowLost ==
    ASSUME RowInvs, child' = 0, UNCHANGED <<row, kept, of>>,
           faults' \in Nat, crashes' \in Nat,
           faults' >= faults, crashes' >= crashes,
           faults' > faults \/ crashes' > crashes
    PROVE  RowInvs'
<1>1. RowTypes /\ ChildInv /\ NameInv /\ OrphanInv
    BY DEF RowInvs
<1>2. RowTypes' /\ ChildInv' /\ NameInv'
    BY <1>1 DEF RowTypes, ChildInv, NameInv
<1>3. OrphanInv'
  <2>1. Bounded(row, child, crashes, faults)
      BY <1>1 DEF OrphanInv, Bounded
  <2>2. Bounded(row, 0, crashes', faults')
      BY <1>1, <2>1, SpentOnOrphan DEF RowTypes
  <2>3. OrphanInv' <=> Bounded(row, 0, crashes', faults')
      BY DEF OrphanInv, Orphans, Bounded
  <2> QED
      BY <2>2, <2>3
<1> QED
    BY <1>2, <1>3 DEF RowInvs

LEMMA RowNext ==
    ASSUME RowInvs, [Next]_vars
    PROVE  RowInvs'
<1>1. RowTypes /\ ChildInv /\ NameInv /\ OrphanInv
    BY DEF RowInvs
<1>2. CASE Begin \/ Skip \/ Execute \/ EndWalk \/ Retry \/ Resume
  <2>1. Elsewhere
      BY <1>2 DEF Elsewhere, Begin, Skip, Execute, EndWalk, Retry, Resume, rowVars, budget
  <2> QED
      BY <2>1, ElsewhereKeeps
<1>3. CASE Body \/ NoArray \/ ItemOk \/ ItemRaises \/ IterEnds
  <2>1. Elsewhere
      BY <1>3 DEF Elsewhere, Body, NoArray, ItemOk, ItemRaises, IterEnds, rowVars, budget
  <2> QED
      BY <2>1, ElsewhereKeeps
<1>4. CASE ChildEmpty
  <2>1. /\ child = 0 /\ of' = [of EXCEPT ![cur] = 0]
        /\ UNCHANGED <<row, kept, child, faults, crashes>>
      BY <1>4 DEF ChildEmpty, rowVars, budget
  <2>2. RowTypes' /\ ChildInv' /\ NameInv' /\ OrphanInv'
      BY <1>1, <2>1 DEF RowTypes, ChildInv, NameInv, OrphanInv, Orphans
  <2> QED
      BY <2>2 DEF RowInvs
<1>5. CASE ChildCreate
  <2>1. /\ act = "child" /\ child = 0 /\ UNCHANGED <<kept, of, crashes>>
      BY <1>5 DEF ChildCreate
  <2>2. ASSUME NEW c \in Children, row[c] = "none",
               row' = [row EXCEPT ![c] = "running"], child' = c,
               act' = act, faults' = faults
        PROVE  RowInvs'
    <3>1. RowTypes' /\ ChildInv'
        BY <1>1, <2>1, <2>2 DEF RowTypes, ChildInv, Status
    <3>2. NameInv'
        BY <1>1, <2>1, <2>2 DEF RowTypes, NameInv
    <3>3. Orphans(row', child') = Orphans(row, child)
        BY <1>1, <2>1, <2>2 DEF Orphans, RowTypes, Children
    <3>4. OrphanInv'
      <4>1. OrphanInv' <=> Cardinality(Orphans(row', child')) <= crashes' + faults'
          BY DEF OrphanInv, Orphans
      <4> QED
          BY <1>1, <2>1, <2>2, <3>3, <4>1 DEF OrphanInv
    <3> QED
        BY <3>1, <3>2, <3>4 DEF RowInvs
  <2>3. ASSUME faults' = faults + 1, UNCHANGED <<row, child>>
        PROVE  RowInvs'
    <3>1. child' = 0 /\ faults' \in Nat /\ crashes' \in Nat
          /\ faults' >= faults /\ crashes' >= crashes
          /\ (faults' > faults \/ crashes' > crashes)
        BY <1>1, <2>1, <2>3 DEF RowTypes
    <3> QED
        BY <2>1, <2>3, <3>1, RowLost
  <2> QED
      BY <1>5, <2>2, <2>3 DEF ChildCreate
<1>6. CASE ChildChunk
  <2>1. /\ kept' = [kept EXCEPT ![child] = TRUE]
        /\ UNCHANGED <<act, row, child, of, faults, crashes>>
      BY <1>6 DEF ChildChunk, budget
  <2>2. RowTypes' /\ ChildInv' /\ NameInv' /\ OrphanInv'
      BY <1>1, <2>1 DEF RowTypes, ChildInv, NameInv, OrphanInv, Orphans
  <2> QED
      BY <2>2 DEF RowInvs
<1>7. ASSUME NEW t \in {"finished", "suspended", "failed"}, ChildReturns(t)
      PROVE  RowInvs'
  <2>1. /\ child \in Children /\ child' = 0 /\ kept' = kept
        /\ row' = [row EXCEPT ![child] = "success"]
        /\ of' = [of EXCEPT ![cur] = child]
        /\ UNCHANGED <<faults, crashes>>
      BY <1>1, <1>7 DEF ChildReturns, ChildOver, Update, RowTypes, budget
  <2>2. faults' \in Nat /\ faults' >= faults
      BY <1>1, <2>1 DEF RowTypes
  <2>3. "success" \in Status \ {"running"}
      BY DEF Status
  <2> QED
      BY <2>1, <2>2, <2>3, RowClosed
<1>8. CASE ChildRaises
  <2>1. /\ child \in Children /\ child' = 0 /\ kept' = kept
        /\ row' = [row EXCEPT ![child] = "error"]
        /\ UNCHANGED <<of, faults, crashes>>
      BY <1>1, <1>8 DEF ChildRaises, ChildOver, Update, RowTypes, budget
  <2>2. faults' \in Nat /\ faults' >= faults
      BY <1>1, <2>1 DEF RowTypes
  <2>3. "error" \in Status \ {"running"}
      BY DEF Status
  <2> QED
      BY <2>1, <2>2, <2>3, RowClosed
<1>9. ASSUME NEW t \in {"finished", "suspended", "failed"}, NEW again \in BOOLEAN,
             ChildUnsaved(t, again)
      PROVE  RowInvs'
  <2>1. /\ child \in Children /\ child' = 0 /\ kept' = kept
        /\ UNCHANGED <<of, crashes>>
        /\ faults' = faults + (IF again THEN 2 ELSE 1)
      BY <1>1, <1>9 DEF ChildUnsaved, ChildOver, Update, RowTypes
  <2>2. faults' \in Nat /\ faults' >= faults
        /\ crashes' \in Nat /\ crashes' >= crashes
        /\ (faults' > faults \/ crashes' > crashes)
      BY <1>1, <2>1 DEF RowTypes
  <2>3. CASE again
    <3>1. UNCHANGED <<row, kept>>
        BY <1>9, <2>3 DEF ChildUnsaved
    <3> QED
        BY <2>1, <2>2, <3>1, RowLost
  <2>4. CASE ~again
    <3>1. PICK s \in Status \ {"running"} : row' = [row EXCEPT ![child] = s]
        BY <1>9, <2>4 DEF ChildUnsaved, Update, Status
    <3> QED
        BY <2>1, <2>2, <3>1, RowClosed
  <2> QED
      BY <2>3, <2>4
<1>10. CASE UserCancelsChild
  <2>1. /\ child \in Children /\ child # 0 /\ row' = [row EXCEPT ![child] = "cancelled"]
        /\ row[child] = "running"
        /\ UNCHANGED <<act, kept, child, of, faults, crashes>>
      BY <1>1, <1>10 DEF UserCancelsChild, RowTypes, budget
  <2>2. RowTypes' /\ ChildInv' /\ NameInv'
      BY <1>1, <2>1 DEF RowTypes, ChildInv, NameInv, Status
  <2>3. Orphans(row', child') = Orphans(row, child)
      BY <1>1, <2>1 DEF Orphans, RowTypes
  <2>4. OrphanInv'
    <3>1. OrphanInv' <=> Cardinality(Orphans(row', child')) <= crashes' + faults'
        BY DEF OrphanInv, Orphans
    <3> QED
        BY <1>1, <2>1, <2>3, <3>1 DEF OrphanInv
  <2> QED
      BY <2>2, <2>4 DEF RowInvs
<1>11. CASE Cancel
  <2>1. /\ act' = "cancelled" /\ child' = 0
        /\ row' = IF child = 0 THEN row ELSE [row EXCEPT ![child] = "cancelled"]
        /\ UNCHANGED <<kept, of, faults, crashes>>
      BY <1>11 DEF Cancel, budget
  <2>2. CASE child = 0
    <3>1. RowTypes' /\ ChildInv' /\ NameInv' /\ OrphanInv'
        BY <1>1, <2>1, <2>2 DEF RowTypes, ChildInv, NameInv, OrphanInv, Orphans
    <3> QED
        BY <3>1 DEF RowInvs
  <2>3. CASE child # 0
    <3>1. child \in Children /\ faults' \in Nat /\ faults' >= faults
          /\ "cancelled" \in Status \ {"running"}
        BY <1>1, <2>1, <2>3 DEF RowTypes, Status
    <3> QED
        BY <2>1, <2>3, <3>1, RowClosed
  <2> QED
      BY <2>2, <2>3
<1>14. CASE CancelLost
  <2>1. /\ child \in Children /\ child' = 0 /\ faults' = faults + 1
        /\ UNCHANGED <<kept, of, crashes>>
        /\ row' = row \/ row' = [row EXCEPT ![child] = "cancelled"]
      BY <1>1, <1>14 DEF CancelLost, ChildOver, RowTypes
  <2>2. faults' \in Nat /\ crashes' \in Nat /\ faults' >= faults /\ crashes' >= crashes
        /\ (faults' > faults \/ crashes' > crashes)
      BY <1>1, <2>1 DEF RowTypes
  <2>3. "cancelled" \in Status \ {"running"}
      BY DEF Status
  <2>4. CASE row' = row
      BY <2>1, <2>2, <2>4, RowLost
  <2>5. CASE row' = [row EXCEPT ![child] = "cancelled"]
      BY <2>1, <2>2, <2>3, <2>5, RowClosed
  <2> QED
      BY <2>1, <2>4, <2>5
<1>15. ASSUME NEW s \in {"success", "error"}, CancelPublish(s)
       PROVE  RowInvs'
  <2>1. /\ child \in Children /\ child' = 0 /\ kept' = kept
        /\ row' = [row EXCEPT ![child] = s]
        /\ UNCHANGED <<of, faults, crashes>>
      BY <1>1, <1>15 DEF CancelPublish, ChildOver, Update, RowTypes, budget
  <2>2. faults' \in Nat /\ faults' >= faults
      BY <1>1, <2>1 DEF RowTypes
  <2>3. s \in Status \ {"running"}
      BY DEF Status
  <2> QED
      BY <2>1, <2>2, <2>3, RowClosed
<1>16. CASE ChildUnset
  <2>1. child = 0 /\ UNCHANGED <<row, kept, child, of, faults, crashes>>
      BY <1>16 DEF ChildUnset, rowVars, budget
  <2>2. RowTypes' /\ ChildInv' /\ NameInv' /\ OrphanInv'
      BY <1>1, <2>1 DEF RowTypes, ChildInv, NameInv, OrphanInv, Orphans
  <2> QED
      BY <2>2 DEF RowInvs
<1>12. CASE Crash
  <2>1. child' = 0 /\ crashes' = crashes + 1 /\ UNCHANGED <<row, kept, of, faults>>
      BY <1>12 DEF Crash
  <2>2. faults' \in Nat /\ crashes' \in Nat /\ faults' >= faults /\ crashes' >= crashes
        /\ (faults' > faults \/ crashes' > crashes)
      BY <1>1, <2>1 DEF RowTypes
  <2> QED
      BY <2>1, <2>2, RowLost
<1>13. CASE Stopped \/ UNCHANGED vars
  <2>1. Elsewhere
      BY <1>13 DEF Elsewhere, Stopped, vars, rowVars, budget
  <2> QED
      BY <2>1, ElsewhereKeeps
<1> QED
    BY <1>2, <1>3, <1>4, <1>5, <1>6, <1>7, <1>8, <1>9, <1>10, <1>11, <1>12, <1>13,
       <1>14, <1>15, <1>16 DEF Next, Walk

\* The rows are in order in every state.
LEMMA RowsAlways == Spec => []RowInvs
<1> QED
    BY RowInit, RowNext, PTL DEF Spec

\* Every step keeps the variables of the walk and of the rows within their types,
\* for every graph, also across crashes, cancellations and resumed runs.
THEOREM TypeCorrect == Spec => [](WalkTypes /\ RowTypes)
<1>1. WalkInvs /\ RowInvs => WalkTypes /\ RowTypes
    BY DEF WalkInvs, RowInvs
<1> QED
    BY <1>1, WalkAlways, RowsAlways, PTL

\* A child row is left running by a worker that dies or by a database that fails,
\* and by nothing else: each crash and each failure accounts for one such row.
THEOREM ChildRowsAreEnded == Spec => []ChildRowsEnd
<1>1. RowInvs => ChildRowsEnd
    BY DEF RowInvs, OrphanInv, Orphans, ChildRowsEnd
<1> QED
    BY <1>1, RowsAlways, PTL

\* An output of a workflow node that names a child run names a success.  The rows
\* that change are those at work, running or cancelled by a user, and no output
\* names one of them.
THEOREM OutputsNameSuccesses == Spec => []OutputNamesSuccess
<1>1. RowInvs => OutputNamesSuccess
  <2>1. SubNodes \subseteq Nodes
      BY TopoAssumption
  <2> QED
      BY <2>1 DEF RowInvs, NameInv, OutputNamesSuccess
<1> QED
    BY <1>1, RowsAlways, PTL
=============================================================================
