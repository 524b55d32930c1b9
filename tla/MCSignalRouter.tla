---------------------------- MODULE MCSignalRouter ----------------------------
(* SignalRouter on small instances: run r1 has a wait for any of two signals, *)
(* run r2 a wait for both of them and a timer.                               *)
EXTENDS SignalRouter, TLC

CONSTANTS r1, r2, one, every, timer, a, b

MCRunOf == [w \in Waiters |-> IF w = one THEN r1 ELSE r2]

MCMode == [w \in Waiters |-> CASE w = one -> "any"
                               [] w = every -> "all"
                               [] w = timer -> "until"]

MCNeeded == [w \in Waiters |-> CASE w = one -> {a, b}
                                 [] w = every -> {a, b}
                                 [] w = timer -> {}]

\* The requests are interchangeable, and so are the signals: each wait of MCNeeded
\* needs both or none.
CallSymmetry == Permutations(Calls) \cup Permutations(Signals)
===============================================================================
