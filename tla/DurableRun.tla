----------------------------- MODULE DurableRun -----------------------------
(***************************************************************************)
(* What a run promises to the author of a graph with wait nodes, whatever  *)
(* crashes, retries, pauses and cancellations do underneath: it executes   *)
(* its graph, may be suspended at the wait nodes in Waits, goes on once    *)
(* after all of them have heard a signal, and ends for good.               *)
(***************************************************************************)
CONSTANT Waits  \* the wait nodes the run may be suspended at

VARIABLES phase, \* how far the run has come
          heard  \* wait nodes a signal has been delivered for

Phases == {"new", "executing", "suspended", "resumed", "ended"}

Init == phase = "new" /\ heard = {}

Begin == phase = "new" /\ phase' = "executing" /\ UNCHANGED heard

Suspend == phase = "executing" /\ phase' = "suspended" /\ UNCHANGED heard

Hear == /\ phase \notin {"new", "ended"}
        /\ heard \subseteq heard'
        /\ UNCHANGED phase

\* The promise: no resumption before every wait has heard its signal.
Resume == /\ phase = "suspended"
          /\ Waits \subseteq heard
          /\ phase' = "resumed"
          /\ UNCHANGED heard

End == phase \notin {"new", "ended"} /\ phase' = "ended" /\ UNCHANGED heard

Next == Begin \/ Suspend \/ Hear \/ Resume \/ End

Spec == Init /\ [][Next]_<<phase, heard>>
=============================================================================
