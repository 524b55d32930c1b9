----------------------------- MODULE MCRunSystem -----------------------------
(* RunSystem on small instances.                                           *)
EXTENDS RunSystem, TLC

\* The requests are interchangeable: which one does what is not fixed.
RequestSymmetry == Permutations(Requests)

\* So are wait nodes that the same execution reaches.
WaitSymmetry == Permutations(FirstWaits)
=============================================================================
