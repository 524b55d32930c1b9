------------------------------ MODULE MCWorkspace ------------------------------
(* All sequences of at most MaxRequests requests.  Rows are interchangeable. *)
EXTENDS Workspace, Naturals, TLC
CONSTANT MaxRequests
VARIABLE requests

MCInit == Init /\ requests = 0

Request == requests < MaxRequests /\ requests' = requests + 1 /\ Next
Stop    == requests = MaxRequests /\ UNCHANGED <<vars, requests>>

MCSpec == MCInit /\ [][Request \/ Stop]_<<vars, requests>>

Symmetry == Permutations(Workflows) \union Permutations(Nodes)
=============================================================================
