CONSTANTS
    m = m
    n = n
    NoNode = NoNode
    Nodes = {m, n}
    MaxFaults = 1
    MaxCrashes = 1
SPECIFICATION Spec
INVARIANTS
    ContainersAreRemoved
    FinishedShowsNoneRunning
    CancelledLogsAreReal
PROPERTIES
    SuccessMeansExit
    SuperstepEnds
