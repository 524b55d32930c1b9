CONSTANTS
    N = 3
    Graphs <- ShapeGraphs
    IterNodes = {2}
    SubNodes = {3}
    MaxItems = 2
    MaxFaults = 2
    MaxCrashes = 1
    MaxResumes = 1
SPECIFICATION Spec
INVARIANTS
    WalkIsComplete
    ChildRowsEnd
    OutputNamesSuccess
PROPERTIES
    UpstreamFirst
    WalkEnds
