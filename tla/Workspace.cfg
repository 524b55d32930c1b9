CONSTANTS
    Workflows = {w1, w2, w3}
    Nodes = {n1, n2, n3, n4}
    Templates = {t1}
    None = None
    MaxRequests = 6
SPECIFICATION MCSpec
SYMMETRY Symmetry
INVARIANTS
    Integrity
PROPERTIES
    ReferenceClosesNoCycle
