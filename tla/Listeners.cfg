CONSTANTS
    a = a
    b = b
    q1 = q1
    Events = {a, b}
    Edited = {a}
    Queues = {q1}
    Slots = {1, 2}
    MaxMessages = 2
SPECIFICATION Spec
INVARIANTS
    HandledInOrder
    NoOrphanListener
    StopIsComplete
PROPERTIES
    ListenersReconcile
