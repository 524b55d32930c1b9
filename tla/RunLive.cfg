SPECIFICATION FairSpec
CONSTANTS
  w1 = w1
  q1 = q1
  q2 = q2
  WaitNodes = {w1}
  FirstWaits = {w1}
  LaterWaits = {}
  WaitTimeouts = TRUE
  Supersteps = 1
  Faults = {"raise", "rpc", "redis"}
  Requests = {q1, q2}
  RequestOps = {"cancel", "pause"}
INVARIANTS TypeOK CompletedKeepsOutputs
PROPERTIES CancelEndsWorkflow UnheldRunEnds
CHECK_DEADLOCK FALSE
