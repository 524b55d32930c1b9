SPECIFICATION Spec
CONSTANTS
  w1 = w1
  w2 = w2
  w3 = w3
  q1 = q1
  WaitNodes = {w1, w2, w3}
  FirstWaits = {w1, w2}
  LaterWaits = {w3}
  WaitTimeouts = FALSE
  Supersteps = 1
  Faults = {"db", "shutdown", "timeout", "node"}
  Requests = {q1}
  RequestOps = {"cancel"}
SYMMETRY WaitSymmetry
INVARIANTS ResumeNeedsEverySignal SuccessIsEarned
PROPERTIES ImplementsDurableRun OutputsSurvive
CHECK_DEADLOCK FALSE
