SPECIFICATION Spec
CONSTANTS
  q1 = q1
  q2 = q2
  q3 = q3
  q4 = q4
  WaitNodes = {}
  FirstWaits = {}
  LaterWaits = {}
  WaitTimeouts = FALSE
  Supersteps = 2
  Faults = {}
  Requests = {q1, q2, q3, q4}
  RequestOps = {"cancel", "pause", "resume"}
SYMMETRY RequestSymmetry
INVARIANTS PauseHaltsAtNextChunk NoStuckRun HeldRunNotRunning
CHECK_DEADLOCK FALSE
