SPECIFICATION Spec
CONSTANTS
  r1 = r1
  r2 = r2
  one = one
  every = every
  timer = timer
  a = a
  b = b
  Runs = {r1, r2}
  Waiters = {one, every, timer}
  RunOf <- MCRunOf
  Mode <- MCMode
  Needed <- MCNeeded
  Timed = {timer}
  Signals = {a, b}
  Calls = {c1, c2}
  MaxFanout = 2
  Rearmed = {}
  Clients = {"Client", "None"}
  LateRuns = {}
  LossyRuns = {}
SYMMETRY CallSymmetry
INVARIANTS NoSignalSwallowed
CHECK_DEADLOCK FALSE
