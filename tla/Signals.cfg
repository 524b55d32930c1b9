SPECIFICATION Spec
CONSTANTS
  r1 = r1
  r2 = r2
  one = one
  every = every
  timer = timer
  a = a
  b = b
  Runs = {r1, r2}
  Waiters = {one, every, timer}
  RunOf <- MCRunOf
  Mode <- MCMode
  Needed <- MCNeeded
  Timed = {timer}
  Signals = {a, b}
  Calls = {c1, c2}
  MaxFanout = 2
  Rearmed = {one, every}
  Clients = {"TemporalClient", "Client"}
  LateRuns = {r2}
  LossyRuns = {r2}
SYMMETRY CallSymmetry
INVARIANTS TypeOK WakeupIsWarranted FanOutIsComplete
CHECK_DEADLOCK FALSE
