CONSTANTS
  N = 3
  LeaderRole = {0}
  RestartRole = {}
  Electors = {}
  MaxTerm = 1
  MaxHeartbeats = 2
  MaxRestarts = 0
  MaxFaults = 0
  Request = {r1, r2}
SPECIFICATION Spec
SYMMETRY RequestSymmetry
CHECK_DEADLOCK FALSE
INVARIANT AppliedInOrder
