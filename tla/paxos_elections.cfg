CONSTANTS
  N = 3
  LeaderRole = {0}
  RestartRole = {}
  Electors = {0, 1}
  MaxTerm = 2
  MaxHeartbeats = 0
  MaxRestarts = 0
  MaxFaults = 0
  Request = {}
SPECIFICATION Spec
CHECK_DEADLOCK FALSE
INVARIANT PromisesKept
PROPERTIES ElectedByMajority NewBallotFresh Contract
