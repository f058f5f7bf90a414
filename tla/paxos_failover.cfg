CONSTANTS
  N = 3
  LeaderRole = {0}
  RestartRole = {}
  Electors = {1}
  MaxTerm = 1
  MaxHeartbeats = 0
  MaxRestarts = 1
  MaxFaults = 1
  Request = {r1}
SPECIFICATION Spec
CHECK_DEADLOCK FALSE
INVARIANTS TypeOK PromisesKept CommitsAreChosen AcceptedSlotsDurable PromisesReport
           ElectionsFindCommits
PROPERTY Contract
