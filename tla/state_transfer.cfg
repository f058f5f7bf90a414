CONSTANTS
  N = 3
  LeaderRole = {0}
  RestartRole = {}
  Electors = {}
  MaxTerm = 1
  MaxHeartbeats = 1
  MaxRestarts = 0
  MaxFaults = 0
  Request = {r1}
SPECIFICATION FairSpec
CHECK_DEADLOCK FALSE
PROPERTY TransfersEnd
