CONSTANTS
  N = 3
  LeaderRole = {0}
  RestartRole = {}
  Electors = {1}
  MaxTerm = 1
  MaxHeartbeats = 0
  MaxRestarts = 0
  MaxFaults = 0
  Request = {r1}
SPECIFICATION Spec
CHECK_DEADLOCK FALSE
INVARIANT AppliedAgree
