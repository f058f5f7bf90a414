CONSTANTS
  N = 2
  LeaderRole = {0}
  RestartRole = {0}
  Electors = {0, 1}
  MaxTerm = 1
  MaxHeartbeats = 1
  MaxRestarts = 1
  MaxFaults = 1
  Request = {r1}
SPECIFICATION FairSpec
CHECK_DEADLOCK FALSE
INVARIANT AppliedOnce
PROPERTIES CandidaciesEnd ProposalsEnd AppliesCatchUp
