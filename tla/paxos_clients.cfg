CONSTANTS
  N = 2
  LeaderRole = {0}
  RestartRole = {}
  Electors = {1}
  MaxTerm = 1
  MaxHeartbeats = 0
  MaxRestarts = 1
  MaxFaults = 0
  Client = {c}
  Putters = {c}
  Deleters = {c}
  Key = {k}
  Value = {v, none}
  NoValue = none
  MaxGiveUps = 1
  Op <- Ops
  Request <- Requests
SPECIFICATION ClientSpec
CHECK_DEADLOCK FALSE
INVARIANTS ClientTypeOK CommitsAreChosen OKMeansChosen StoreIsLastWrite
