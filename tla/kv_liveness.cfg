CONSTANTS
  KVServer = {a, b}
  None = None
  First = a
  Second = b
  Key = {k}
  Client = {c}
  MaxOps = 1
  FaultKinds = {"crash", "delay", "timeout"}
  MaxFaults = 1
  Returning = {}
SPECIFICATION JoiningSpec
INVARIANT ConfirmedKept
PROPERTIES PrimaryServes QueuedPutsReplayed OperationsEnd
