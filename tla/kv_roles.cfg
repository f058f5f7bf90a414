CONSTANTS
  KVServer = {a, b}
  None = None
  Key = {k}
  Client = {}
  MaxOps = 0
  FaultKinds = {"crash", "delay", "timeout"}
  MaxFaults = 1
  Returning = {a, b}
SPECIFICATION Spec
INVARIANTS TypeOK UpToDate SyncingEnds
PROPERTY ImplementsPings
