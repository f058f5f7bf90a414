CONSTANTS
  KVServer = {a, b}
  None = None
  First = a
  Second = b
  Key = {k}
  Client = {c}
  MaxOps = 1
  FaultKinds = {}
  MaxFaults = 0
  Returning = {}
SPECIFICATION JoiningSpec
INVARIANT BackupHasConfirmed
