CONSTANTS
  KVServer = {a, b}
  None = None
  MaxCrashes = 1
  MaxDelays = 1
SPECIFICATION FairSpec
PROPERTIES DeadPrimaryLeaves BackupIsFound
