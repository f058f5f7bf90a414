CONSTANTS
  KVServer = {a, b, c}
  None = None
  MaxCrashes = 1
  MaxDelays = 1
SPECIFICATION Spec
SYMMETRY ServerSymmetry
INVARIANTS TypeOK PartsApart AckedInOffice
PROPERTIES BackupSucceeds NumbersNameViews
