CONSTANTS
  Conns = {c1, c2, c3}
  NoFile = NoFile
  Retention = 0
  MaxTotal = 2
  RotateAt = 1
  MaxSize = 2
  MaxFiles = 2
  MaxNow = 1
  MaxCrashes = 1
SPECIFICATION FilesSpec
SYMMETRY ConnSymmetry
INVARIANT AuditKept
PROPERTY RemovedForLimit
