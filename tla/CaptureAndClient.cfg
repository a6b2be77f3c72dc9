CONSTANTS
  MaxBytes = 5
  Capacity = 2
  ChunkSize = 2
  MaxMessages = 4
  MaxLength = 3
  Nothing = Nothing
  Remotes = {m1}
  MaxCalls = 2
  SyncEvery = 2
  Retries = 1
  MaxEvents = 4
  MaxLost = 1
  Absent = Absent
  Failed = Failed
SPECIFICATION BothSpec
INVARIANTS CapturedIsAccepted TruncationTold AuditFindsWholeFile CacheExact PolledUnlessCrossed
PROPERTIES FinishReturns Settles
CHECK_DEADLOCK FALSE
