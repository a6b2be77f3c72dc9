CONSTANTS
  MaxLogs = 2
  Port = 3307
  Closed = Closed
  MaxLines = 3
  MaxChanges = 2
  MaxPopups = 1
  MaxQueue = 3
SPECIFICATION FairPumpSpec
INVARIANTS ViewCurrent LogsInOrder
PROPERTY PopupShows
CHECK_DEADLOCK FALSE
