CONSTANTS
  Origins = {o1}
  Tasks = {t1, t2, t3}
  Interval = 1
  Ticks = 2
  Slack = 1
  None = None
  Done = Done
SPECIFICATION FairSpec
INVARIANTS OriginsConsistent LeftBehindEnds
PROPERTIES Revoked HandlersReturn OwnerKept
CHECK_DEADLOCK FALSE
