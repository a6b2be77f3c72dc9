CONSTANTS
  Scopes = {s1, s2}
  Infos = {i1, i2}
  Unwritable = {i2}
  Pages = {p1, p2}
  Users = {u1}
  None = None
  Blank = Blank
  Torn = Torn
  MaxStarts = 2
  MaxCrashes = 1
  Absent = Absent
  Truncated = Truncated
SPECIFICATION BothSpec
INVARIANTS ScopesOnDisk AllowedWasApproved OneInstance
PROPERTY StartShows
CHECK_DEADLOCK FALSE
