CONSTANTS
  Scopes = {s1, s2}
  Locals = {l1, l2}
  Remotes = {m1}
  Tasks = {t1, t2}
  MaxId = 3
  None = None
SPECIFICATION FairSpec
INVARIANTS Unambiguous
PROPERTIES RemovedForCause ScopeSwept
