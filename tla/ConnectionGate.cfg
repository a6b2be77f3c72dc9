CONSTANTS
  Conns = {c1, c2}
  Keys = {k1, k2}
  CaptureKeys = {k1}
  MaxConnections = 2
  PerTunnel = 1
  NoKey = NoKey
  Nobody = Nobody
SPECIFICATION FairSpec
INVARIANTS PermitsExact AuditedBeforeRelease
PROPERTIES ImplementsAdmission ClosedDrains
