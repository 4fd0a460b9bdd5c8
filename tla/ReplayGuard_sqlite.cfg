\* Two processes on one sqlite file, no bootstrap allowed.
CONSTANTS
  i1 = i1
  i2 = i2
  t1 = t1
  t2 = t2
  Instance = {i1, i2}
  Embedded = {}
  Thread = {t1, t2}
  Home <- TwoProcesses
  Offset <- DriftedClocks
  Drift = 0
  Envelope <- Clash
  MessageTTL = 1
  MaxClockSkew = 0
  Retention = 2
  Stall = 1
  CacheCap = 1
  Backend = "sqlite_local"
  NonLocal = FALSE
  AllowBootstrap = FALSE
  MaxNow = 2
SPECIFICATION Spec
INVARIANTS TypeOK RebuildNeedsConsent ClaimsArePairs
PROPERTIES ValidationEnds
CHECK_DEADLOCK FALSE
