\* Two threads of one process on an sqlite file that forgets old claims.
CONSTANTS
  i1 = i1
  i2 = i2
  t1 = t1
  t2 = t2
  Instance = {i1}
  Embedded = {}
  Thread = {t1, t2}
  Home <- TwoThreads
  Offset <- OneClock
  Drift = 0
  Envelope <- Reuse
  MessageTTL = 1
  MaxClockSkew = 0
  Retention = 2
  Stall = 1
  CacheCap = 1
  Backend = "sqlite_local"
  NonLocal = FALSE
  AllowBootstrap = FALSE
  MaxNow = 3
SPECIFICATION Spec
SYMMETRY Symmetric
INVARIANTS AcceptedOnce ReuseSpaced RefusalHonest
CHECK_DEADLOCK FALSE
