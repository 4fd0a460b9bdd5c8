\* A process and a host that imports the runtime, on one Redis server, whose clocks differ by a second.
CONSTANTS
  i1 = i1
  i2 = i2
  t1 = t1
  t2 = t2
  Instance = {i1, i2}
  Embedded = {i2}
  Thread = {t1, t2}
  Home <- TwoProcesses
  Offset <- DriftedClocks
  Drift = 1
  Envelope <- SkewedReuse
  MessageTTL = 1
  MaxClockSkew = 1
  Retention = 5
  Stall = 1
  CacheCap = 1
  Backend = "redis_shared"
  NonLocal = TRUE
  AllowBootstrap = FALSE
  MaxNow = 5
SPECIFICATION Spec
PROPERTIES RefinesContract
