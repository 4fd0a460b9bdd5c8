SPECIFICATION Spec
CONSTANTS
  Adapter = {a1}
  OpId = {o1, o2, o3}
  Tier = {t1, t2}
  Path = {p1}
  BasePath = p1
  None = None
  Torn = Torn
  PerSecond = 2
  Time = {3, 4}
PROPERTY RevokedNeedsRollback
CHECK_DEADLOCK FALSE
