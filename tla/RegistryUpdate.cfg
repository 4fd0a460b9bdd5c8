SPECIFICATION Spec
CONSTANTS
  Adapter = {a1, a2}
  OpId = {o1, o2, o3}
  Tier = {t1}
  Path = {p1}
  BasePath = p1
  None = None
  Torn = Torn
  PerSecond = 2
  Time = {3, 4}
SYMMETRY Symmetric
INVARIANTS TypeOK ScopeKept TrustFalls HistoryChains ResultDated
PROPERTY RefinesCheck
CHECK_DEADLOCK FALSE
