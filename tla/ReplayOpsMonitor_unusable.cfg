\* What REPLAY_SLO_ALERTING.md says of snapshots that cannot be used.
CONSTANTS
  Evaluator = {e1, e2}
  Snapshot <- Snapshots
  Missing = Missing
  Invalid = Invalid
  Profile <- Shipped
  Required = 4
  MaxWindow = 3
  Strict = TRUE
  Grain = 2
  Absent = Absent
  Torn = Torn
SPECIFICATION Spec
INVARIANT UnusableIsCritical
