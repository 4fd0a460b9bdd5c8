\* Two evaluations that may overlap, under the profile that is shipped.
CONSTANTS
  Evaluator = {e1, e2}
  Snapshot <- Snapshots
  Missing = Missing
  Invalid = Invalid
  Profile <- Shipped
  Required = 4
  MaxWindow = 3
  Strict = TRUE
  Grain = 2
  Absent = Absent
  Torn = Torn
SPECIFICATION Spec
INVARIANTS TypeOK NotHeldLonger WorseNeverMilder
PROPERTIES NoEarlyClear Recovers
