\* The three ways in which the runtime is hosted.
CONSTANTS
  s1 = s1
  s2 = s2
  Session <- Sessions
  Host <- Hosts
  Plan <- FullPlan
  NoId = NoId
  FreshId = FreshId
SPECIFICATION Spec
INVARIANTS TypeOK RunUndisturbed StatusHonest
PROPERTIES BookingIsVetted RunEnds
CHECK_DEADLOCK FALSE
