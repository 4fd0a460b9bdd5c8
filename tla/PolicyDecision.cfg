\* The shipped profiles and one more, local and non-local settings.
CONSTANTS
  Config <- Configs
  Profile <- AllProfiles
  Capability <- Capabilities
  None = None
SPECIFICATION Spec
INVARIANTS TypeOK DeliveredAsNegotiated NegativeIsFinal OnlyAdaptersTrusted
INVARIANTS ApprovalNeverOpens EscalationReachesHuman RiskNeverLoosens
CHECK_DEADLOCK FALSE
