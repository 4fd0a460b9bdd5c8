\* What RFC-v0.3-shipper-orchestration-minimal.md says of the shipper's flow.
CONSTANTS
  Absent = Absent
  None = None
  Label <- Labels
  ClassOf <- Classes
  SubOf <- Subs
  TagsOf <- TagsIn
  Canonical <- Spellings
  SubClass = {"AirRide", "Hotshot"}
  Tag = {"AirRide", "HazmatCapable"}
  Catalog <- AccessorialTypes
  Models <- AllModels
  Tenders <- ShipperTenders
  Mileage <- Policies
  Offered <- Bids
  Distances <- OtherMiles
  Amounts = {10000, 25000}
  MaxClaims = 2
SPECIFICATION Spec
INVARIANT TenderIsHeard
