-------------------------- MODULE MCTermsNegotiation --------------------------
(* Values for the constants of TermsNegotiation.                            *)
EXTENDS TermsNegotiation, TLC

(* A few rows of the tables EQUIPMENT_*_ALIASES and what                    *)
(* _infer_equipment_*_from_type finds in these labels.                      *)
Labels == {"Reefer", "DryVan", "Van - Air-Ride", "Zeppelin"}
Classes == ("Reefer" :> "Reefer" @@ "DryVan" :> "Van" @@
            "Van - Air-Ride" :> "Van" @@ "Zeppelin" :> "Special")
Subs == [l \in Labels |-> IF l = "Van - Air-Ride" THEN "AirRide" ELSE None]
TagsIn == [l \in Labels |-> IF l = "Van - Air-Ride" THEN {"AirRide"} ELSE {}]
Spellings == ("Reefer" :> "Reefer" @@ "Van" :> "Van" @@ "Dry Van" :> "Van" @@
              "Special" :> "Special")
AccessorialTypes == {"UnloadingFee", "OverweightPermit", "EscortVehicle", "Detention",
                     "Layover", "LumperFee"}

Strict == [mode |-> "strict", abs |-> 2500, rel |-> 20]
Balanced == [mode |-> "balanced", abs |-> 2500, rel |-> 20]
Policies == {Strict, Balanced}

(* Miles that are 20 more and 30 less than the default, within the absolute *)
(* tolerance and outside it, and 31 less than those of the long haul, which *)
(* only the relative tolerance allows.                                      *)
OtherMiles == {92550 + 2000, 92550 - 3000, 160000 - 3100}

(* The default, and an amount one step under every floor.                   *)
Bids(model) == {BidAmount[model], FloorAmount[model] - 25}

AllModels == {"Flat", "PerMile"}

(* A load that says everything there is to say, and others that miss, or    *)
(* get wrong, one thing.                                                    *)
Full == [LoadPosting("PerMile") EXCEPT !.lane = "IL-TN"]
ShipperTenders ==
  { DefaultTender,
    Full,
    [Full EXCEPT !.rate = BuildRate("PerMile", 235, 160000)],
    [Full EXCEPT !.rate = BuildRate("CWT", 475, 300)],
    [Full EXCEPT !.rate = BuildRate("PerHour", 15000, 4)],
    [Full EXCEPT !.label = "Van - Air-Ride", !.class = Absent, !.sub = Absent, !.tags = Absent],
    [Full EXCEPT !.label = "DryVan", !.class = "Dry Van"],
    [Full EXCEPT !.label = "Zeppelin", !.class = "Special", !.described = TRUE],
    [Full EXCEPT !.label = "Zeppelin", !.class = Absent],
    [Full EXCEPT !.driver = Absent],
    [Full EXCEPT !.length = 107],
    [Full EXCEPT !.special = FALSE],
    [Full EXCEPT !.policy = Absent],
    [Full EXCEPT !.policy = [StandardPolicy EXCEPT !.max = 0]],
    [Full EXCEPT !.policy = [StandardPolicy EXCEPT !.types = {"UnloadingFee"}]],
    [Full EXCEPT !.stops = Absent, !.latest = 6],
    [Full EXCEPT !.stops = <<"Drop", "Pickup">>],
    [Full EXCEPT !.delivery = <<1, 1>>] }

ASSUME SensibleAssumption == Sensible
===============================================================================
