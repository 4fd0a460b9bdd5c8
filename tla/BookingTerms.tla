----------------------------- MODULE BookingTerms -----------------------------
(***************************************************************************)
(* The terms of a booking: rates, equipment, drivers, stops, schedules and *)
(* accessorials; what the agents put into their messages, which messages   *)
(* validate_message_body lets pass, what a search finds and how a bid is   *)
(* answered. Nothing here has a state.                                     *)
(*                                                                         *)
(* Amounts are in cents, miles in hundredths, lengths in half feet, dates  *)
(* and windows are numbers. Ids, texts, places and other fields no         *)
(* decision looks at are left out; so are the spellings of all but the     *)
(* equipment class.                                                        *)
(***************************************************************************)
EXTENDS Integers, Sequences

CONSTANTS
  Absent,        \* a field that is not there
  None,          \* a field that is there, with "" or null in it
  Label,         \* values of EquipmentType
  ClassOf, SubOf, TagsOf,  \* what is inferred from a label
  Canonical,     \* EQUIPMENT_CLASS_ALIASES: spelling -> class
  SubClass, Tag, \* VALID_EQUIPMENT_SUBCLASSES, VALID_EQUIPMENT_TAGS
  Catalog        \* ACCESSORIAL_TYPE_CATALOG

ASSUME TermsAssumption ==
  /\ Absent # None /\ Absent \notin Int /\ None \notin SubClass
  /\ ClassOf \in [Label -> {Canonical[c] : c \in DOMAIN Canonical}]
  /\ SubOf \in [Label -> SubClass \cup {None}]
  /\ TagsOf \in [Label -> SUBSET Tag]
  /\ Absent \notin DOMAIN Canonical /\ None \notin DOMAIN Canonical
  /\ \A c \in DOMAIN Canonical :
       Canonical[c] \in DOMAIN Canonical /\ Canonical[Canonical[c]] = Canonical[c]
-------------------------------------------------------------------------------
(* Rates. "units" are AgreedMiles for PerMile and Quantity for the other   *)
(* models that count something.                                            *)

RateModel == {"Flat", "LaneMinimum", "PerHour", "PerPallet", "CWT", "PerMile"}
Counted == {"PerMile", "PerPallet", "CWT", "PerHour"}

FloorAmount == [Flat |-> 185000, LaneMinimum |-> 185000, PerHour |-> 9500,
                PerPallet |-> 7400, CWT |-> 475, PerMile |-> 235]
BidAmount == [Flat |-> 195000, LaneMinimum |-> 195000, PerHour |-> 11000,
              PerPallet |-> 7900, CWT |-> 510, PerMile |-> 262]
SearchMax == [Flat |-> 220000, LaneMinimum |-> 220000, PerHour |-> 14000,
              PerPallet |-> 9000, CWT |-> 600, PerMile |-> 280]
CounterStep == [Flat |-> 15000, LaneMinimum |-> 15000, PerHour |-> 800,
                PerPallet |-> 400, CWT |-> 35, PerMile |-> 16]
DefaultUnits == [Flat |-> Absent, LaneMinimum |-> Absent, PerHour |-> 6,
                 PerPallet |-> 26, CWT |-> 420, PerMile |-> 92550]

BuildRate(model, amount, units) ==
  [model |-> model, amount |-> amount,
   units |-> IF units = Absent THEN DefaultUnits[model] ELSE units]

ValidRate(r) ==
  /\ r.model \in RateModel
  /\ r.amount >= 0
  /\ r.model \in Counted => r.units # Absent /\ r.units > 0

Larger(a, b) == IF a >= b THEN a ELSE b
Delta(a, b) == IF a >= b THEN a - b ELSE b - a

(* Mutant: miles that differ are never out of tolerance.                   *)
MilesForgiven(policy, ref, cand) ==
  ref.model = "PerMile" /\ (cand.model # "PerMile" \/ Absent \in {ref.units, cand.units})

(* _per_mile_mileage_decision: must the miles be countered? The relative   *)
(* tolerance is in thousandths.                                            *)
MilesDisputed(policy, ref, cand) ==
  /\ ref.model = "PerMile"
  /\ \/ cand.model # "PerMile" \/ Absent \in {ref.units, cand.units}
     \/ LET delta == Delta(ref.units, cand.units) IN
        /\ delta > 1
        /\ policy.mode = "balanced" =>
             1000 * delta > Larger(1000 * policy.abs, ref.units * policy.rel)
-------------------------------------------------------------------------------
(* Equipment, driver, stops, schedule and accessorials of a posting.       *)

Class(p) == IF p.class \in DOMAIN Canonical THEN Canonical[p.class] ELSE ClassOf[p.label]
Sub(p) == IF p.sub \in SubClass THEN p.sub ELSE SubOf[p.label]
Tags(p) == IF p.tags \in {Absent, {}} THEN TagsOf[p.label] ELSE p.tags

(* _validate_equipment_contract, which also writes what it has found into  *)
(* the message.                                                            *)
ValidEquipment(p) ==
  /\ p.class \in {Absent, None} \cup DOMAIN Canonical
  /\ p.sub \in {Absent, None} \cup SubClass
  /\ Class(p) = "Special" => p.described

(* Mutant: what was inferred is not written into the message.              *)
Unnormalized(p) == p

Normalized(p) ==
  [p EXCEPT !.class = Class(p),
            !.sub = IF Sub(p) = None THEN @ ELSE Sub(p),
            !.tags = IF @ = Absent /\ TagsOf[p.label] # {} THEN TagsOf[p.label] ELSE @]

Driver == {"Single", "Team"}

(* _derive_stop_plan_summary.                                              *)
StopCount(p) == IF p.stops = Absent THEN 2 ELSE Len(p.stops)
StopTypes(p) == IF p.stops = Absent THEN {"Drop", "Pickup"}
                ELSE {p.stops[i] : i \in DOMAIN p.stops}
MultiStop(p) == StopCount(p) > 2

ValidStops(stops) ==
  stops = Absent \/ (Len(stops) >= 2 /\ stops[1] = "Pickup" /\ stops[Len(stops)] = "Drop")

(* Mutant: the load is delivered after the last day of its pickup.         *)
ValidAfterPickup(p) ==
  /\ p.earliest <= p.latest
  /\ IF p.delivery = Absent THEN p.deliveryWindow = Absent
     ELSE p.delivery[1] <= p.delivery[2] /\ p.delivery[2] >= p.latest

ValidSchedule(p) ==
  /\ p.earliest <= p.latest
  /\ IF p.delivery = Absent THEN p.deliveryWindow = Absent
     ELSE p.delivery[1] <= p.delivery[2] /\ p.delivery[2] >= p.earliest

ValidDetention(d) ==
  /\ d.grace >= 0 /\ d.amount > 0
  /\ d.located => d.locatedBy

ValidTerm(t) ==
  /\ t.mode \in {"Reimbursable", "PassThrough", "TBD"} => t.parties
  /\ t.evidence => t.evidencedBy
  /\ (t.type = "Detention") = (t.detention # Absent)
  /\ t.detention # Absent => ValidDetention(t.detention)

ValidPolicy(policy) ==
  \/ policy = Absent
  \/ /\ policy.types # {} /\ policy.types \subseteq Catalog
     /\ policy.max \in {Absent} \cup Nat
     /\ \A t \in policy.terms : ValidTerm(t) /\ t.type \in policy.types

(* validate_message_body of NewLoad and NewTruck, on what the form of the  *)
(* other fields leaves.                                                    *)
ValidPosting(p) ==
  /\ ValidRate(p.rate)
  /\ ValidEquipment(p)
  /\ p.driver \in {Absent} \cup Driver
  /\ p.length > 0 /\ p.count > 0
  /\ p.kind = "load" => ValidSchedule(p) /\ ValidPolicy(p.policy) /\ ValidStops(p.stops)
-------------------------------------------------------------------------------
(* Searches.                                                               *)

(* create_load_search, create_truck_search.                                *)
LoadSearch(model, lane) ==
  [lane |-> lane, label |-> "Reefer", class |-> "Reefer", sub |-> "AirRide",
   tags |-> {"AirRide"}, driver |-> "Single", shortest |-> 106, longest |-> 106,
   from |-> 2, to |-> 2, model |-> model, low |-> 0, high |-> SearchMax[model],
   multi |-> TRUE, fewest |-> 3, most |-> 6, types |-> {"Pickup", "Drop"},
   tracking |-> TRUE]
TruckSearch(model) ==
  [LoadSearch(model, "TX") EXCEPT
     !.driver = "Team", !.to = 3, !.low = FloorAmount[model],
     !.multi = FALSE, !.fewest = 2, !.most = 9999, !.tracking = FALSE]

Whole(length) == (length \div 2) * 2

(* create_load_search_for_load.                                            *)
SearchFor(p, lane) ==
  [lane |-> lane, label |-> p.label, class |-> Class(p),
   sub |-> Sub(p), tags |-> Tags(p),
   driver |-> IF p.driver = Absent THEN "Single" ELSE p.driver,
   shortest |-> Whole(p.length), longest |-> Whole(p.length),
   from |-> p.earliest, to |-> p.earliest, model |-> p.rate.model,
   low |-> 0, high |-> SearchMax[p.rate.model],
   multi |-> MultiStop(p), fewest |-> StopCount(p), most |-> StopCount(p),
   types |-> StopTypes(p), tracking |-> p.tracking]

(* validate_message_body of LoadSearch and TruckSearch: a subclass or a    *)
(* list of tags that is there must not be empty.                           *)
ValidSearch(s) ==
  /\ s.class \in {Absent} \cup DOMAIN Canonical
  /\ s.sub \in {Absent} \cup SubClass
  /\ s.tags # {}
  /\ s.driver \in {Absent} \cup Driver
  /\ 0 < s.shortest /\ s.shortest <= s.longest
  /\ s.high >= 0 /\ s.low >= 0
  /\ 2 <= s.fewest /\ s.fewest <= s.most /\ s.types # {}

(* Mutant: the longest length is excluded.                                 *)
EquipmentFitsBelow(p, s) ==
  /\ s.class # Absent => Class(p) = Canonical[s.class]
  /\ s.sub # Absent => Sub(p) = s.sub
  /\ s.tags # Absent => s.tags \subseteq Tags(p)
  /\ s.shortest <= p.length /\ p.length < s.longest

(* _equipment_matches_search_terms.                                        *)
EquipmentFits(p, s) ==
  /\ s.class # Absent => Class(p) = Canonical[s.class]
  /\ s.sub # Absent => Sub(p) = s.sub
  /\ s.tags # Absent => s.tags \subseteq Tags(p)
  /\ s.shortest <= p.length /\ p.length <= s.longest

DriverFits(p, s) == s.driver = Absent \/ p.driver = s.driver

(* search_loads, search_trucks: does the search find the posting?          *)
Found(p, s) ==
  /\ p.lane = s.lane
  /\ p.label = s.label
  /\ EquipmentFits(p, s)
  /\ DriverFits(p, s)
  /\ p.rate.model = s.model
  /\ s.low <= p.rate.amount /\ p.rate.amount <= s.high
  /\ IF p.kind = "truck" THEN s.from <= p.earliest /\ p.earliest <= s.to
     ELSE /\ p.earliest <= s.from /\ s.from <= p.latest
          /\ s.tracking => p.tracking
          /\ s.fewest <= StopCount(p) /\ StopCount(p) <= s.most
          /\ s.types \subseteq StopTypes(p)
          /\ s.multi => MultiStop(p)

(* The postings of a book that a search finds, in the book's order.        *)
Matching(book, s) ==
  LET kept[i \in 0 .. Len(book)] ==
        IF i = 0 THEN <<>>
        ELSE IF Found(book[i], s) THEN Append(kept[i - 1], book[i]) ELSE kept[i - 1]
  IN  kept[Len(book)]
-------------------------------------------------------------------------------
(* Bids.                                                                   *)

(* The terms of an agent's own bid, and of an accessorial.                 *)
ClassName == {Canonical[c] : c \in DOMAIN Canonical}
EquipmentTerm ==
  [accepted : BOOLEAN, class : ClassName, sub : SubClass \cup {None}, tags : SUBSET Tag,
   length : Int, shortest : Int, longest : Int, count : Int]
DriverTerm == [accepted : BOOLEAN, config : Driver \cup {None}]
StopsTerm == [accepted : BOOLEAN, count : Int, types : SUBSET {"Pickup", "Drop"}]
SpecialTerm == [accepted : BOOLEAN, exceptions : BOOLEAN]
ScheduleTerm == [accepted : BOOLEAN, exceptions : BOOLEAN,
                 pickup : Int \cup {Absent}, delivery : Int \cup {Absent}]
AccessorialTerm == [accepted : BOOLEAN]

DetentionTerm == [grace : Int, amount : Int, located : BOOLEAN, locatedBy : BOOLEAN]

(* Nothing that is there is Absent.                                        *)
ASSUME AbsentAssumption ==
  /\ \A tags \in SUBSET Tag : Absent # tags
  /\ Absent \notin Seq({"Pickup", "Drop"}) /\ Absent \notin Int \X Int
  /\ Absent \notin EquipmentTerm /\ Absent \notin DriverTerm /\ Absent \notin StopsTerm
  /\ Absent \notin SpecialTerm /\ Absent \notin ScheduleTerm /\ Absent \notin AccessorialTerm
  /\ Absent \notin DetentionTerm /\ Absent \notin Driver /\ Absent \notin SubClass

(* create_bid_request and create_truck_bid_request for a posting: every    *)
(* term is accepted as it was posted.                                      *)
BidFor(p, amount) ==
  [rate |-> BuildRate(p.rate.model, amount, p.rate.units),
   equipment |-> [accepted |-> TRUE, class |-> Class(p), sub |-> Sub(p), tags |-> Tags(p),
                  length |-> p.length, shortest |-> p.length, longest |-> p.length,
                  count |-> p.count],
   driver |-> [accepted |-> TRUE, config |-> IF p.driver = Absent THEN None ELSE p.driver],
   stops |-> IF p.kind = "truck" THEN Absent
             ELSE [accepted |-> TRUE, count |-> StopCount(p), types |-> StopTypes(p)],
   special |-> IF p.kind = "truck" THEN Absent
               ELSE [accepted |-> TRUE, exceptions |-> FALSE],
   schedule |-> IF p.kind = "truck" THEN Absent
                ELSE [accepted |-> TRUE, exceptions |-> FALSE,
                      pickup |-> p.pickupWindow, delivery |-> p.deliveryWindow],
   accessorial |-> IF p.kind = "truck" THEN Absent ELSE [accepted |-> TRUE]]

ValidLengths(e) ==
  /\ \A n \in {e.length, e.shortest, e.longest} \ {Absent} : n > 0
  /\ Absent \notin {e.shortest, e.longest} => e.shortest <= e.longest
  /\ Absent \notin {e.shortest, e.length} => e.shortest <= e.length
  /\ Absent \notin {e.length, e.longest} => e.length <= e.longest

(* validate_message_body of BidRequest. The class is put into the words of *)
(* the protocol; that a term is accepted is all it asks of the others.     *)
ValidBid(b) ==
  /\ ValidRate(b.rate)
  /\ b.equipment # Absent =>
       /\ b.equipment.class \in {Absent} \cup DOMAIN Canonical
       /\ b.equipment.sub \in {Absent} \cup SubClass
       /\ b.equipment.count = Absent \/ b.equipment.count > 0
       /\ ValidLengths(b.equipment)
  /\ b.driver # Absent => b.driver.config \in {Absent} \cup Driver
  /\ b.stops # Absent =>
       /\ b.stops.count = Absent \/ b.stops.count >= 2
       /\ b.stops.types # {}

(* Lengths agree when they differ by less than the half foot that is       *)
(* counted here. A single length says nothing beside a range.              *)
LengthDiffers(p, a) ==
  IF a.shortest = Absent /\ a.longest = Absent
  THEN a.length # Absent /\ a.length # p.length
  ELSE \/ a.shortest # Absent /\ p.length < a.shortest
       \/ a.longest # Absent /\ p.length > a.longest

(* _equipment_acceptance_mismatch.                                         *)
EquipmentDisputed(p, a) ==
  \/ a = Absent \/ ~a.accepted
  \/ a.class # Absent /\ Canonical[a.class] # Class(p)
  \/ a.sub # Absent /\ Sub(p) # None /\ a.sub # Sub(p)
  \/ a.tags # {} /\ ~(Tags(p) \subseteq a.tags)
  \/ LengthDiffers(p, a)
  \/ a.count # Absent /\ a.count # p.count

DriverDisputed(p, a) ==
  p.driver # Absent /\ (a = Absent \/ ~a.accepted \/ a.config # p.driver)

StopsDisputed(p, a) ==
  /\ a # Absent
  /\ \/ ~a.accepted
     \/ a.count \notin {Absent, StopCount(p)}
     \/ a.types \notin {Absent, StopTypes(p)}

SpecialDisputed(p, a) == p.special /\ (a = Absent \/ ~a.accepted \/ a.exceptions)

WindowDiffers(mine, theirs) == Absent \notin {mine, theirs} /\ mine # theirs

ScheduleDisputed(p, a) ==
  /\ p.delivery # Absent \/ p.pickupWindow # Absent \/ p.deliveryWindow # Absent
  /\ \/ a = Absent \/ ~a.accepted \/ a.exceptions
     \/ WindowDiffers(p.pickupWindow, a.pickup)
     \/ WindowDiffers(p.deliveryWindow, a.delivery)

Disputed(policy, p, b) ==
  \/ EquipmentDisputed(p, b.equipment)
  \/ DriverDisputed(p, b.driver)
  \/ p.kind = "load" /\ (\/ StopsDisputed(p, b.stops)
                         \/ SpecialDisputed(p, b.special)
                         \/ ScheduleDisputed(p, b.schedule))
  \/ MilesDisputed(policy, p.rate, b.rate)

(* Mutant: the counter leaves the posting's miles out.                     *)
CounterWithoutMiles(p) ==
  BuildRate(p.rate.model, p.rate.amount + CounterStep[p.rate.model], Absent)

(* The counter takes over the posting's miles; a quantity it does not.     *)
CounterRate(p) ==
  BuildRate(p.rate.model, p.rate.amount + CounterStep[p.rate.model],
            IF p.rate.model = "PerMile" THEN p.rate.units ELSE Absent)

(* respond_to_bid, respond_to_truck_bid. The reasons it gives are left     *)
(* out, and with them the order in which disputes are looked for. Whether  *)
(* the bid accepts the accessorial policy is not looked at.                *)
Answer(policy, p, b, forced) ==
  IF b.rate.model # p.rate.model \/ forced = "Reject" THEN [type |-> "Reject"]
  ELSE IF forced = "Counter" THEN [type |-> "Counter", rate |-> CounterRate(p)]
  ELSE IF b.rate.amount < p.rate.amount THEN [type |-> "Reject"]
  ELSE IF Disputed(policy, p, b) THEN [type |-> "Counter", rate |-> CounterRate(p)]
  ELSE [type |-> "Accept"]

ValidAnswer(a) == a.type = "Counter" => ValidRate(a.rate)
-------------------------------------------------------------------------------
(* create_execution_report, create_truck_execution_report: the terms of    *)
(* the posting at the rate of the bid. The description of a special        *)
(* trailer is not taken over.                                              *)
ReportOf(p, b) ==
  [posting |-> p, rate |-> b.rate, described |-> FALSE, claims |-> <<>>]

(* validate_message_body of ExecutionReport. A load's report lists special *)
(* instructions even if there are none, and an empty list is refused.      *)
ValidReport(r) ==
  /\ ValidRate(r.rate)
  /\ ValidEquipment([r.posting EXCEPT !.class = Class(r.posting), !.described = r.described])
  /\ r.posting.kind = "load" =>
       r.posting.special /\ ValidSchedule(r.posting) /\ ValidPolicy(r.posting.policy)
===============================================================================
