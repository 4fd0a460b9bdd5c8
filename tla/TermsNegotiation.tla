--------------------------- MODULE TermsNegotiation ---------------------------
(***************************************************************************)
(* What a booking flow agrees on: run_load_flow, run_shipper_load_flow and *)
(* run_truck_flow (main() runs them in this order with the same agents),   *)
(* run_flow of streamlit_app.py (new agents every time) and the            *)
(* accessorial claims on the load it has booked. One flow is under way at  *)
(* a time; of the other sessions only what they do to the mileage policy,  *)
(* which is the process's, is here. BookingSessions has the rest.          *)
(*                                                                         *)
(* A message is validated by its receiver when it is sent. Whether         *)
(* envelopes are signed is a setting of the process.                       *)
(***************************************************************************)
EXTENDS BookingTerms, Functions

CONSTANTS
  Models,      \* rate models the user may choose
  Tenders,     \* NewLoad messages of a shipper
  Mileage,     \* settings of configure_mileage_dispute_policy
  Offered(_),  \* the amounts that may be bid, by rate model
  Distances,   \* agreed miles other carriers may put into a bid
  Amounts,     \* amounts that may be claimed
  MaxClaims    \* bound: claims on one load

RateRecord == [model : RateModel, amount : Int, units : Int \cup {Absent}]

(* What a shipper may tender: the class, the subclass, the driver and the  *)
(* policy are what the validation of a posting looks at.                   *)
Tender ==
  [kind : {"load"}, rate : RateRecord, label : Label,
   class : {p.class : p \in Tenders}, sub : {p.sub : p \in Tenders},
   tags : (SUBSET Tag) \cup {Absent}, described : BOOLEAN, length : Int, count : Int,
   driver : {p.driver : p \in Tenders}, lane : {p.lane : p \in Tenders},
   earliest : Int, latest : Int,
   delivery : (Int \X Int) \cup {Absent},
   pickupWindow : Int \cup {Absent}, deliveryWindow : Int \cup {Absent},
   stops : Seq({"Pickup", "Drop"}) \cup {Absent}, special : BOOLEAN,
   policy : {p.policy : p \in Tenders}, tracking : BOOLEAN]

ASSUME NegotiationAssumption ==
  /\ Models \subseteq RateModel
  /\ Tenders \subseteq Tender
  /\ Mileage \subseteq [mode : {"strict", "balanced"}, abs : Nat, rel : Nat]
  /\ \A m \in RateModel : Offered(m) \subseteq Int
  /\ Distances \subseteq Int /\ Amounts \subseteq Nat /\ MaxClaims \in Nat
  /\ {"Reefer", "DryVan"} \subseteq Label /\ "AirRide" \in SubClass \cap Tag
  /\ "Reefer" \in DOMAIN Canonical /\ Canonical["Reefer"] = "Reefer"
  /\ {"UnloadingFee", "OverweightPermit", "EscortVehicle", "Detention"} \subseteq Catalog

(* Tenders in the words of the protocol, of a size; no bid below nothing.  *)
Sensible ==
  /\ \A p \in Tenders :
       /\ p.class \in {Absent, None} \cup DOMAIN Canonical
       /\ p.sub \in {Absent, None} \cup SubClass
       /\ p.driver \in {Absent} \cup Driver
       /\ p.length > 0 /\ p.count > 0
  /\ \A m \in RateModel : Offered(m) \subseteq Nat
  /\ Distances \subseteq Nat \ {0}

VARIABLES
  signed,   \* are envelopes signed?
  mileage,  \* RUNTIME_MILEAGE_POLICY
  stage,    \* where the flow is
  kind,     \* the flow, or the one that ran last
  loads, trucks,  \* the broker's load book, the carrier's trucks
  own,      \* the posting of this flow, as it was sent
  search,   \* the filters that were sent
  found,    \* what they matched
  chosen,   \* the posting that is bid for
  bid, answer, report,
  inForce,  \* history: the mileage policy under which the bid was answered
  refused   \* the message that was refused

flowVars == <<kind, loads, trucks, own, search, found, chosen, bid, answer, report, inForce>>
vars == <<signed, mileage, stage, flowVars, refused>>

Init ==
  /\ signed \in BOOLEAN
  /\ mileage \in Mileage
  /\ stage = "idle" /\ kind = "none"
  /\ loads = <<>> /\ trucks = <<>>
  /\ own = Absent /\ search = Absent /\ found = <<>> /\ chosen = Absent
  /\ bid = Absent /\ answer = Absent /\ report = Absent
  /\ inForce = Absent /\ refused = "none"
-------------------------------------------------------------------------------
(* Postings.                                                               *)

TermOf(type, mode, evidence) ==
  [type |-> type, mode |-> mode, parties |-> TRUE, evidence |-> evidence,
   evidencedBy |-> evidence, detention |-> Absent]

(* The accessorial policy of the agents' own loads.                        *)
StandardPolicy ==
  [types |-> {"UnloadingFee", "OverweightPermit", "EscortVehicle", "Detention"},
   max |-> 30000,
   terms |-> {TermOf("UnloadingFee", "Reimbursable", TRUE),
              TermOf("OverweightPermit", "PassThrough", TRUE),
              TermOf("EscortVehicle", "TBD", TRUE),
              [TermOf("Detention", "Reimbursable", FALSE) EXCEPT
                 !.detention = [grace |-> 120, amount |-> 2500,
                                located |-> TRUE, locatedBy |-> TRUE]]}]

ASSUME PolicyAssumption == StandardPolicy # Absent

(* post_new_load.                                                          *)
LoadPosting(model) ==
  [kind |-> "load", rate |-> BuildRate(model, FloorAmount[model], Absent),
   label |-> "Reefer", class |-> "Reefer", sub |-> "AirRide", tags |-> {"AirRide"},
   described |-> FALSE, length |-> 106, count |-> 1, driver |-> "Single",
   lane |-> "TX-GA", earliest |-> 2, latest |-> 3, delivery |-> <<4, 5>>,
   pickupWindow |-> 1, deliveryWindow |-> 2, stops |-> <<"Pickup", "Pickup", "Drop">>,
   special |-> TRUE, policy |-> StandardPolicy, tracking |-> TRUE]

(* post_tender: no subclass, tags, stops or special instructions.          *)
DefaultTender ==
  [LoadPosting("PerMile") EXCEPT
     !.rate = BuildRate("PerMile", 215, Absent), !.label = "DryVan", !.class = "Van",
     !.sub = Absent, !.tags = Absent, !.lane = "IL-TN", !.earliest = 3, !.latest = 4,
     !.delivery = Absent, !.pickupWindow = Absent, !.deliveryWindow = Absent,
     !.stops = Absent, !.special = FALSE]

(* post_new_truck. A truck is available on one day, in one state.          *)
TruckPosting(model) ==
  [LoadPosting(model) EXCEPT
     !.kind = "truck", !.driver = "Team", !.lane = "TX", !.latest = 2,
     !.delivery = Absent, !.pickupWindow = Absent, !.deliveryWindow = Absent,
     !.stops = Absent, !.special = FALSE, !.policy = Absent, !.tracking = FALSE]

Postings(k) ==
  CASE k = "load" -> {LoadPosting(m) : m \in Models}
    [] k = "shipper" -> Tenders
    [] k = "truck" -> {TruckPosting(m) : m \in Models}

(* validate_envelope: the body is normalised before the signature is       *)
(* verified over it.                                                       *)
Heard(p) == ValidPosting(p) /\ (signed => Normalized(p) = p)

(* The receiver refuses a message: the flow is over.                       *)
Refuse(message) ==
  /\ stage' = "over"
  /\ refused' = message

(* main() runs the flows in this order; a browser session runs one of the  *)
(* first two.                                                              *)
Later == [none |-> {"load", "shipper"}, load |-> {"shipper", "truck"},
          shipper |-> {"truck"}, truck |-> {}]

(* The posting is sent; the broker takes a tender into its book only when  *)
(* it is valid, its own load and the carrier's truck are in theirs before. *)
Post(k, p) ==
  /\ stage = "idle"
  /\ k \in Later[kind]
  /\ p \in Postings(k)
  /\ kind' = k
  /\ own' = p
  /\ loads' = IF k = "load" \/ (k = "shipper" /\ Heard(p))
              THEN Append(loads, Normalized(p)) ELSE loads
  /\ trucks' = IF k = "truck" THEN Append(trucks, Normalized(p)) ELSE trucks
  /\ IF Heard(p) THEN stage' = "search" /\ UNCHANGED refused ELSE Refuse("New")
  /\ UNCHANGED <<signed, mileage, search, found, chosen, bid, answer, report, inForce>>

(* The filters of the flow; "no match" asks for another destination.       *)
Filters(noMatch) ==
  CASE kind = "load" -> LoadSearch(own.rate.model, IF noMatch THEN "TX-FL" ELSE "TX-GA")
    [] kind = "shipper" -> SearchFor(Normalized(own), IF noMatch THEN "elsewhere" ELSE own.lane)
    [] kind = "truck" -> TruckSearch(own.rate.model)

Book == IF kind = "truck" THEN trucks ELSE loads

Search(noMatch) ==
  LET s == Filters(noMatch)
      matches == Matching(Book, s)
  IN
  /\ stage = "search"
  /\ IF ~ValidSearch(s)
     THEN Refuse("Search") /\ UNCHANGED <<search, found, chosen>>
     ELSE /\ search' = s /\ found' = matches
          /\ IF matches = <<>>
             THEN stage' = "over" /\ UNCHANGED chosen
             ELSE /\ stage' = "bid"
                  /\ chosen' = IF kind = "shipper" /\ Normalized(own) \in Range(matches)
                               THEN Normalized(own) ELSE matches[1]
          /\ UNCHANGED refused
  /\ UNCHANGED <<signed, mileage, kind, loads, trucks, own, bid, answer, report, inForce>>
-------------------------------------------------------------------------------
(* Bids as other implementations may send them: other miles, or one term   *)
(* that is not answered, not accepted, or in which something else is named, *)
(* or less than the agents' own bids name.                                 *)
Terms == {"equipment", "driver", "stops", "special", "schedule", "accessorial"}

OtherEquipment(a) ==
  {[a EXCEPT !.class = c] : c \in ClassName \cup {Absent}}
    \cup {[a EXCEPT !.sub = s] : s \in SubClass \cup {Absent}}
    \cup {[a EXCEPT !.tags = t] : t \in SUBSET Tag}
    \cup {[a EXCEPT !.count = n] : n \in {Absent, a.count + 1}}
    \cup {[a EXCEPT !.length = n, !.shortest = n, !.longest = n] : n \in {1, a.length + 1}}
    \cup {[a EXCEPT !.shortest = m, !.longest = n] : m \in {1, Absent}, n \in {a.length + 1, Absent}}
    \cup {[a EXCEPT !.length = n, !.shortest = Absent, !.longest = Absent] :
             n \in {a.length + 1, Absent}}

OtherStops(a) ==
  {[a EXCEPT !.count = n] : n \in {Absent, a.count + 1}}
    \cup {[a EXCEPT !.types = s] : s \in {Absent, {"Pickup"}, {"Drop"}, {"Pickup", "Drop"}}}

(* Another window than the posting's is window 0.                          *)
OtherSchedule(a) ==
  {[a EXCEPT !.exceptions = TRUE]}
    \cup {[a EXCEPT !.pickup = w] : w \in {Absent, 0}}
    \cup {[a EXCEPT !.delivery = w] : w \in {Absent, 0}}

OtherNames(t, a) ==
  CASE t = "equipment" -> OtherEquipment(a)
    [] t = "driver" -> {[a EXCEPT !.config = d] : d \in Driver \cup {Absent}}
    [] t = "stops" -> OtherStops(a)
    [] t = "special" -> {[a EXCEPT !.exceptions = TRUE]}
    [] t = "schedule" -> OtherSchedule(a)
    [] t = "accessorial" -> {}

OtherTerms(t, a) ==
  {Absent} \cup IF a = Absent THEN {}
                ELSE {[a EXCEPT !.accepted = FALSE]} \cup OtherNames(t, a)

Variants(b) ==
  {[b EXCEPT !.rate.units = u] : u \in IF b.rate.model = "PerMile" THEN Distances ELSE {}}
    \cup UNION {{[b EXCEPT ![t] = a] : a \in OtherTerms(t, b[t])} : t \in Terms}

Bid ==
  /\ stage = "bid"
  /\ \E amount \in Offered(chosen.rate.model) :
       bid' \in {BidFor(chosen, amount)} \cup Variants(BidFor(chosen, amount))
  /\ search' = Absent /\ found' = <<>>
  /\ IF ValidBid(bid') THEN stage' = "answer" /\ UNCHANGED refused ELSE Refuse("BidRequest")
  /\ UNCHANGED <<signed, mileage, kind, loads, trucks, own, chosen, answer, report, inForce>>

(* Another session starts a flow with settings of its own.                 *)
Configure(m) ==
  /\ stage = "answer"
  /\ mileage' = m
  /\ UNCHANGED <<signed, stage, flowVars, refused>>

(* The truck flow asks for no other response.                              *)
Respond(forced) ==
  LET a == Answer(mileage, chosen, bid, forced) IN
  /\ stage = "answer"
  /\ kind = "truck" => forced = "Accept"
  /\ answer' = a
  /\ inForce' = mileage
  /\ IF ValidAnswer(a)
     THEN stage' = (IF a.type = "Accept" THEN "book" ELSE "over") /\ UNCHANGED refused
     ELSE Refuse("BidResponse")
  /\ UNCHANGED <<signed, mileage, kind, loads, trucks, own, search, found, chosen, bid, report>>

(* Verification or policy end the flow.                                    *)
Decline ==
  /\ stage = "book"
  /\ stage' = "over"
  /\ UNCHANGED <<signed, mileage, flowVars, refused>>

(* A load without an accessorial policy ends in a KeyError. A report that  *)
(* is refused stays in the broker's completed_bookings.                    *)
Report ==
  /\ stage = "book"
  /\ LET r == ReportOf(chosen, bid) IN
     IF chosen.kind = "load" /\ chosen.policy = Absent
     THEN Refuse("ExecutionReport") /\ UNCHANGED report
     ELSE /\ report' = r
          /\ IF ValidReport(r) THEN stage' = "booked" /\ UNCHANGED refused
             ELSE Refuse("ExecutionReport")
  /\ UNCHANGED <<signed, mileage, kind, loads, trucks, own, search, found, chosen, bid,
                 answer, inForce>>

(* Streamlit starts a run, or the process is started again: new agents.    *)
Renew ==
  /\ stage \in {"over", "booked"}
  /\ stage' = "idle" /\ kind' = "none"
  /\ mileage' \in Mileage
  /\ loads' = <<>> /\ trucks' = <<>>
  /\ own' = Absent /\ search' = Absent /\ found' = <<>> /\ chosen' = Absent
  /\ bid' = Absent /\ answer' = Absent /\ report' = Absent
  /\ inForce' = Absent /\ refused' = "none"
  /\ UNCHANGED signed

(* main() goes on to another flow, unless a message was refused.           *)
Continue ==
  /\ stage \in {"over", "booked"}
  /\ refused = "none" /\ Later[kind] # {}
  /\ stage' = "idle"
  /\ own' = Absent /\ search' = Absent /\ found' = <<>> /\ chosen' = Absent
  /\ bid' = Absent /\ answer' = Absent /\ report' = Absent
  /\ inForce' = Absent
  /\ UNCHANGED <<signed, mileage, kind, loads, trucks, refused>>
-------------------------------------------------------------------------------
(* Accessorial claims, on the report of a load.                            *)

Cap == IF report.posting.policy.max = Absent THEN 0 ELSE report.posting.policy.max

(* accessorial_total.                                                      *)
Total(claims) ==
  LET sum[i \in 0 .. Len(claims)] ==
        IF i = 0 THEN 0
        ELSE IF claims[i].status = "Approved" THEN sum[i - 1] + claims[i].amount ELSE sum[i - 1]
  IN  sum[Len(claims)]

(* submit_accessorial_claim. The id is the time in milliseconds: the next  *)
(* claim may get the same.                                                 *)
Submit(type, amount, id) ==
  LET claims == report.claims IN
  /\ stage = "booked" /\ report.posting.kind = "load"
  /\ Len(claims) < MaxClaims
  /\ type \in report.posting.policy.types
  /\ amount > 0
  /\ IF claims = <<>> THEN id = 1
     ELSE id = claims[Len(claims)].id \/ id = claims[Len(claims)].id + 1
  /\ report' = [report EXCEPT !.claims =
       Append(@, [type |-> type, amount |-> amount, id |-> id, status |-> "Proposed"])]
  /\ UNCHANGED <<signed, mileage, stage, kind, loads, trucks, own, search, found, chosen,
                 bid, answer, inForce, refused>>

(* resolve_accessorial_claim looks at the first claim with the id.         *)
IsFirst(i, id) ==
  /\ report.claims[i].id = id
  /\ \A j \in DOMAIN report.claims : j < i => report.claims[j].id # id

Settle(i, decision) ==
  /\ report' = [report EXCEPT !.claims[i].status = decision]
  /\ UNCHANGED <<signed, mileage, stage, kind, loads, trucks, own, search, found, chosen,
                 bid, answer, inForce, refused>>

(* Mutant of Resolve: the cap is compared with what was approved before.   *)
ResolveUpToCap(id, decision) ==
  /\ stage = "booked" /\ report.posting.kind = "load"
  /\ \E i \in DOMAIN report.claims :
       /\ IsFirst(i, id)
       /\ report.claims[i].status = "Proposed"
       /\ decision = "Approved" /\ Cap > 0 => Total(report.claims) <= Cap
       /\ Settle(i, decision)

(* Mutant of Resolve: a claim may be resolved again.                       *)
ResolveAgain(id, decision) ==
  /\ stage = "booked" /\ report.posting.kind = "load"
  /\ \E i \in DOMAIN report.claims :
       /\ IsFirst(i, id)
       /\ decision = "Approved" /\ Cap > 0 =>
            Total(report.claims) + report.claims[i].amount <= Cap
       /\ Settle(i, decision)

Resolve(id, decision) ==
  /\ stage = "booked" /\ report.posting.kind = "load"
  /\ \E i \in DOMAIN report.claims :
       /\ IsFirst(i, id)
       /\ report.claims[i].status = "Proposed"
       /\ decision = "Approved" /\ Cap > 0 =>
            Total(report.claims) + report.claims[i].amount <= Cap
       /\ Settle(i, decision)

Negotiate ==
  \/ \E k \in {"load", "shipper", "truck"} : \E p \in Postings(k) : Post(k, p)
  \/ \E noMatch \in BOOLEAN : Search(noMatch)
  \/ Bid
  \/ \E forced \in {"Accept", "Counter", "Reject"} : Respond(forced)
  \/ Decline \/ Report \/ Continue

Claim ==
  \/ \E type \in Catalog, amount \in Amounts, id \in 1 .. MaxClaims : Submit(type, amount, id)
  \/ \E id \in 1 .. MaxClaims, decision \in {"Approved", "Rejected"} : Resolve(id, decision)

Next == Negotiate \/ Claim \/ Renew \/ \E m \in Mileage : Configure(m)

Spec == Init /\ [][Next]_vars
-------------------------------------------------------------------------------
Posting ==
  [kind : {"load", "truck"}, rate : RateRecord, label : Label,
   class : ClassName, sub : SubClass \cup {Absent, None},
   tags : (SUBSET Tag) \cup {Absent}, described : BOOLEAN, length : Int, count : Int,
   driver : Driver \cup {Absent}, lane : {p.lane : p \in Tenders} \cup {"TX-GA", "TX"},
   earliest : Int, latest : Int,
   delivery : (Int \X Int) \cup {Absent},
   pickupWindow : Int \cup {Absent}, deliveryWindow : Int \cup {Absent},
   stops : Seq({"Pickup", "Drop"}) \cup {Absent}, special : BOOLEAN,
   policy : {p.policy : p \in Tenders} \cup {StandardPolicy, Absent}, tracking : BOOLEAN]
ClaimRecord == [type : Catalog, amount : Nat, id : 1 .. MaxClaims,
                status : {"Proposed", "Approved", "Rejected"}]

(* The type of the state. What is in a book has been normalised: its class *)
(* is never absent and never an alias.                                     *)
TypeOK ==
  /\ signed \in BOOLEAN
  /\ mileage \in Mileage /\ inForce \in Mileage \cup {Absent}
  /\ stage \in {"idle", "search", "bid", "answer", "book", "booked", "over"}
  /\ kind \in DOMAIN Later
  /\ loads \in Seq(Posting) /\ trucks \in Seq(Posting)
  /\ own \in {Absent} \cup UNION {Postings(k) : k \in {"load", "shipper", "truck"}}
  /\ chosen \in {Absent} \cup Posting
  /\ stage \in {"bid", "answer", "book", "booked"} => chosen \in Range(Book)
  /\ stage \in {"answer", "book", "booked"} => ValidRate(bid.rate)
  /\ answer # Absent /\ answer.type = "Counter" => answer.rate \in RateRecord
  /\ report # Absent => report.rate \in RateRecord /\ report.claims \in Seq(ClaimRecord)
  /\ refused \in {"none", "New", "Search", "BidRequest", "BidResponse", "ExecutionReport"}

(* What an answered term says of the equipment, the stops and the schedule *)
(* of a posting, where it says anything.                                   *)
SameEquipment(p, e) ==
  /\ e.class \in DOMAIN Canonical => Canonical[e.class] = Class(p)
  /\ e.sub \in SubClass /\ Sub(p) \in SubClass => e.sub = Sub(p)
  /\ e.tags # {} => Tags(p) \subseteq e.tags
  /\ e.shortest \in Int => e.shortest <= p.length
  /\ e.longest \in Int => p.length <= e.longest
  /\ e.length \in Int /\ {e.shortest, e.longest} = {Absent} => e.length = p.length
  /\ e.count \in Int => e.count = p.count
SameStops(p, a) ==
  /\ a.count \in Int => a.count = StopCount(p)
  /\ a.types # Absent => a.types = StopTypes(p)
SameWindows(p, a) ==
  /\ p.pickupWindow \in Int /\ a.pickup \in Int => a.pickup = p.pickupWindow
  /\ p.deliveryWindow \in Int /\ a.delivery \in Int => a.delivery = p.deliveryWindow

(* What is booked is what both sides have agreed to: at least the posted   *)
(* amount on the posted basis, and miles no further apart than the policy  *)
(* in force when the bid was answered tolerates. The carrier has accepted  *)
(* the equipment, the driver, the special instructions and the schedule    *)
(* that are in the report, without exceptions, and so the stops unless it  *)
(* said nothing of them; and nothing it has named in these is other than   *)
(* in the report. The accessorial policy is not among them: it is booked   *)
(* even where the bid declines it.                                         *)
BookedAsAgreed ==
  report # Absent =>
    LET p == report.posting
        b == bid
        apart == Delta(b.rate.units, p.rate.units) IN
    /\ report.rate = b.rate
    /\ b.rate.model = p.rate.model /\ b.rate.amount >= p.rate.amount
    /\ p.rate.model = "PerMile" /\ apart > 1 =>
         /\ inForce.mode # "strict"
         /\ apart <= inForce.abs \/ 1000 * apart <= p.rate.units * inForce.rel
    /\ b.equipment # Absent /\ b.equipment.accepted /\ SameEquipment(p, b.equipment)
    /\ p.driver # Absent => b.driver # Absent /\ b.driver.accepted /\ b.driver.config = p.driver
    /\ p.kind = "load" =>
         /\ b.stops # Absent => b.stops.accepted /\ SameStops(p, b.stops)
         /\ p.special => b.special # Absent /\ b.special.accepted /\ ~b.special.exceptions
         /\ p.delivery # Absent \/ p.pickupWindow # Absent \/ p.deliveryWindow # Absent =>
              /\ b.schedule # Absent /\ b.schedule.accepted /\ ~b.schedule.exceptions
              /\ SameWindows(p, b.schedule)

(* A counter is an offer that can be taken: a bid at the proposed rate,    *)
(* or one made for the posting at the proposed amount, is accepted,        *)
(* whatever the mileage policy is by then.                                 *)
CounterIsAcceptable ==
  answer # Absent /\ answer.type = "Counter" =>
    \A m \in Mileage :
      LET again == BidFor(chosen, answer.rate.amount) IN
      /\ Answer(m, chosen, again, "Accept").type = "Accept"
      /\ Answer(m, chosen, [again EXCEPT !.rate = answer.rate], "Accept").type = "Accept"

(* The search made for a tender finds it in the broker's book, unless it   *)
(* costs more than the carrier's limit, names no driver configuration (the *)
(* search asks for a single driver then) or measures half a foot more than *)
(* the whole feet the search asks for.                                     *)
OwnSearchFinds ==
  kind = "shipper" /\ search # Absent /\ search.lane = own.lane =>
    \/ Normalized(own) \in Range(found)
    \/ own.rate.amount > SearchMax[own.rate.model]
    \/ own.driver = Absent \/ own.length % 2 = 1

(* A load can be delivered on or after a day on which it can be picked up. *)
Feasible(p) ==
  \E day \in p.earliest .. p.latest :
    IF p.delivery = Absent THEN p.deliveryWindow = Absent
    ELSE \E then \in p.delivery[1] .. p.delivery[2] : day <= then

(* What every message about a load needs to say something about.           *)
Complete(p) ==
  /\ Sub(p) # None /\ Tags(p) # {} /\ Class(p) # "Special"
  /\ p.driver # Absent /\ p.length >= 2
  /\ p.kind = "load" => p.special /\ p.policy # Absent

(* No message an agent makes is refused by the other side where the        *)
(* posting is complete: a posting only if it makes no sense, or if it is   *)
(* signed and says its equipment in words that are rewritten before the    *)
(* signature is verified; the search, the bids, the answers and the report *)
(* never.                                                                  *)
CompleteIsHeard ==
  /\ refused = "New" =>
       \/ ~(Feasible(own) /\ ValidStops(own.stops) /\ ValidPolicy(own.policy))
       \/ ~ValidRate(own.rate) \/ (Class(own) = "Special" /\ ~own.described)
       \/ signed /\ Normalized(own) # own
  /\ refused \notin {"none", "New"} => ~Complete(own)

(* docs/rfc/RFC-v0.3-shipper-orchestration-minimal.md, "Test Plan":        *)
(* "Optional shipper-initiated flow reaches booked execution report."      *)
TenderIsHeard == kind = "shipper" /\ own = DefaultTender => refused = "none"

(* What has been approved never exceeds the load's policy, however claims  *)
(* are proposed, approved and rejected. A policy without a maximum, or     *)
(* with a maximum of zero, sets none.                                      *)
ApprovedWithinCap ==
  report # Absent /\ report.posting.kind = "load" /\ Cap > 0 =>
    Total(report.claims) <= Cap

(* A claim is settled once: while the report stands, a claim that was      *)
(* approved or rejected is never touched again, not even by a later claim  *)
(* with its id, and none disappears or changes what is claimed.            *)
ClaimsSettleOnce ==
  [][report # Absent /\ report' # Absent =>
       \A i \in DOMAIN report.claims :
         /\ i \in DOMAIN report'.claims
         /\ report'.claims[i] = [report.claims[i] EXCEPT !.status = report'.claims[i].status]
         /\ report.claims[i].status # "Proposed" => report'.claims[i] = report.claims[i]]_vars
===============================================================================
