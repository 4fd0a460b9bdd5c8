------------------------- MODULE TermsNegotiationProofs ------------------------
(***************************************************************************)
(* Proofs about TermsNegotiation, for any tenders, tables of equipment,    *)
(* bids, mileage policies and number of claims.                            *)
(***************************************************************************)
EXTENDS TermsNegotiation, InductionLemmas, SequenceTheorems

-----------------------------------------------------------------------------
(* The inductive invariant.                                                *)

Good(p) == p \in Posting /\ ValidPosting(p)

BidsFor(p) == UNION {{BidFor(p, amount)} \cup Variants(BidFor(p, amount)) :
                       amount \in Offered(p.rate.model)}

(* What the broker or the carrier has looked at before it accepts.         *)
Agreed(policy, p, b) ==
  /\ b.rate.model = p.rate.model /\ b.rate.amount >= p.rate.amount
  /\ ~Disputed(policy, p, b)

(* The books hold postings that were validated and normalised.             *)
BooksInv ==
  /\ loads \in Seq(Posting) /\ trucks \in Seq(Posting)
  /\ \A p \in Range(loads) : Good(p) /\ p.kind = "load"
  /\ \A p \in Range(trucks) : Good(p) /\ p.kind = "truck"

(* What there is at each stage, and what is not there yet.                 *)
StageInv ==
  /\ stage = "idle" => own = Absent
  /\ stage \in {"idle", "search"} => search = Absent /\ chosen = Absent
  /\ stage \in {"idle", "search", "bid"} => bid = Absent
  /\ stage \notin {"book", "booked", "over"} => answer = Absent
  /\ stage \notin {"booked", "over"} => report = Absent
  /\ stage \in {"search", "bid", "answer", "book", "booked"} =>
       /\ kind \in {"load", "shipper", "truck"}
       /\ own \in Postings(kind) /\ Heard(own)

(* What is bid for is in the book, what is bid was made for it, what is    *)
(* countered is derived from it, what is booked was agreed.                *)
DealInv ==
  /\ stage \in {"bid", "answer", "book", "booked"} \/ answer # Absent \/ report # Absent =>
       chosen \in Range(Book)
  /\ stage \in {"answer", "book", "booked"} \/ report # Absent =>
       bid \in BidsFor(chosen) /\ ValidBid(bid)
  /\ stage \in {"book", "booked"} \/ report # Absent =>
       inForce \in Mileage /\ Agreed(inForce, chosen, bid)
  /\ answer # Absent /\ answer.type = "Counter" => answer.rate = CounterRate(chosen)
  /\ stage = "booked" \/ report # Absent =>
       report = [posting |-> chosen, rate |-> bid.rate, described |-> FALSE,
                 claims |-> report.claims]

(* The claims are typed, and what is approved of them is within the cap.   *)
ClaimsInv ==
  stage = "booked" \/ report # Absent =>
    /\ report.claims \in Seq(ClaimRecord)
    /\ report.posting.kind = "load" /\ Cap > 0 => Total(report.claims) <= Cap

(* What a search has found, and that a tender is there to be found.        *)
SearchInv ==
  /\ kind = "shipper" /\ stage = "search" => Normalized(own) \in Range(loads)
  /\ OwnSearchFinds

Typed ==
  /\ signed \in BOOLEAN
  /\ mileage \in Mileage /\ inForce \in Mileage \cup {Absent}
  /\ stage \in {"idle", "search", "bid", "answer", "book", "booked", "over"}
  /\ kind \in {"none", "load", "shipper", "truck"}
  /\ own \in {Absent} \cup UNION {Postings(k) : k \in {"load", "shipper", "truck"}}
  /\ chosen \in {Absent} \cup Posting
  /\ refused \in {"none", "New", "Search", "BidRequest", "BidResponse", "ExecutionReport"}

IInv == Typed /\ BooksInv /\ StageInv /\ DealInv /\ ClaimsInv /\ SearchInv

(* Which postings are in which book.                                       *)
OwnBooks ==
  /\ kind = "none" => loads = <<>>
  /\ kind # "truck" => trucks = <<>>
  /\ kind = "load" => Range(loads) \subseteq {LoadPosting(m) : m \in Models}
  /\ kind = "shipper" /\ stage # "idle" =>
       Range(loads) \subseteq {LoadPosting(m) : m \in Models} \cup {Normalized(own)}
  /\ kind = "truck" => Range(trucks) \subseteq {TruckPosting(m) : m \in Models}

(* A refusal ends the flow, and happens to no complete posting.            *)
HeardInv ==
  /\ stage # "over" => refused = "none"
  /\ OwnBooks
  /\ CompleteIsHeard
-----------------------------------------------------------------------------
(* Postings.                                                               *)

(* What is inferred of the equipment is of the right kind, and the class   *)
(* is one that is spelt like itself.                                       *)
LEMMA EquipmentFacts ==
  ASSUME NEW p, p.label \in Label, p.tags \in (SUBSET Tag) \cup {Absent}
  PROVE  /\ Class(p) \in ClassName /\ Class(p) \in DOMAIN Canonical
         /\ Canonical[Class(p)] = Class(p)
         /\ Sub(p) \in SubClass \cup {None}
         /\ Tags(p) \in SUBSET Tag
  <1>1. Class(p) \in ClassName
    BY TermsAssumption DEF Class, ClassName
  <1>2. PICK c \in DOMAIN Canonical : Class(p) = Canonical[c]
    BY <1>1 DEF ClassName
  <1>3. Class(p) \in DOMAIN Canonical /\ Canonical[Class(p)] = Class(p)
    BY <1>2, TermsAssumption
  <1>4. Sub(p) \in SubClass \cup {None}
    BY TermsAssumption DEF Sub
  <1>5. Tags(p) \in SUBSET Tag
    BY TermsAssumption DEF Tags
  <1>6. QED BY <1>1, <1>3, <1>4, <1>5

LEMMA RateFacts ==
  ASSUME NEW model \in RateModel
  PROVE  /\ FloorAmount[model] \in Nat /\ FloorAmount[model] > 0
         /\ SearchMax[model] \in Nat /\ CounterStep[model] \in Nat
         /\ DefaultUnits[model] \in Int \cup {Absent}
         /\ model \in Counted => DefaultUnits[model] \in Int /\ DefaultUnits[model] > 0
         /\ "PerMile" \in RateModel
  <1>1. model \in {"Flat", "LaneMinimum", "PerHour", "PerPallet", "CWT", "PerMile"}
    BY DEF RateModel
  <1>2. FloorAmount[model] \in Nat /\ FloorAmount[model] > 0
    BY <1>1 DEF FloorAmount
  <1>3. SearchMax[model] \in Nat
    BY <1>1 DEF SearchMax
  <1>4. CounterStep[model] \in Nat
    BY <1>1 DEF CounterStep
  <1>5. /\ DefaultUnits[model] \in Int \cup {Absent}
        /\ model \in Counted => DefaultUnits[model] \in Int /\ DefaultUnits[model] > 0
    BY <1>1 DEF DefaultUnits, Counted
  <1>6. QED BY <1>2, <1>3, <1>4, <1>5 DEF RateModel

LEMMA BuiltRate ==
  ASSUME NEW model \in RateModel, NEW amount \in Int, NEW units \in Int \cup {Absent}
  PROVE  LET r == BuildRate(model, amount, units)
         IN  /\ r \in RateRecord /\ r.model = model /\ r.amount = amount
             /\ units # Absent => r.units = units
             /\ amount >= 0 /\ (units = Absent \/ units > 0 \/ model \notin Counted) =>
                  ValidRate(r)
  <1> DEFINE r == BuildRate(model, amount, units)
  <1>1. r = [model |-> model, amount |-> amount,
             units |-> IF units = Absent THEN DefaultUnits[model] ELSE units]
    BY DEF BuildRate
  <1>2. r.model = model /\ r.amount = amount /\ (units # Absent => r.units = units)
        /\ (units = Absent => r.units = DefaultUnits[model])
    BY <1>1
  <1>3. r \in RateRecord
    BY <1>1, RateFacts DEF RateRecord
  <1>4. ASSUME amount >= 0, units = Absent \/ units > 0 \/ model \notin Counted
        PROVE  ValidRate(r)
    <2>1. model \in Counted => r.units \in Int /\ r.units > 0
      BY <1>2, <1>4, RateFacts
    <2> HIDE DEF r
    <2>2. QED BY <1>2, <1>4, <2>1, TermsAssumption DEF ValidRate
  <1>5. QED BY <1>2, <1>3, <1>4

LEMMA StandardPolicyValid == ValidPolicy(StandardPolicy)
  <1> DEFINE S == StandardPolicy
             D == [grace |-> 120, amount |-> 2500, located |-> TRUE, locatedBy |-> TRUE]
             L == [TermOf("Detention", "Reimbursable", FALSE) EXCEPT !.detention = D]
             T == {TermOf("UnloadingFee", "Reimbursable", TRUE),
                   TermOf("OverweightPermit", "PassThrough", TRUE),
                   TermOf("EscortVehicle", "TBD", TRUE), L}
  <1>1. S.types = {"UnloadingFee", "OverweightPermit", "EscortVehicle", "Detention"}
        /\ S.max = 30000 /\ S.terms = T
    BY DEF StandardPolicy
  <1>2. ASSUME NEW type \in {"UnloadingFee", "OverweightPermit", "EscortVehicle"}, NEW mode,
               NEW t, t = TermOf(type, mode, TRUE)
        PROVE  ValidTerm(t) /\ t.type \in S.types
    BY <1>1, <1>2 DEF TermOf, ValidTerm
  <1>3. L.type = "Detention" /\ L.parties = TRUE /\ L.evidence = FALSE /\ L.detention = D
    BY DEF TermOf
  <1>4. D # Absent
    <2>1. D \in DetentionTerm
      BY DEF DetentionTerm
    <2> HIDE DEF D
    <2>2. QED BY <2>1, AbsentAssumption
  <1>5. ValidDetention(D)
    BY DEF ValidDetention
  <1> HIDE DEF D, L
  <1>6. ASSUME NEW t \in T PROVE ValidTerm(t) /\ t.type \in S.types
    <2>1. CASE t = L
      BY <1>1, <1>3, <1>4, <1>5, <2>1 DEF ValidTerm
    <2>2. CASE t = TermOf("UnloadingFee", "Reimbursable", TRUE)
      BY <1>2, <2>2
    <2>3. CASE t = TermOf("OverweightPermit", "PassThrough", TRUE)
      BY <1>2, <2>3
    <2>4. CASE t = TermOf("EscortVehicle", "TBD", TRUE)
      BY <1>2, <2>4
    <2>5. QED BY <2>1, <2>2, <2>3, <2>4
  <1> HIDE DEF T
  <1>7. S.types # {} /\ S.types \subseteq Catalog /\ S.max \in Nat
    BY <1>1, NegotiationAssumption
  <1>8. QED
    BY <1>1, <1>6, <1>7 DEF ValidPolicy

(* What the validation writes into a posting makes it one of the book,     *)
(* with the same equipment.                                                *)
LEMMA NormalizedFacts ==
  ASSUME NEW p \in Tender \cup Posting, ValidPosting(p)
  PROVE  LET n == Normalized(p)
         IN  /\ n \in Posting /\ ValidPosting(n) /\ n.kind = p.kind
             /\ Class(n) = Class(p) /\ Sub(n) = Sub(p) /\ Tags(n) = Tags(p)
             /\ n.rate = p.rate /\ n.label = p.label /\ n.driver = p.driver
             /\ n.length = p.length /\ n.count = p.count /\ n.lane = p.lane
             /\ n.earliest = p.earliest /\ n.latest = p.latest /\ n.special = p.special
             /\ n.policy = p.policy /\ n.stops = p.stops /\ n.delivery = p.delivery
             /\ n.deliveryWindow = p.deliveryWindow /\ n.tracking = p.tracking
  <1> DEFINE n == Normalized(p)
             sub == IF Sub(p) = None THEN p.sub ELSE Sub(p)
             tags == IF p.tags = Absent /\ TagsOf[p.label] # {} THEN TagsOf[p.label] ELSE p.tags
  <1>1. /\ p.label \in Label /\ p.tags \in (SUBSET Tag) \cup {Absent}
        /\ p.kind \in {"load", "truck"} /\ p.rate \in RateRecord
        /\ p.driver \in {Absent} \cup Driver /\ p.sub \in {Absent, None} \cup SubClass
    BY DEF Tender, Posting, ValidPosting, ValidEquipment
  <1>2. /\ Class(p) \in ClassName /\ Class(p) \in DOMAIN Canonical
        /\ Canonical[Class(p)] = Class(p)
        /\ Sub(p) \in SubClass \cup {None}
    BY <1>1, EquipmentFacts
  <1>3. /\ TagsOf[p.label] \in SUBSET Tag /\ TagsOf[p.label] # Absent
        /\ sub \in SubClass \cup {Absent, None} /\ tags \in (SUBSET Tag) \cup {Absent}
    BY <1>1, <1>2, TermsAssumption, AbsentAssumption
  <1>4. n = [p EXCEPT !.class = Class(p), !.sub = sub, !.tags = tags]
    BY DEF Normalized
  <1>5. /\ n.class = Class(p) /\ n.sub = sub /\ n.tags = tags /\ n.label = p.label
        /\ n.kind = p.kind /\ n.rate = p.rate /\ n.driver = p.driver
        /\ n.length = p.length /\ n.count = p.count /\ n.lane = p.lane
        /\ n.earliest = p.earliest /\ n.latest = p.latest /\ n.special = p.special
        /\ n.policy = p.policy /\ n.stops = p.stops /\ n.delivery = p.delivery
        /\ n.deliveryWindow = p.deliveryWindow /\ n.tracking = p.tracking
        /\ n.described = p.described /\ n.pickupWindow = p.pickupWindow
    BY <1>4 DEF Tender, Posting
  <1>6. Class(n) = Class(p)
    BY <1>2, <1>5 DEF Class
  <1>7. Sub(n) = Sub(p)
    BY <1>1, <1>2, <1>5, TermsAssumption DEF Sub
  <1>8. Tags(n) = Tags(p)
    BY <1>1, <1>3, <1>5 DEF Tags
  <1>9. p.policy \in {q.policy : q \in Tenders} \cup {StandardPolicy, Absent}
    BY DEF Tender, Posting
  <1> HIDE DEF sub, tags, n
  <1>10. n \in Posting
    <2>1. n = [kind |-> p.kind, rate |-> p.rate, label |-> p.label, class |-> Class(p),
               sub |-> sub, tags |-> tags, described |-> p.described, length |-> p.length,
               count |-> p.count, driver |-> p.driver, lane |-> p.lane,
               earliest |-> p.earliest, latest |-> p.latest, delivery |-> p.delivery,
               pickupWindow |-> p.pickupWindow, deliveryWindow |-> p.deliveryWindow,
               stops |-> p.stops, special |-> p.special, policy |-> p.policy,
               tracking |-> p.tracking]
      BY <1>4 DEF Tender, Posting
    <2>2. /\ p.described \in BOOLEAN /\ p.length \in Int /\ p.count \in Int
          /\ p.lane \in {q.lane : q \in Tenders} \cup {"TX-GA", "TX"} /\ p.earliest \in Int /\ p.latest \in Int
          /\ p.delivery \in (Int \X Int) \cup {Absent}
          /\ p.pickupWindow \in Int \cup {Absent} /\ p.deliveryWindow \in Int \cup {Absent}
          /\ p.stops \in Seq({"Pickup", "Drop"}) \cup {Absent}
          /\ p.special \in BOOLEAN /\ p.tracking \in BOOLEAN
      BY DEF Tender, Posting
    <2>3. QED BY <1>1, <1>2, <1>3, <1>9, <2>1, <2>2 DEF Posting
  <1>11. ValidPosting(n)
    <2>1. ValidEquipment(n)
      BY <1>1, <1>2, <1>3, <1>5, <1>6 DEF ValidPosting, ValidEquipment
    <2>2. p.kind = "load" => ValidSchedule(n)
      BY <1>5 DEF ValidPosting, ValidSchedule
    <2>3. QED BY <1>5, <2>1, <2>2 DEF ValidPosting
  <1>12. QED BY <1>5, <1>6, <1>7, <1>8, <1>10, <1>11 DEF n

LEMMA TruckFields ==
  ASSUME NEW m, LoadPosting(m) \in Posting
  PROVE  LET load == LoadPosting(m)
             p == TruckPosting(m)
         IN  /\ p \in Posting /\ p.kind = "truck" /\ p.driver = "Team"
             /\ p.rate = load.rate /\ p.label = load.label /\ p.class = load.class
             /\ p.sub = load.sub /\ p.tags = load.tags /\ p.length = load.length
             /\ p.count = load.count
  <1> DEFINE load == LoadPosting(m)
             p == TruckPosting(m)
  <1>1. PICK none, truck, team, lane, two, no :
          /\ none = Absent /\ truck = "truck" /\ team = "Team" /\ lane = "TX"
          /\ two = 2 /\ no = FALSE
    OBVIOUS
  <1>2. p = [load EXCEPT
               !.kind = truck, !.driver = team, !.lane = lane, !.latest = two,
               !.delivery = none, !.pickupWindow = none, !.deliveryWindow = none,
               !.stops = none, !.special = no, !.policy = none, !.tracking = no]
    BY <1>1 DEF TruckPosting
  <1>3. /\ none \in (Int \X Int) \cup {Absent} /\ none \in Int \cup {Absent}
        /\ none \in Seq({"Pickup", "Drop"}) \cup {Absent}
        /\ none \in {q.policy : q \in Tenders} \cup {StandardPolicy, Absent}
        /\ truck \in {"load", "truck"} /\ team \in Driver \cup {Absent} /\ two \in Int
        /\ lane \in {q.lane : q \in Tenders} \cup {"TX-GA", "TX"} /\ no \in BOOLEAN
    <2>1. /\ none \in (Int \X Int) \cup {Absent} /\ none \in Int \cup {Absent}
          /\ none \in Seq({"Pickup", "Drop"}) \cup {Absent}
          /\ none \in {q.policy : q \in Tenders} \cup {StandardPolicy, Absent}
      BY <1>1
    <2>2. /\ truck \in {"load", "truck"} /\ team \in Driver \cup {Absent} /\ two \in Int
      BY <1>1 DEF Driver
    <2>3. lane \in {q.lane : q \in Tenders} \cup {"TX-GA", "TX"}
      BY <1>1
    <2>4. no \in BOOLEAN
      BY <1>1
    <2>5. QED BY <2>1, <2>2, <2>3, <2>4
  <1> HIDE DEF load, p
  <1>4. load \in Posting
    BY DEF load
  <1>5. p = [kind |-> truck, rate |-> load.rate, label |-> load.label, class |-> load.class,
             sub |-> load.sub, tags |-> load.tags, described |-> load.described,
             length |-> load.length, count |-> load.count, driver |-> team, lane |-> lane,
             earliest |-> load.earliest, latest |-> two, delivery |-> none,
             pickupWindow |-> none, deliveryWindow |-> none, stops |-> none,
             special |-> no, policy |-> none, tracking |-> no]
    BY <1>2, <1>4 DEF Posting
  <1>6. /\ load.rate \in RateRecord /\ load.label \in Label /\ load.class \in ClassName
        /\ load.sub \in SubClass \cup {Absent, None} /\ load.tags \in (SUBSET Tag) \cup {Absent}
        /\ load.described \in BOOLEAN /\ load.length \in Int /\ load.count \in Int
        /\ load.earliest \in Int
    BY <1>4 DEF Posting
  <1>7. p \in Posting
    BY <1>3, <1>5, <1>6 DEF Posting
  <1>8. QED BY <1>1, <1>5, <1>7 DEF load, p

(* The agents' own postings are valid, and the validation leaves them as   *)
(* they are.                                                               *)
LEMMA OwnPostings ==
  ASSUME NEW m \in Models, NEW p \in {LoadPosting(m), TruckPosting(m)}
  PROVE  /\ Good(p) /\ Normalized(p) = p /\ Heard(p) /\ Complete(p)
         /\ p.rate = BuildRate(m, FloorAmount[m], Absent)
         /\ p = LoadPosting(m) => p.kind = "load"
         /\ p = TruckPosting(m) => p.kind = "truck"
  <1>1. /\ m \in RateModel /\ "Reefer" \in Label /\ "Reefer" \in DOMAIN Canonical
        /\ Canonical["Reefer"] = "Reefer" /\ "AirRide" \in SubClass /\ "AirRide" \in Tag
    BY NegotiationAssumption
  <1> DEFINE r == BuildRate(m, FloorAmount[m], Absent)
  <1>2. r \in RateRecord /\ ValidRate(r)
    <2>1. FloorAmount[m] \in Int /\ FloorAmount[m] >= 0 /\ Absent \in Int \cup {Absent}
      BY <1>1, RateFacts
    <2>2. QED BY <1>1, <2>1, BuiltRate
  <1>3. LoadPosting(m) =
          [kind |-> "load", rate |-> r,
           label |-> "Reefer", class |-> "Reefer", sub |-> "AirRide", tags |-> {"AirRide"},
           described |-> FALSE, length |-> 106, count |-> 1, driver |-> "Single",
           lane |-> "TX-GA", earliest |-> 2, latest |-> 3, delivery |-> <<4, 5>>,
           pickupWindow |-> 1, deliveryWindow |-> 2, stops |-> <<"Pickup", "Pickup", "Drop">>,
           special |-> TRUE, policy |-> StandardPolicy, tracking |-> TRUE]
    BY DEF LoadPosting
  <1> HIDE DEF r
  <1>4. /\ {"AirRide"} \in SUBSET Tag /\ {"AirRide"} # Absent
        /\ <<"Pickup", "Pickup", "Drop">> \in Seq({"Pickup", "Drop"})
        /\ <<4, 5>> \in Int \X Int
        /\ "Single" \in Driver \cup {Absent} /\ "Team" \in Driver \cup {Absent}
        /\ "Reefer" \in ClassName
    BY <1>1, AbsentAssumption DEF Driver, ClassName
  <1>5. LoadPosting(m) \in Posting
    BY <1>1, <1>2, <1>3, <1>4 DEF Posting
  <1>6. /\ TruckPosting(m) \in Posting
        /\ LET q == TruckPosting(m) IN
             /\ q.rate = r /\ q.label = "Reefer" /\ q.class = "Reefer" /\ q.sub = "AirRide"
             /\ q.tags = {"AirRide"} /\ q.driver = "Team" /\ q.length = 106
             /\ q.count = 1 /\ q.kind = "truck"
    <2>1. LET load == LoadPosting(m)
          IN  /\ load.rate = r /\ load.label = "Reefer" /\ load.class = "Reefer"
              /\ load.sub = "AirRide" /\ load.tags = {"AirRide"} /\ load.length = 106
              /\ load.count = 1
      BY <1>3
    <2>2. QED BY <1>5, <2>1, TruckFields
  <1>7. /\ p.rate = r /\ p.label = "Reefer" /\ p.class = "Reefer" /\ p.sub = "AirRide"
        /\ p.tags = {"AirRide"} /\ p.driver \in {"Single", "Team"} /\ p.length = 106
        /\ p.count = 1 /\ p \in Posting
        /\ \/ /\ p = LoadPosting(m) /\ p.kind = "load" /\ p.stops = <<"Pickup", "Pickup", "Drop">>
              /\ p.policy = StandardPolicy /\ p.special = TRUE
              /\ p.earliest = 2 /\ p.latest = 3
              /\ p.delivery = <<4, 5>> /\ p.deliveryWindow = 2
           \/ p = TruckPosting(m) /\ p.kind = "truck"
    <2>1. CASE p = LoadPosting(m)
      BY <1>3, <1>5, <2>1
    <2>2. CASE p = TruckPosting(m)
      BY <1>6, <2>2
    <2>3. QED BY <2>1, <2>2
  <1>8. Class(p) = "Reefer" /\ Sub(p) = "AirRide"
    BY <1>1, <1>7 DEF Class, Sub
  <1>9. ValidPosting(p)
    <2>1. ValidEquipment(p)
      BY <1>1, <1>7, <1>8 DEF ValidEquipment
    <2>2. ASSUME p.kind = "load"
          PROVE  ValidSchedule(p) /\ ValidPolicy(p.policy) /\ ValidStops(p.stops)
      <3>1. ValidStops(p.stops)
        <4>1. LET q == <<"Pickup", "Pickup", "Drop">>
              IN  Len(q) = 3 /\ q[1] = "Pickup" /\ q[Len(q)] = "Drop"
          OBVIOUS
        <4>2. p.stops = <<"Pickup", "Pickup", "Drop">>
          BY <1>7, <2>2
        <4>3. QED BY <4>1, <4>2 DEF ValidStops
      <3>2. <<4, 5>> # Absent
        BY <1>4, AbsentAssumption
      <3>3. ValidSchedule(p)
        BY <1>7, <2>2, <3>2 DEF ValidSchedule
      <3>4. QED BY <1>7, <2>2, <3>1, <3>3, StandardPolicyValid
    <2>3. QED BY <1>2, <1>7, <2>1, <2>2 DEF ValidPosting, Driver
  <1>10. Normalized(p) = p
    BY <1>1, <1>4, <1>7, <1>8, TermsAssumption DEF Normalized, Posting
  <1>11. r = BuildRate(m, FloorAmount[m], Absent)
    BY DEF r
  <1>12. p = LoadPosting(m) => p.kind = "load"
    BY <1>3
  <1>13. p = TruckPosting(m) => p.kind = "truck"
    BY <1>6
  <1>14. Complete(p)
    <2>1. Sub(p) # None
      BY <1>1, <1>8, TermsAssumption
    <2>2. Tags(p) = {"AirRide"}
      BY <1>4, <1>7 DEF Tags
    <2>3. p.driver # Absent
      BY <1>7, AbsentAssumption DEF Driver
    <2>4. p.kind = "load" => p.special /\ p.policy # Absent
      BY <1>7, PolicyAssumption
    <2>5. QED BY <1>7, <1>8, <2>1, <2>2, <2>3, <2>4 DEF Complete
  <1>15. QED BY <1>7, <1>9, <1>10, <1>11, <1>12, <1>13, <1>14 DEF Good, Heard
-----------------------------------------------------------------------------
(* The two recursive functions.                                            *)

(* A search finds the postings of the book that fit it, and no others.     *)
LEMMA MatchingFacts ==
  ASSUME NEW book \in Seq(Posting), NEW s
  PROVE  /\ Matching(book, s) \in Seq(Posting)
         /\ \A p : p \in Range(Matching(book, s)) <=> p \in Range(book) /\ Found(p, s)
  <1> DEFINE n == Len(book)
             Def(f) == f = [i \in 0 .. n |->
                         IF i = 0 THEN <<>>
                         ELSE IF Found(book[i], s) THEN Append(f[i - 1], book[i]) ELSE f[i - 1]]
             f == CHOOSE g : Def(g)
             h == [i \in 1 .. n |-> [x \in Seq(Posting) |->
                     IF Found(book[i], s) THEN Append(x, book[i]) ELSE x]]
  <1>1. /\ n \in Nat /\ DOMAIN book = 1 .. n
        /\ \A i \in 1 .. n : book[i] \in Posting
    OBVIOUS
  <1>2. \E g : Def(g)
    <2> DEFINE S == Seq(Posting)
               a == <<>>
    <2>1. a \in S /\ h \in [1 .. n -> [S -> S]]
      BY <1>1
    <2>2. PICK g \in [0 .. n -> S] : Iterates(g, n, a, h)
      <3> HIDE DEF h, n, S, a
      <3>1. QED BY <1>1, <2>1, RecursionOnInterval
    <2>3. g[0] = <<>> /\ \A i \in 1 .. n : g[i] = h[i][g[i - 1]]
      BY <2>2 DEF Iterates
    <2>4. ASSUME NEW i \in 0 .. n
          PROVE  g[i] = IF i = 0 THEN <<>>
                        ELSE IF Found(book[i], s) THEN Append(g[i - 1], book[i]) ELSE g[i - 1]
      <3>1. CASE i = 0
        BY <2>3, <3>1
      <3>2. CASE i \in 1 .. n
        <4>1. g[i - 1] \in Seq(Posting) /\ g[i] = h[i][g[i - 1]]
          <5>1. i - 1 \in 0 .. n
            BY <1>1, <3>2
          <5> HIDE DEF h, n
          <5>2. QED BY <2>2, <2>3, <3>2, <5>1
        <4>2. QED BY <3>2, <4>1
      <3>3. QED BY <3>1, <3>2
    <2>5. Def(g)
      BY <2>2, <2>4
    <2>6. QED BY <2>5
  <1>3. Def(f)
    <2> HIDE DEF Def
    <2>1. QED BY <1>2
  <1>4. \A i \in 0 .. n : f[i] = IF i = 0 THEN <<>>
                                 ELSE IF Found(book[i], s) THEN Append(f[i - 1], book[i])
                                                           ELSE f[i - 1]
    <2> HIDE DEF f
    <2>1. QED BY <1>3
  <1>5. Matching(book, s) = f[n]
    BY DEF Matching
  <1> HIDE DEF f, Def, h
  <1> DEFINE Good1(i) == /\ f[i] \in Seq(Posting)
                         /\ \A p : p \in Range(f[i]) <=>
                              \E j \in 1 .. i : p = book[j] /\ Found(p, s)
             G == {i \in 0 .. n : Good1(i)}
  <1>6. 0 \in G
    <2>1. f[0] = <<>> /\ 0 \in 0 .. n
      BY <1>1, <1>4
    <2>2. <<>> \in Seq(Posting) /\ Range(<<>>) = {} /\ 1 .. 0 = {}
      BY DEF Range
    <2>3. Good1(0)
      BY <2>1, <2>2
    <2> HIDE DEF Good1
    <2>4. QED BY <2>1, <2>3
  <1>7. ASSUME NEW i \in 0 .. n, i < n, i \in G
        PROVE  i + 1 \in G
    <2>1. /\ i + 1 \in 1 .. n /\ i + 1 \in 0 .. n /\ book[i + 1] \in Posting
          /\ f[i] \in Seq(Posting)
          /\ \A p : p \in Range(f[i]) <=> \E j \in 1 .. i : p = book[j] /\ Found(p, s)
      BY <1>1, <1>7
    <2>2. f[i + 1] = IF Found(book[i + 1], s) THEN Append(f[i], book[i + 1]) ELSE f[i]
      BY <1>4, <2>1
    <2>3. 1 .. i + 1 = (1 .. i) \cup {i + 1}
      BY <1>1
    <2>4. CASE Found(book[i + 1], s)
      <3>1. /\ f[i + 1] \in Seq(Posting)
            /\ Range(f[i + 1]) = Range(f[i]) \cup {book[i + 1]}
        <4>1. /\ f[i + 1] \in Seq(Posting) /\ Len(f[i + 1]) = Len(f[i]) + 1
              /\ \A j \in 1 .. Len(f[i]) : f[i + 1][j] = f[i][j]
              /\ f[i + 1][Len(f[i]) + 1] = book[i + 1]
          BY <2>1, <2>2, <2>4, AppendProperties
        <4>2. DOMAIN f[i] = 1 .. Len(f[i]) /\ Len(f[i]) \in Nat
              /\ DOMAIN f[i + 1] = 1 .. Len(f[i]) + 1
          BY <2>1, <4>1
        <4>3. Range(f[i + 1]) = {f[i + 1][j] : j \in 1 .. Len(f[i]) + 1}
              /\ Range(f[i]) = {f[i][j] : j \in 1 .. Len(f[i])}
          BY <4>2 DEF Range
        <4>4. 1 .. Len(f[i]) + 1 = (1 .. Len(f[i])) \cup {Len(f[i]) + 1}
          BY <4>2
        <4>5. \A q : q \in Range(f[i + 1]) <=> q \in Range(f[i]) \/ q = book[i + 1]
          BY <4>1, <4>3, <4>4
        <4>6. QED BY <4>1, <4>5
      <3>2. QED BY <2>1, <2>3, <2>4, <3>1
    <2>5. CASE ~Found(book[i + 1], s)
      BY <2>1, <2>2, <2>3, <2>5
    <2>6. QED BY <2>4, <2>5
  <1>8. n \in G
    <2> HIDE DEF G
    <2>1. 0 .. n \subseteq G
      BY <1>1, <1>6, <1>7, IntervalInduction
    <2>2. QED BY <1>1, <2>1
  <1>9. \A p : p \in Range(book) <=> \E j \in 1 .. n : p = book[j]
    BY <1>1 DEF Range
  <1>10. QED BY <1>5, <1>8, <1>9

(* What a claim adds to the total.                                         *)
Due(c) == IF c.status = "Approved" THEN c.amount ELSE 0

(* Total adds up what is due on the claims.                                *)
LEMMA TotalFacts ==
  ASSUME NEW claims \in Seq(ClaimRecord)
  PROVE  \E f \in [0 .. Len(claims) -> Nat] :
           /\ f[0] = 0
           /\ \A i \in 1 .. Len(claims) : f[i] = f[i - 1] + Due(claims[i])
           /\ Total(claims) = f[Len(claims)]
  <1> DEFINE n == Len(claims)
             Def(f) == f = [i \in 0 .. n |->
                         IF i = 0 THEN 0
                         ELSE IF claims[i].status = "Approved" THEN f[i - 1] + claims[i].amount
                                                               ELSE f[i - 1]]
             f == CHOOSE g : Def(g)
             h == [i \in 1 .. n |-> [x \in Nat |->
                     IF claims[i].status = "Approved" THEN x + claims[i].amount ELSE x]]
  <1>1. /\ n \in Nat
        /\ \A i \in 1 .. n : claims[i].amount \in Nat
    <2>1. n \in Nat /\ \A i \in 1 .. n : claims[i] \in ClaimRecord
      OBVIOUS
    <2>2. \A c \in ClaimRecord : c.amount \in Nat
      BY DEF ClaimRecord
    <2>3. QED BY <2>1, <2>2
  <1>2. \E g : Def(g) /\ g \in [0 .. n -> Nat]
    <2>1. h \in [1 .. n -> [Nat -> Nat]] /\ 0 \in Nat
      BY <1>1
    <2>2. PICK g \in [0 .. n -> Nat] : Iterates(g, n, 0, h)
      <3> HIDE DEF h, n
      <3>1. QED BY <1>1, <2>1, RecursionOnInterval
    <2>3. g[0] = 0 /\ \A i \in 1 .. n : g[i] = h[i][g[i - 1]]
      BY <2>2 DEF Iterates
    <2>4. ASSUME NEW i \in 0 .. n
          PROVE  g[i] = IF i = 0 THEN 0
                        ELSE IF claims[i].status = "Approved" THEN g[i - 1] + claims[i].amount
                                                              ELSE g[i - 1]
      <3>1. CASE i = 0
        BY <2>3, <3>1
      <3>2. CASE i \in 1 .. n
        <4>1. g[i - 1] \in Nat /\ g[i] = h[i][g[i - 1]]
          <5>1. i - 1 \in 0 .. n
            BY <1>1, <3>2
          <5> HIDE DEF h, n
          <5>2. QED BY <2>2, <2>3, <3>2, <5>1
        <4>2. QED BY <3>2, <4>1
      <3>3. QED BY <3>1, <3>2
    <2>5. Def(g)
      BY <2>2, <2>4
    <2>6. QED BY <2>2, <2>5
  <1>3. Def(f)
    <2> HIDE DEF Def
    <2>1. QED BY <1>2
  <1>4. \A i \in 0 .. n : f[i] = IF i = 0 THEN 0
                                 ELSE IF claims[i].status = "Approved"
                                      THEN f[i - 1] + claims[i].amount ELSE f[i - 1]
    <2> HIDE DEF f
    <2>1. QED BY <1>3
  <1>5. Total(claims) = f[n]
    BY DEF Total
  <1>6. f = [i \in 0 .. n |-> f[i]]
    <2> HIDE DEF f
    <2>1. QED BY <1>3
  <1> HIDE DEF f, Def, h
  <1> DEFINE G == {i \in 0 .. n : f[i] \in Nat}
  <1>7. 0 \in G
    BY <1>1, <1>4
  <1>8. ASSUME NEW i \in 0 .. n, i < n, i \in G
        PROVE  i + 1 \in G
    <2>1. i + 1 \in 1 .. n /\ i + 1 \in 0 .. n /\ claims[i + 1].amount \in Nat /\ f[i] \in Nat
      BY <1>1, <1>8
    <2>2. QED BY <1>4, <2>1
  <1>9. \A i \in 0 .. n : f[i] \in Nat
    <2>1. 0 .. n \subseteq G
      <3> HIDE DEF G
      <3>1. QED BY <1>1, <1>7, <1>8, IntervalInduction
    <2>2. QED BY <2>1
  <1>10. f \in [0 .. n -> Nat] /\ f[0] = 0
    BY <1>1, <1>4, <1>6, <1>9
  <1>11. ASSUME NEW i \in 1 .. n PROVE f[i] = f[i - 1] + Due(claims[i])
    <2>1. i \in 0 .. n /\ i - 1 \in 0 .. n /\ i # 0
      BY <1>1
    <2>2. f[i - 1] \in Nat
      BY <1>9, <2>1
    <2>3. QED BY <1>4, <2>1, <2>2 DEF Due
  <1>12. QED BY <1>5, <1>10, <1>11

(* Settling a proposed claim adds what is then due on it.                  *)
LEMMA TotalSettled ==
  ASSUME NEW claims \in Seq(ClaimRecord), NEW other \in Seq(ClaimRecord),
         Len(other) = Len(claims), NEW i \in 1 .. Len(claims),
         \A j \in 1 .. Len(claims) : j # i => other[j] = claims[j],
         claims[i].status # "Approved"
  PROVE  Total(other) = Total(claims) + Due(other[i])
  <1> DEFINE n == Len(claims)
             d == Due(other[i])
  <1>1. n \in Nat
    OBVIOUS
  <1>2. PICK f \in [0 .. n -> Nat] :
          /\ f[0] = 0 /\ \A j \in 1 .. n : f[j] = f[j - 1] + Due(claims[j])
          /\ Total(claims) = f[n]
    BY TotalFacts
  <1>3. PICK g \in [0 .. n -> Nat] :
          /\ g[0] = 0 /\ \A j \in 1 .. n : g[j] = g[j - 1] + Due(other[j])
          /\ Total(other) = g[n]
    BY TotalFacts
  <1>4. /\ Due(claims[i]) = 0 /\ d \in Nat
        /\ \A j \in 1 .. n : j # i => Due(other[j]) = Due(claims[j])
        /\ \A j \in 1 .. n : Due(claims[j]) \in Nat
    <2>1. \A c \in ClaimRecord : Due(c) \in Nat
      BY DEF ClaimRecord, Due
    <2>2. \A j \in 1 .. n : claims[j] \in ClaimRecord /\ other[j] \in ClaimRecord
      OBVIOUS
    <2>3. Due(claims[i]) = 0
      BY DEF Due
    <2>4. QED BY <2>1, <2>2, <2>3
  <1> DEFINE G == {j \in 0 .. n : g[j] = f[j] + (IF j >= i THEN d ELSE 0)}
  <1>5. 0 \in G
    BY <1>1, <1>2, <1>3
  <1>6. ASSUME NEW j \in 0 .. n, j < n, j \in G
        PROVE  j + 1 \in G
    <2>1. /\ j + 1 \in 1 .. n /\ j + 1 \in 0 .. n /\ j = (j + 1) - 1 /\ i \in Nat
          /\ f[j] \in Nat /\ g[j] = f[j] + (IF j >= i THEN d ELSE 0)
      BY <1>1, <1>2, <1>6
    <2>2. f[j + 1] = f[j] + Due(claims[j + 1]) /\ g[j + 1] = g[j] + Due(other[j + 1])
      BY <1>2, <1>3, <2>1
    <2> HIDE DEF d
    <2>3. CASE j + 1 = i
      <3>1. Due(other[j + 1]) = d /\ Due(claims[j + 1]) = 0 /\ ~(j >= i) /\ j + 1 >= i
        BY <1>4, <2>1, <2>3 DEF d
      <3>2. d \in Nat
        BY <1>4
      <3>3. g[j] = f[j] /\ f[j + 1] = f[j] /\ g[j + 1] = f[j + 1] + d
        <4>1. g[j] = f[j]
          BY <2>1, <3>1
        <4>2. f[j + 1] = f[j]
          BY <2>1, <2>2, <3>1
        <4>3. QED BY <2>2, <3>1, <4>1, <4>2
      <3>4. QED BY <2>1, <3>1, <3>3
    <2>4. CASE j + 1 # i
      <3>1. Due(other[j + 1]) = Due(claims[j + 1]) /\ Due(claims[j + 1]) \in Nat
        BY <1>4, <2>1, <2>4
      <3>2. (j >= i) <=> (j + 1 >= i)
        BY <2>1, <2>4
      <3>3. d \in Nat
        BY <1>4
      <3> DEFINE paid == IF j >= i THEN d ELSE 0
                 owed == Due(claims[j + 1])
      <3>4. paid \in Nat /\ paid = (IF j + 1 >= i THEN d ELSE 0) /\ owed \in Nat
        BY <3>1, <3>2, <3>3
      <3>5. /\ g[j] = f[j] + paid /\ f[j + 1] = f[j] + owed
            /\ g[j + 1] = g[j] + owed
        BY <2>1, <2>2, <3>1
      <3> HIDE DEF paid, owed
      <3>6. g[j + 1] = f[j + 1] + paid
        BY <2>1, <3>4, <3>5
      <3>7. QED BY <2>1, <3>4, <3>6
    <2>5. QED BY <2>3, <2>4
  <1>7. n \in G
    <2> HIDE DEF G
    <2>1. 0 .. n \subseteq G
      BY <1>1, <1>5, <1>6, IntervalInduction
    <2>2. QED BY <1>1, <2>1
  <1>8. QED BY <1>1, <1>2, <1>3, <1>7

(* A claim that is proposed adds nothing.                                  *)
LEMMA TotalProposed ==
  ASSUME NEW claims \in Seq(ClaimRecord), NEW c \in ClaimRecord, c.status = "Proposed"
  PROVE  Total(Append(claims, c)) = Total(claims)
  <1> DEFINE n == Len(claims)
             other == Append(claims, c)
  <1>1. /\ n \in Nat /\ other \in Seq(ClaimRecord) /\ Len(other) = n + 1
        /\ \A j \in 1 .. n : other[j] = claims[j]
        /\ other[n + 1] = c
    BY AppendProperties
  <1> HIDE DEF other
  <1>2. PICK f \in [0 .. n -> Nat] :
          /\ f[0] = 0 /\ \A j \in 1 .. n : f[j] = f[j - 1] + Due(claims[j])
          /\ Total(claims) = f[n]
    BY TotalFacts
  <1>3. PICK g \in [0 .. n + 1 -> Nat] :
          /\ g[0] = 0 /\ \A j \in 1 .. n + 1 : g[j] = g[j - 1] + Due(other[j])
          /\ Total(other) = g[n + 1]
    BY <1>1, TotalFacts
  <1> DEFINE G == {j \in 0 .. n : g[j] = f[j]}
  <1>4. 0 \in G
    BY <1>1, <1>2, <1>3
  <1>5. ASSUME NEW j \in 0 .. n, j < n, j \in G
        PROVE  j + 1 \in G
    <2>1. /\ j + 1 \in 1 .. n /\ j + 1 \in 0 .. n /\ j + 1 \in 1 .. n + 1 /\ j = (j + 1) - 1
          /\ g[j] = f[j]
      BY <1>1, <1>5
    <2>2. other[j + 1] = claims[j + 1]
      BY <1>1, <2>1
    <2>3. QED BY <1>2, <1>3, <2>1, <2>2
  <1>6. n \in G
    <2> HIDE DEF G
    <2>1. 0 .. n \subseteq G
      BY <1>1, <1>4, <1>5, IntervalInduction
    <2>2. QED BY <1>1, <2>1
  <1>7. g[n + 1] = g[n] + 0 /\ g[n] \in Nat
    <2>1. n + 1 \in 1 .. n + 1 /\ (n + 1) - 1 = n /\ n \in 0 .. n + 1
      BY <1>1
    <2>2. Due(other[n + 1]) = 0
      BY <1>1 DEF Due
    <2>3. QED BY <1>3, <2>1, <2>2
  <1>8. QED BY <1>2, <1>3, <1>6, <1>7 DEF other
-----------------------------------------------------------------------------
(* Bids and answers.                                                       *)

(* Whatever the mileage policy, a bid that takes the terms of a posting as *)
(* they are, and its miles, disputes nothing of it.                        *)
LEMMA OwnBidUndisputed ==
  ASSUME NEW p, Good(p), NEW policy, NEW amount \in Int, NEW b, b.rate \in RateRecord,
         b.rate.model = p.rate.model,
         p.rate.model = "PerMile" => b.rate.units = p.rate.units,
         LET a == BidFor(p, amount) IN
           /\ b.equipment = a.equipment /\ b.driver = a.driver /\ b.stops = a.stops
           /\ b.special = a.special /\ b.schedule = a.schedule
  PROVE  ~Disputed(policy, p, b)
  <1> DEFINE rate == b.rate
             equipment == [accepted |-> TRUE, class |-> Class(p), sub |-> Sub(p),
                           tags |-> Tags(p), length |-> p.length, shortest |-> p.length,
                           longest |-> p.length, count |-> p.count]
             driver == [accepted |-> TRUE, config |-> IF p.driver = Absent THEN None ELSE p.driver]
             stops == [accepted |-> TRUE, count |-> StopCount(p), types |-> StopTypes(p)]
             special == [accepted |-> TRUE, exceptions |-> FALSE]
             schedule == [accepted |-> TRUE, exceptions |-> FALSE,
                          pickup |-> p.pickupWindow, delivery |-> p.deliveryWindow]
  <1>1. /\ p \in Posting /\ ValidPosting(p) /\ ValidRate(p.rate)
        /\ p.label \in Label /\ p.tags \in (SUBSET Tag) \cup {Absent}
        /\ p.kind \in {"load", "truck"} /\ p.rate \in RateRecord
        /\ p.length \in Int /\ p.count \in Int
        /\ p.driver \in Driver \cup {Absent}
        /\ p.stops \in Seq({"Pickup", "Drop"}) \cup {Absent}
        /\ p.pickupWindow \in Int \cup {Absent} /\ p.deliveryWindow \in Int \cup {Absent}
    BY DEF Good, Posting, ValidPosting
  <1>2. /\ b.equipment = equipment /\ b.driver = driver
        /\ p.kind = "load" => b.stops = stops /\ b.special = special /\ b.schedule = schedule
    BY <1>1 DEF BidFor
  <1>3. /\ Class(p) \in ClassName /\ Canonical[Class(p)] = Class(p)
        /\ Sub(p) \in SubClass \cup {None} /\ Tags(p) \in SUBSET Tag
    BY <1>1, EquipmentFacts
  <1>4. ~EquipmentDisputed(p, b.equipment)
    <2>1. equipment \in EquipmentTerm
      BY <1>1, <1>3 DEF EquipmentTerm
    <2>2. equipment # Absent
      <3> HIDE DEF equipment
      <3>1. QED BY <2>1, AbsentAssumption
    <2>3. ~LengthDiffers(p, equipment)
      BY <1>1, TermsAssumption DEF LengthDiffers
    <2>4. QED BY <1>1, <1>2, <1>3, <2>2, <2>3 DEF EquipmentDisputed
  <1>5. ~DriverDisputed(p, b.driver)
    <2>1. driver \in DriverTerm
      BY <1>1 DEF DriverTerm
    <2>2. driver # Absent
      <3> HIDE DEF driver
      <3>1. QED BY <2>1, AbsentAssumption
    <2>3. QED BY <1>2, <2>2 DEF DriverDisputed
  <1>6. ASSUME p.kind = "load"
        PROVE  /\ ~StopsDisputed(p, b.stops) /\ ~SpecialDisputed(p, b.special)
               /\ ~ScheduleDisputed(p, b.schedule)
    <2>1. ~StopsDisputed(p, b.stops)
      BY <1>2, <1>6 DEF StopsDisputed
    <2>2. special # Absent
      <3>1. special \in SpecialTerm
        BY DEF SpecialTerm
      <3> HIDE DEF special
      <3>2. QED BY <3>1, AbsentAssumption
    <2>3. schedule # Absent
      <3>1. schedule \in ScheduleTerm
        BY <1>1 DEF ScheduleTerm
      <3> HIDE DEF schedule
      <3>2. QED BY <3>1, AbsentAssumption
    <2>4. ~SpecialDisputed(p, b.special)
      BY <1>2, <1>6, <2>2 DEF SpecialDisputed
    <2>5. ~ScheduleDisputed(p, b.schedule)
      BY <1>2, <1>6, <2>3 DEF ScheduleDisputed, WindowDiffers
    <2>6. QED BY <2>1, <2>4, <2>5
  <1>7. ~MilesDisputed(policy, p.rate, rate)
    <2> SUFFICES ASSUME p.rate.model = "PerMile" PROVE ~MilesDisputed(policy, p.rate, rate)
      BY DEF MilesDisputed
    <2>1. p.rate.units \in Int \cup {Absent} /\ p.rate.units # Absent
      BY <1>1 DEF ValidRate, Counted, RateRecord
    <2>2. Delta(p.rate.units, rate.units) = 0
      BY <2>1 DEF Delta
    <2>3. QED BY <2>1, <2>2 DEF MilesDisputed
  <1>8. QED BY <1>2, <1>4, <1>5, <1>6, <1>7 DEF Disputed

LEMMA CounterFacts ==
  ASSUME NEW p, Good(p)
  PROVE  LET r == CounterRate(p)
         IN  /\ r \in RateRecord /\ ValidRate(r) /\ r.model = p.rate.model
             /\ r.amount \in Int /\ r.amount >= p.rate.amount
             /\ p.rate.model = "PerMile" => r.units = p.rate.units
  <1> DEFINE model == p.rate.model
             amount == p.rate.amount + CounterStep[model]
             units == IF model = "PerMile" THEN p.rate.units ELSE Absent
  <1>1. /\ model \in RateModel /\ p.rate.amount \in Int /\ p.rate.amount >= 0
        /\ p.rate.units \in Int \cup {Absent}
        /\ model = "PerMile" => p.rate.units # Absent /\ p.rate.units > 0
    BY DEF Good, Posting, RateRecord, ValidPosting, ValidRate, Counted
  <1>2. CounterStep[model] \in Nat
    BY <1>1, RateFacts
  <1>3. /\ amount \in Int /\ amount >= p.rate.amount /\ amount >= 0
        /\ units \in Int \cup {Absent} /\ (units = Absent \/ units > 0)
    BY <1>1, <1>2
  <1>4. CounterRate(p) = BuildRate(model, amount, units)
    BY DEF CounterRate
  <1> HIDE DEF amount, units
  <1>5. LET r == BuildRate(model, amount, units)
        IN  /\ r \in RateRecord /\ r.model = model /\ r.amount = amount
            /\ units # Absent => r.units = units
            /\ ValidRate(r)
    BY <1>1, <1>3, BuiltRate
  <1>6. model = "PerMile" => units # Absent /\ units = p.rate.units
    BY <1>1 DEF units
  <1>7. QED BY <1>3, <1>4, <1>5, <1>6

(* A bid made for the posting at the countered amount is accepted, and so  *)
(* is one at the countered rate.                                           *)
LEMMA CounterTaken ==
  ASSUME NEW p, Good(p), NEW policy
  PROVE  LET again == BidFor(p, CounterRate(p).amount)
         IN  /\ Answer(policy, p, again, "Accept").type = "Accept"
             /\ Answer(policy, p, [again EXCEPT !.rate = CounterRate(p)], "Accept").type
                  = "Accept"
  <1> DEFINE r == CounterRate(p)
             again == BidFor(p, r.amount)
             other == [again EXCEPT !.rate = r]
  <1>1. /\ r \in RateRecord /\ ValidRate(r) /\ r.model = p.rate.model
        /\ r.amount \in Int /\ r.amount >= p.rate.amount
        /\ p.rate.model = "PerMile" => r.units = p.rate.units
    BY CounterFacts
  <1>2. /\ p.rate.model \in RateModel /\ p.rate.amount \in Int
        /\ p.rate.units \in Int \cup {Absent}
        /\ p.rate.model = "PerMile" => p.rate.units # Absent
    BY DEF Good, Posting, RateRecord, ValidPosting, ValidRate, Counted
  <1> HIDE DEF r
  <1>3. /\ again.rate \in RateRecord /\ again.rate.model = p.rate.model
        /\ again.rate.amount = r.amount
        /\ p.rate.model = "PerMile" => again.rate.units = p.rate.units
    <2>1. again.rate = BuildRate(p.rate.model, r.amount, p.rate.units)
      BY DEF BidFor
    <2>2. LET built == BuildRate(p.rate.model, r.amount, p.rate.units)
          IN  /\ built \in RateRecord /\ built.model = p.rate.model
              /\ built.amount = r.amount
              /\ p.rate.units # Absent => built.units = p.rate.units
      <3>1. PICK model \in RateModel, amount \in Int, units \in Int \cup {Absent} :
              model = p.rate.model /\ amount = r.amount /\ units = p.rate.units
        BY <1>1, <1>2
      <3>2. LET built == BuildRate(model, amount, units)
            IN  /\ built \in RateRecord /\ built.model = model
                /\ built.amount = amount
                /\ units # Absent => built.units = units
        BY BuiltRate
      <3>3. QED BY <3>1, <3>2
    <2> HIDE DEF again
    <2>3. QED BY <1>2, <2>1, <2>2
  <1>4. /\ other.rate = r /\ other.equipment = again.equipment
        /\ other.driver = again.driver /\ other.stops = again.stops
        /\ other.special = again.special /\ other.schedule = again.schedule
    BY DEF BidFor
  <1> HIDE DEF again, other
  <1>5. again = BidFor(p, r.amount)
    BY DEF again
  <1>6. ~Disputed(policy, p, again)
    BY <1>1, <1>3, <1>5, OwnBidUndisputed
  <1>7. ~Disputed(policy, p, other)
    BY <1>1, <1>4, <1>5, OwnBidUndisputed
  <1>8. Answer(policy, p, again, "Accept") = [type |-> "Accept"]
    BY <1>1, <1>2, <1>3, <1>6 DEF Answer
  <1>9. Answer(policy, p, other, "Accept") = [type |-> "Accept"]
    BY <1>1, <1>2, <1>4, <1>7 DEF Answer
  <1>10. QED BY <1>8, <1>9 DEF r, again, other

(* A bid for a posting is the agent's own, or changed in the miles or in   *)
(* one term.                                                               *)
BidForm(a, b) ==
  \/ b = a
  \/ \E u \in Distances : b = [a EXCEPT !.rate.units = u]
  \/ \E t \in Terms : \E x \in OtherTerms(t, a[t]) : b = [a EXCEPT ![t] = x]

LEMMA BidForms ==
  ASSUME NEW p, NEW amount, NEW a, a = BidFor(p, amount), NEW b, b \in {a} \cup Variants(a)
  PROVE  /\ DOMAIN a = {"rate"} \cup Terms
         /\ a.rate = BuildRate(p.rate.model, amount, p.rate.units)
         /\ BidForm(a, b)
  <1>1. /\ DOMAIN a = {"rate"} \cup Terms
        /\ a.rate = BuildRate(p.rate.model, amount, p.rate.units)
    BY DEF BidFor, Terms
  <1>2. BidForm(a, b)
    BY DEF Variants, BidForm
  <1>3. QED BY <1>1, <1>2

(* What is bid for a posting is a rate.                                    *)
LEMMA BidFacts ==
  ASSUME NEW p, Good(p), NEW b \in BidsFor(p)
  PROVE  b.rate \in RateRecord
  <1>1. PICK amount \in Offered(p.rate.model) :
          b \in {BidFor(p, amount)} \cup Variants(BidFor(p, amount))
    BY DEF BidsFor
  <1> DEFINE a == BidFor(p, amount)
  <1>0. a = BidFor(p, amount)
    OBVIOUS
  <1> HIDE DEF a
  <1>2. /\ p.rate.model \in RateModel /\ p.rate.units \in Int \cup {Absent}
    BY DEF Good, Posting, RateRecord
  <1>3. amount \in Int
    BY <1>1, <1>2, NegotiationAssumption
  <1>4. /\ DOMAIN a = {"rate"} \cup Terms
        /\ a.rate = BuildRate(p.rate.model, amount, p.rate.units)
        /\ BidForm(a, b)
    BY <1>0, <1>1, BidForms
  <1>5. a.rate \in RateRecord
    <2>1. \A model \in RateModel, n \in Int, units \in Int \cup {Absent} :
            BuildRate(model, n, units) \in RateRecord
      BY BuiltRate
    <2>2. QED BY <1>2, <1>3, <1>4, <2>1
  <1>6. CASE b = a
    BY <1>5, <1>6
  <1>7. CASE \E u \in Distances : b = [a EXCEPT !.rate.units = u]
    <2>1. PICK u \in Distances : b = [a EXCEPT !.rate.units = u]
      BY <1>7
    <2>2. b.rate = [a.rate EXCEPT !.units = u]
      BY <1>4, <2>1
    <2>3. u \in Int
      BY NegotiationAssumption
    <2>4. QED BY <1>5, <2>2, <2>3 DEF RateRecord
  <1>8. CASE \E t \in Terms : \E x \in OtherTerms(t, a[t]) : b = [a EXCEPT ![t] = x]
    <2>1. PICK t \in Terms : \E x : b = [a EXCEPT ![t] = x]
      BY <1>8
    <2>2. t # "rate"
      BY DEF Terms
    <2>3. QED BY <1>4, <1>5, <2>1, <2>2
  <1>9. QED BY <1>4, <1>6, <1>7, <1>8 DEF BidForm

(* An answer accepts only what is agreed, and counters with CounterRate.   *)
LEMMA AnswerFacts ==
  ASSUME NEW policy, NEW p, NEW b, NEW forced
  PROVE  LET a == Answer(policy, p, b, forced)
         IN  /\ a.type \in {"Accept", "Counter", "Reject"}
             /\ a.type = "Accept" /\ p.rate.amount \in Int /\ b.rate.amount \in Int =>
                  Agreed(policy, p, b)
             /\ a.type = "Counter" => a.rate = CounterRate(p)
  BY DEF Answer, Agreed

(* What was agreed, said in terms of the posting and the bid.              *)
LEMMA AgreedMeans ==
  ASSUME NEW p, Good(p), NEW policy \in Mileage, NEW b \in BidsFor(p), ValidBid(b),
         Agreed(policy, p, b)
  PROVE  LET apart == Delta(b.rate.units, p.rate.units) IN
         /\ b.rate.model = p.rate.model /\ b.rate.amount >= p.rate.amount
         /\ p.rate.model = "PerMile" /\ apart > 1 =>
              /\ policy.mode # "strict"
              /\ apart <= policy.abs \/ 1000 * apart <= p.rate.units * policy.rel
         /\ b.equipment # Absent /\ b.equipment.accepted /\ SameEquipment(p, b.equipment)
         /\ p.driver # Absent =>
              b.driver # Absent /\ b.driver.accepted /\ b.driver.config = p.driver
         /\ p.kind = "load" =>
              /\ b.stops # Absent => b.stops.accepted /\ SameStops(p, b.stops)
              /\ p.special => b.special # Absent /\ b.special.accepted /\ ~b.special.exceptions
              /\ p.delivery # Absent \/ p.pickupWindow # Absent \/ p.deliveryWindow # Absent =>
                   /\ b.schedule # Absent /\ b.schedule.accepted /\ ~b.schedule.exceptions
                   /\ SameWindows(p, b.schedule)
  <1> DEFINE apart == Delta(b.rate.units, p.rate.units)
  <1>1. /\ p.rate.model \in RateModel /\ p.rate.amount \in Int
        /\ p.rate.units \in Int \cup {Absent}
        /\ p.rate.model = "PerMile" => p.rate.units # Absent /\ p.rate.units > 0
    BY DEF Good, Posting, RateRecord, ValidPosting, ValidRate, Counted
  <1>2. b.rate \in RateRecord
    BY BidFacts
  <1>3. /\ b.rate.model = p.rate.model /\ b.rate.amount >= p.rate.amount
        /\ ~EquipmentDisputed(p, b.equipment) /\ ~DriverDisputed(p, b.driver)
        /\ p.kind = "load" => /\ ~StopsDisputed(p, b.stops) /\ ~SpecialDisputed(p, b.special)
                              /\ ~ScheduleDisputed(p, b.schedule)
        /\ ~MilesDisputed(policy, p.rate, b.rate)
    BY DEF Agreed, Disputed
  <1>4. b.equipment # Absent /\ b.equipment.accepted /\ SameEquipment(p, b.equipment)
    <2>1. p.length \in Int
      BY DEF Good, Posting
    <2>2. /\ b.equipment # Absent /\ b.equipment.accepted
          /\ ~LengthDiffers(p, b.equipment)
      BY <1>3 DEF EquipmentDisputed
    <2>3. /\ b.equipment.shortest \in Int => b.equipment.shortest <= p.length
          /\ b.equipment.longest \in Int => p.length <= b.equipment.longest
          /\ /\ b.equipment.length \in Int
             /\ {b.equipment.shortest, b.equipment.longest} = {Absent}
             => b.equipment.length = p.length
      BY <2>1, <2>2, TermsAssumption DEF LengthDiffers
    <2>4. QED BY <1>3, <2>2, <2>3, TermsAssumption, AbsentAssumption
      DEF EquipmentDisputed, SameEquipment
  <1>5. p.driver # Absent =>
          b.driver # Absent /\ b.driver.accepted /\ b.driver.config = p.driver
    BY <1>3 DEF DriverDisputed
  <1>6. p.kind = "load" =>
          /\ b.stops # Absent => b.stops.accepted /\ SameStops(p, b.stops)
          /\ p.special => b.special # Absent /\ b.special.accepted /\ ~b.special.exceptions
          /\ p.delivery # Absent \/ p.pickupWindow # Absent \/ p.deliveryWindow # Absent =>
               /\ b.schedule # Absent /\ b.schedule.accepted /\ ~b.schedule.exceptions
               /\ SameWindows(p, b.schedule)
    <2> SUFFICES ASSUME p.kind = "load"
                 PROVE  /\ b.stops # Absent => b.stops.accepted /\ SameStops(p, b.stops)
                        /\ p.special => /\ b.special # Absent /\ b.special.accepted
                                        /\ ~b.special.exceptions
                        /\ p.delivery # Absent \/ p.pickupWindow # Absent
                             \/ p.deliveryWindow # Absent =>
                             /\ b.schedule # Absent /\ b.schedule.accepted
                             /\ ~b.schedule.exceptions /\ SameWindows(p, b.schedule)
      OBVIOUS
    <2>1. b.stops # Absent => b.stops.accepted /\ SameStops(p, b.stops)
      BY <1>3, TermsAssumption DEF StopsDisputed, SameStops
    <2>2. p.special => b.special # Absent /\ b.special.accepted /\ ~b.special.exceptions
      BY <1>3 DEF SpecialDisputed
    <2>3. p.delivery # Absent \/ p.pickupWindow # Absent \/ p.deliveryWindow # Absent =>
            /\ b.schedule # Absent /\ b.schedule.accepted /\ ~b.schedule.exceptions
            /\ SameWindows(p, b.schedule)
      BY <1>3, TermsAssumption DEF ScheduleDisputed, WindowDiffers, SameWindows
    <2>4. QED BY <2>1, <2>2, <2>3
  <1>7. ASSUME p.rate.model = "PerMile", apart > 1
        PROVE  /\ policy.mode # "strict"
               /\ apart <= policy.abs \/ 1000 * apart <= p.rate.units * policy.rel
    <2>1. b.rate.units \in Int /\ p.rate.units \in Int
      BY <1>1, <1>2, <1>3, <1>7 DEF ValidBid, ValidRate, Counted, RateRecord
    <2>2. apart = Delta(p.rate.units, b.rate.units) /\ apart \in Int
      BY <2>1 DEF Delta
    <2>3. /\ policy.mode \in {"strict", "balanced"} /\ policy.abs \in Nat /\ policy.rel \in Nat
      BY NegotiationAssumption
    <2> DEFINE x == p.rate.units * policy.rel
    <2>4. x \in Int
      BY <2>1, <2>3
    <2>5. /\ policy.mode = "balanced"
          /\ ~(1000 * apart > Larger(1000 * policy.abs, x))
      <3>1. ~(/\ Delta(p.rate.units, b.rate.units) > 1
              /\ policy.mode = "balanced" =>
                   1000 * Delta(p.rate.units, b.rate.units)
                     > Larger(1000 * policy.abs, p.rate.units * policy.rel))
        BY <1>3, <1>7 DEF MilesDisputed
      <3> HIDE DEF apart
      <3>2. QED BY <1>7, <2>2, <2>3, <3>1
    <2> HIDE DEF apart, x
    <2>6. apart <= policy.abs \/ 1000 * apart <= x
      BY <2>2, <2>3, <2>4, <2>5 DEF Larger
    <2>7. QED BY <2>5, <2>6 DEF x
  <1>8. QED BY <1>3, <1>4, <1>5, <1>6, <1>7
-----------------------------------------------------------------------------
(* The steps.                                                              *)

LEMMA RangeAppend ==
  ASSUME NEW S, NEW s \in Seq(S), NEW x \in S
  PROVE  Append(s, x) \in Seq(S) /\ Range(Append(s, x)) = Range(s) \cup {x}
  <1> DEFINE t == Append(s, x)
             n == Len(s)
  <1>1. /\ t \in Seq(S) /\ Len(t) = n + 1 /\ n \in Nat
        /\ \A j \in 1 .. n : t[j] = s[j]
        /\ t[n + 1] = x
    BY AppendProperties
  <1>2. DOMAIN t = 1 .. n + 1 /\ DOMAIN s = 1 .. n
    BY <1>1
  <1> HIDE DEF t
  <1>3. Range(t) = {t[j] : j \in 1 .. n + 1} /\ Range(s) = {s[j] : j \in 1 .. n}
    BY <1>2 DEF Range
  <1>4. 1 .. n + 1 = (1 .. n) \cup {n + 1}
    BY <1>1
  <1>5. \A q : q \in Range(t) <=> q \in Range(s) \/ q = x
    BY <1>1, <1>3, <1>4
  <1>6. QED BY <1>1, <1>5 DEF t

(* A posting that a flow sends is taken into the book as a good one.       *)
LEMMA SentPosting ==
  ASSUME NEW k \in {"load", "shipper", "truck"}, NEW p \in Postings(k), Heard(p) \/ k # "shipper"
  PROVE  /\ Good(Normalized(p)) /\ ValidPosting(p) /\ p \in Tender \cup Posting
         /\ Normalized(p).kind = p.kind
         /\ p.kind = IF k = "truck" THEN "truck" ELSE "load"
  <1>1. CASE k = "shipper"
    <2>1. p \in Tender /\ ValidPosting(p)
      BY <1>1, NegotiationAssumption DEF Postings, Heard
    <2>2. p.kind = "load"
      BY <2>1 DEF Tender
    <2>3. QED BY <1>1, <2>1, <2>2, NormalizedFacts DEF Good
  <1>2. CASE k = "load"
    <2>1. PICK m \in Models : p = LoadPosting(m)
      BY <1>2 DEF Postings
    <2>2. QED BY <1>2, <2>1, OwnPostings DEF Good
  <1>3. CASE k = "truck"
    <2>1. PICK m \in Models : p = TruckPosting(m)
      BY <1>3 DEF Postings
    <2>2. QED BY <1>3, <2>1, OwnPostings DEF Good
  <1>4. QED BY <1>1, <1>2, <1>3

(* What is chosen is a good posting of the book.                           *)
LEMMA ChosenIsGood ==
  ASSUME BooksInv, chosen \in Range(Book)
  PROVE  Good(chosen) /\ chosen \in Posting
  BY DEF BooksInv, Book, Good

LEMMA InitHolds == Init => IInv
  <1> SUFFICES ASSUME Init PROVE IInv
    OBVIOUS
  <1>1. Typed
    BY DEF Init, Typed
  <1>2. BooksInv
    <2>1. <<>> \in Seq(Posting) /\ Range(<<>>) = {}
      BY DEF Range
    <2>2. QED BY <2>1 DEF Init, BooksInv
  <1>3. StageInv /\ DealInv /\ ClaimsInv /\ SearchInv
    BY DEF Init, StageInv, DealInv, ClaimsInv, SearchInv, OwnSearchFinds
  <1>4. QED BY <1>1, <1>2, <1>3 DEF IInv

LEMMA PostStep ==
  ASSUME IInv, NEW k \in {"load", "shipper", "truck"}, NEW p \in Postings(k), Post(k, p)
  PROVE  IInv'
  <1> USE DEF IInv
  <1>1. /\ stage = "idle" /\ kind' = k /\ own' = p
        /\ loads' = IF k = "load" \/ (k = "shipper" /\ Heard(p))
                    THEN Append(loads, Normalized(p)) ELSE loads
        /\ trucks' = IF k = "truck" THEN Append(trucks, Normalized(p)) ELSE trucks
        /\ \/ Heard(p) /\ stage' = "search" /\ refused' = refused
           \/ ~Heard(p) /\ stage' = "over" /\ refused' = "New"
        /\ UNCHANGED <<signed, mileage, search, found, chosen, bid, answer, report, inForce>>
    BY DEF Post, Refuse
  <1>2. /\ search = Absent /\ chosen = Absent /\ bid = Absent /\ answer = Absent
        /\ report = Absent
    BY <1>1 DEF StageInv
  <1>3. Typed'
    BY <1>1 DEF Typed
  <1>4. Heard(p)' <=> Heard(p)
    BY <1>1 DEF Heard
  <1>5. BooksInv'
    <2>1. CASE k = "truck"
      <3>1. Good(Normalized(p)) /\ Normalized(p).kind = "truck"
        BY <2>1, SentPosting
      <3>2. /\ trucks' \in Seq(Posting)
            /\ Range(trucks') = Range(trucks) \cup {Normalized(p)}
        BY <1>1, <2>1, <3>1, RangeAppend DEF BooksInv, Good
      <3>3. QED BY <1>1, <2>1, <3>1, <3>2 DEF BooksInv
    <2>2. CASE k = "load" \/ (k = "shipper" /\ Heard(p))
      <3>1. Good(Normalized(p)) /\ Normalized(p).kind = "load"
        BY <2>2, SentPosting
      <3>2. /\ loads' \in Seq(Posting)
            /\ Range(loads') = Range(loads) \cup {Normalized(p)}
        BY <1>1, <2>2, <3>1, RangeAppend DEF BooksInv, Good
      <3>3. QED BY <1>1, <2>2, <3>1, <3>2 DEF BooksInv
    <2>3. CASE k = "shipper" /\ ~Heard(p)
      BY <1>1, <2>3 DEF BooksInv
    <2>4. QED BY <2>1, <2>2, <2>3
  <1>6. StageInv'
    BY <1>1, <1>2, <1>4 DEF StageInv
  <1>7. DealInv' /\ ClaimsInv'
    BY <1>1, <1>2 DEF DealInv, ClaimsInv
  <1>8. SearchInv'
    <2>1. ASSUME k = "shipper", stage' = "search" PROVE Normalized(p) \in Range(loads')
      <3>1. Heard(p) /\ Good(Normalized(p))
        BY <1>1, <2>1, SentPosting
      <3>2. Range(loads') = Range(loads) \cup {Normalized(p)}
        BY <1>1, <2>1, <3>1, RangeAppend DEF BooksInv, Good
      <3>3. QED BY <3>2
    <2>2. QED BY <1>1, <1>2, <2>1 DEF SearchInv, OwnSearchFinds
  <1>9. QED BY <1>3, <1>5, <1>6, <1>7, <1>8

(* The search made for a tender finds it, with the three exceptions.       *)
LEMMA OwnIsFound ==
  ASSUME NEW p \in Tender, ValidPosting(p)
  PROVE  LET n == Normalized(p)
         IN  \/ Found(n, SearchFor(n, p.lane))
             \/ p.rate.amount > SearchMax[p.rate.model]
             \/ p.driver = Absent \/ p.length % 2 = 1
  <1> DEFINE n == Normalized(p)
             s == SearchFor(n, p.lane)
  <1> SUFFICES ASSUME ~(p.rate.amount > SearchMax[p.rate.model]), p.driver # Absent,
                      p.length % 2 # 1
               PROVE  Found(n, s)
    OBVIOUS
  <1>1. /\ n \in Posting /\ ValidPosting(n) /\ n.kind = p.kind
        /\ n.rate = p.rate /\ n.driver = p.driver /\ n.length = p.length /\ n.lane = p.lane
    BY NormalizedFacts
  <1>2. /\ n.label \in Label /\ n.tags \in (SUBSET Tag) \cup {Absent} /\ n.length \in Int
        /\ n.rate \in RateRecord /\ p.kind = "load" /\ n.tracking \in BOOLEAN
        /\ n.earliest \in Int /\ n.latest \in Int
        /\ n.stops \in Seq({"Pickup", "Drop"}) \cup {Absent}
    BY <1>1 DEF Posting, Tender
  <1>3. /\ ValidRate(n.rate) /\ n.earliest <= n.latest /\ n.length > 0
    BY <1>1, <1>2 DEF ValidPosting, ValidSchedule
  <1> HIDE DEF n
  <1>4. /\ s.lane = p.lane /\ s.label = n.label /\ s.class = Class(n) /\ s.sub = Sub(n)
        /\ s.tags = Tags(n) /\ s.driver = n.driver /\ s.shortest = Whole(n.length)
        /\ s.longest = Whole(n.length) /\ s.from = n.earliest /\ s.model = n.rate.model
        /\ s.low = 0 /\ s.high = SearchMax[n.rate.model] /\ s.multi = MultiStop(n)
        /\ s.fewest = StopCount(n) /\ s.most = StopCount(n) /\ s.types = StopTypes(n)
        /\ s.tracking = n.tracking
    BY <1>1 DEF SearchFor
  <1> HIDE DEF s
  <1>5. /\ Class(n) \in DOMAIN Canonical /\ Canonical[Class(n)] = Class(n)
    BY <1>2, EquipmentFacts
  <1>6. Whole(n.length) = n.length
    <2>1. n.length % 2 # 1 /\ n.length \in Int
      BY <1>1, <1>2
    <2>2. QED BY <2>1 DEF Whole
  <1>7. EquipmentFits(n, s)
    BY <1>2, <1>4, <1>5, <1>6 DEF EquipmentFits
  <1>8. /\ n.rate.amount \in Int /\ n.rate.amount >= 0
        /\ SearchMax[n.rate.model] \in Nat /\ n.rate.amount <= SearchMax[n.rate.model]
    <2>1. n.rate.model \in RateModel /\ n.rate.amount \in Int /\ n.rate.amount >= 0
      BY <1>2, <1>3 DEF RateRecord, ValidRate
    <2>2. SearchMax[n.rate.model] \in Nat
      BY <2>1, RateFacts
    <2>3. QED BY <1>1, <2>1, <2>2
  <1>9. StopCount(n) \in Int
    BY <1>2 DEF StopCount
  <1>10. QED
    BY <1>1, <1>2, <1>3, <1>4, <1>7, <1>8, <1>9 DEF Found, DriverFits

LEMMA SearchStep ==
  ASSUME IInv, NEW noMatch \in BOOLEAN, Search(noMatch)
  PROVE  IInv'
  <1> USE DEF IInv
  <1> DEFINE s == Filters(noMatch)
             matches == Matching(Book, s)
  <1>1. /\ stage = "search"
        /\ \/ /\ stage' = "over" /\ refused' = "Search" /\ UNCHANGED <<search, found, chosen>>
           \/ /\ search' = s /\ found' = matches /\ refused' = refused
              /\ \/ matches = <<>> /\ stage' = "over" /\ UNCHANGED chosen
                 \/ /\ matches # <<>> /\ stage' = "bid"
                    /\ chosen' = IF kind = "shipper" /\ Normalized(own) \in Range(matches)
                                 THEN Normalized(own) ELSE matches[1]
        /\ UNCHANGED <<signed, mileage, kind, loads, trucks, own, bid, answer, report, inForce>>
    BY DEF Search, Refuse
  <1>2. /\ search = Absent /\ chosen = Absent /\ bid = Absent /\ answer = Absent
        /\ report = Absent
        /\ kind \in {"load", "shipper", "truck"} /\ own \in Postings(kind) /\ Heard(own)
    BY <1>1 DEF StageInv
  <1>3. Book \in Seq(Posting) /\ Book' = Book
    BY <1>1 DEF Book, BooksInv
  <1>4. /\ matches \in Seq(Posting)
        /\ \A p : p \in Range(matches) <=> p \in Range(Book) /\ Found(p, s)
    BY <1>3, MatchingFacts
  <1> HIDE DEF matches
  <1>5. stage' = "bid" => chosen' \in Range(Book)
    <2> SUFFICES ASSUME stage' = "bid" PROVE chosen' \in Range(Book)
      OBVIOUS
    <2>1. matches # <<>> => matches[1] \in Range(matches)
      <3>1. matches # <<>> => 1 \in DOMAIN matches
        BY <1>4
      <3>2. QED BY <3>1 DEF Range
    <2>2. chosen' \in Range(matches)
      BY <1>1, <2>1
    <2>3. QED BY <1>4, <2>2
  <1>6. Typed'
    <2>1. chosen' \in {Absent} \cup Posting
      <3>1. CASE stage' = "bid"
        BY <1>5, <3>1 DEF BooksInv, Book, Good
      <3>2. CASE stage' # "bid"
        BY <1>1, <1>2, <3>2
      <3>3. QED BY <3>1, <3>2
    <2>2. QED BY <1>1, <2>1 DEF Typed
  <1>7. BooksInv'
    BY <1>1 DEF BooksInv
  <1>8. StageInv'
    <2>1. Heard(own)'
      BY <1>1, <1>2 DEF Heard
    <2>2. QED BY <1>1, <1>2, <2>1 DEF StageInv
  <1>9. DealInv' /\ ClaimsInv'
    BY <1>1, <1>2, <1>3, <1>5 DEF DealInv, ClaimsInv
  <1>10. SearchInv'
    <2>1. OwnSearchFinds'
      <3> SUFFICES ASSUME kind = "shipper", search' # Absent, search'.lane = own.lane
                   PROVE  \/ Normalized(own) \in Range(found')
                          \/ own.rate.amount > SearchMax[own.rate.model]
                          \/ own.driver = Absent \/ own.length % 2 = 1
        BY <1>1 DEF OwnSearchFinds
      <3>1. search' = s /\ found' = matches
        BY <1>1, <1>2
      <3>2. own \in Tenders /\ ValidPosting(own)
        BY <1>2 DEF Postings, Heard
      <3>3. own \in Tender
        BY <3>2, NegotiationAssumption
      <3>4. s = SearchFor(Normalized(own), own.lane)
        <4>1. PICK lane : s = SearchFor(Normalized(own), lane)
          BY DEF Filters
        <4>2. s.lane = lane
          BY <4>1 DEF SearchFor
        <4>3. QED BY <3>1, <4>1, <4>2
      <3>5. Normalized(own) \in Range(Book)
        BY <1>1 DEF SearchInv, Book
      <3> HIDE DEF s
      <3>6. Found(Normalized(own), s) => Normalized(own) \in Range(matches)
        BY <1>4, <3>5
      <3>7. QED BY <3>1, <3>2, <3>3, <3>4, <3>6, OwnIsFound
    <2>2. QED BY <1>1, <2>1 DEF SearchInv
  <1>11. QED BY <1>6, <1>7, <1>8, <1>9, <1>10

LEMMA BidStep ==
  ASSUME IInv, Bid
  PROVE  IInv'
  <1> USE DEF IInv
  <1>1. /\ stage = "bid" /\ bid' \in BidsFor(chosen)
        /\ search' = Absent /\ found' = <<>>
        /\ \/ ValidBid(bid') /\ stage' = "answer" /\ refused' = refused
           \/ stage' = "over" /\ refused' = "BidRequest"
        /\ UNCHANGED <<signed, mileage, kind, loads, trucks, own, chosen, answer, report, inForce>>
    BY DEF Bid, Refuse, BidsFor
  <1>2. /\ answer = Absent /\ report = Absent
        /\ kind \in {"load", "shipper", "truck"} /\ own \in Postings(kind) /\ Heard(own)
    BY <1>1 DEF StageInv
  <1>3. Typed' /\ BooksInv'
    BY <1>1 DEF Typed, BooksInv
  <1>4. StageInv'
    <2>1. Heard(own)'
      BY <1>1, <1>2 DEF Heard
    <2>2. QED BY <1>1, <1>2, <2>1 DEF StageInv
  <1>5. DealInv' /\ ClaimsInv'
    BY <1>1, <1>2 DEF DealInv, ClaimsInv, Book
  <1>6. SearchInv'
    BY <1>1 DEF SearchInv, OwnSearchFinds
  <1>7. QED BY <1>3, <1>4, <1>5, <1>6

LEMMA ConfigureStep ==
  ASSUME IInv, NEW m \in Mileage, Configure(m)
  PROVE  IInv'
  <1> USE DEF IInv
  <1>1. /\ mileage' = m
        /\ UNCHANGED <<signed, stage, kind, loads, trucks, own, search, found, chosen, bid,
                       answer, report, inForce, refused>>
    BY DEF Configure, flowVars
  <1>2. Typed' /\ BooksInv'
    BY <1>1 DEF Typed, BooksInv
  <1>3. StageInv' /\ SearchInv'
    BY <1>1 DEF StageInv, SearchInv, OwnSearchFinds, Heard
  <1>4. DealInv' /\ ClaimsInv'
    BY <1>1 DEF DealInv, ClaimsInv, Book, Cap
  <1>5. QED BY <1>2, <1>3, <1>4

LEMMA RespondStep ==
  ASSUME IInv, NEW forced, Respond(forced)
  PROVE  IInv'
  <1> USE DEF IInv
  <1> DEFINE a == Answer(mileage, chosen, bid, forced)
  <1>1. /\ stage = "answer" /\ answer' = a /\ inForce' = mileage
        /\ \/ a.type = "Accept" /\ stage' = "book" /\ refused' = refused
           \/ stage' = "over" /\ refused' \in {refused, "BidResponse"}
        /\ UNCHANGED <<signed, mileage, kind, loads, trucks, own, search, found, chosen, bid,
                       report>>
    BY DEF Respond, Refuse
  <1>2. /\ report = Absent /\ chosen \in Range(Book)
        /\ bid \in BidsFor(chosen) /\ ValidBid(bid)
        /\ kind \in {"load", "shipper", "truck"} /\ own \in Postings(kind) /\ Heard(own)
    BY <1>1 DEF StageInv, DealInv
  <1>3. Good(chosen)
    BY <1>2, ChosenIsGood
  <1>4. /\ a.type = "Accept" => Agreed(mileage, chosen, bid)
        /\ a.type = "Counter" => a.rate = CounterRate(chosen)
    <2>1. bid.rate \in RateRecord /\ chosen.rate \in RateRecord
      BY <1>2, <1>3, BidFacts DEF Good, Posting
    <2>2. bid.rate.amount \in Int /\ chosen.rate.amount \in Int
      BY <2>1 DEF RateRecord
    <2>3. QED BY <2>2, AnswerFacts
  <1> HIDE DEF a
  <1>5. Typed' /\ BooksInv'
    BY <1>1 DEF Typed, BooksInv
  <1>6. StageInv'
    <2>1. Heard(own)'
      BY <1>1, <1>2 DEF Heard
    <2>2. QED BY <1>1, <1>2, <2>1 DEF StageInv
  <1>7. DealInv' /\ ClaimsInv'
    BY <1>1, <1>2, <1>4 DEF Typed, DealInv, ClaimsInv, Book
  <1>8. SearchInv'
    BY <1>1 DEF SearchInv, OwnSearchFinds
  <1>9. QED BY <1>5, <1>6, <1>7, <1>8

LEMMA DeclineStep ==
  ASSUME IInv, Decline
  PROVE  IInv'
  <1> USE DEF IInv
  <1>1. /\ stage = "book" /\ stage' = "over"
        /\ UNCHANGED <<signed, mileage, kind, loads, trucks, own, search, found, chosen, bid,
                       answer, report, inForce, refused>>
    BY DEF Decline, flowVars
  <1>2. report = Absent
    BY <1>1 DEF StageInv
  <1>3. Typed' /\ BooksInv'
    BY <1>1 DEF Typed, BooksInv
  <1>4. StageInv' /\ SearchInv'
    BY <1>1, <1>2 DEF StageInv, SearchInv, OwnSearchFinds
  <1>5. DealInv' /\ ClaimsInv'
    BY <1>1, <1>2 DEF DealInv, ClaimsInv, Book
  <1>6. QED BY <1>3, <1>4, <1>5

LEMMA RenewStep ==
  ASSUME IInv, Renew
  PROVE  IInv'
  <1> USE DEF IInv
  <1>1. /\ stage' = "idle" /\ kind' = "none" /\ mileage' \in Mileage
        /\ loads' = <<>> /\ trucks' = <<>>
        /\ own' = Absent /\ search' = Absent /\ found' = <<>> /\ chosen' = Absent
        /\ bid' = Absent /\ answer' = Absent /\ report' = Absent
        /\ inForce' = Absent /\ refused' = "none" /\ UNCHANGED signed
    BY DEF Renew
  <1>2. Typed'
    BY <1>1 DEF Typed
  <1>3. BooksInv'
    <2>1. <<>> \in Seq(Posting) /\ Range(<<>>) = {}
      BY DEF Range
    <2>2. QED BY <1>1, <2>1 DEF BooksInv
  <1>4. StageInv' /\ SearchInv' /\ DealInv' /\ ClaimsInv'
    BY <1>1 DEF StageInv, SearchInv, OwnSearchFinds, DealInv, ClaimsInv
  <1>5. QED BY <1>2, <1>3, <1>4

LEMMA ContinueStep ==
  ASSUME IInv, Continue
  PROVE  IInv'
  <1> USE DEF IInv
  <1>1. /\ stage' = "idle"
        /\ own' = Absent /\ search' = Absent /\ found' = <<>> /\ chosen' = Absent
        /\ bid' = Absent /\ answer' = Absent /\ report' = Absent /\ inForce' = Absent
        /\ UNCHANGED <<signed, mileage, kind, loads, trucks, refused>>
    BY DEF Continue
  <1>2. Typed' /\ BooksInv'
    BY <1>1 DEF Typed, BooksInv
  <1>3. StageInv' /\ SearchInv' /\ DealInv' /\ ClaimsInv'
    BY <1>1 DEF StageInv, SearchInv, OwnSearchFinds, DealInv, ClaimsInv
  <1>4. QED BY <1>2, <1>3

LEMMA RecordWith ==
  ASSUME NEW p, NEW r, NEW d, NEW claims, NEW other, NEW rep,
         rep = [posting |-> p, rate |-> r, described |-> d, claims |-> claims]
  PROVE  [rep EXCEPT !.claims = other]
           = [posting |-> p, rate |-> r, described |-> d, claims |-> other]
  OBVIOUS

(* A report with other claims.                                             *)
LEMMA ReportWith ==
  ASSUME NEW p, NEW r, NEW claims, NEW other, NEW rep,
         rep = [posting |-> p, rate |-> r, described |-> FALSE, claims |-> claims]
  PROVE  [rep EXCEPT !.claims = other]
           = [posting |-> p, rate |-> r, described |-> FALSE, claims |-> other]
  <1>1. PICK d : d = FALSE
    OBVIOUS
  <1>2. rep = [posting |-> p, rate |-> r, described |-> d, claims |-> claims]
    BY <1>1
  <1>3. [rep EXCEPT !.claims = other]
          = [posting |-> p, rate |-> r, described |-> d, claims |-> other]
    BY ONLY <1>2, RecordWith
  <1>4. QED BY <1>1, <1>3

LEMMA ReportStep ==
  ASSUME IInv, Report
  PROVE  IInv'
  <1> USE DEF IInv
  <1>1. /\ stage = "book"
        /\ \/ stage' = "over" /\ refused' = "ExecutionReport" /\ report' = report
           \/ /\ ~(chosen.kind = "load" /\ chosen.policy = Absent)
              /\ report' = [posting |-> chosen, rate |-> bid.rate, described |-> FALSE,
                            claims |-> <<>>]
              /\ \/ stage' = "booked" /\ refused' = refused
                 \/ stage' = "over" /\ refused' = "ExecutionReport"
        /\ UNCHANGED <<signed, mileage, kind, loads, trucks, own, search, found, chosen, bid,
                       answer, inForce>>
    BY DEF Report, ReportOf, Refuse
  <1>2. /\ report = Absent /\ chosen \in Range(Book)
        /\ bid \in BidsFor(chosen) /\ ValidBid(bid)
        /\ inForce \in Mileage /\ Agreed(inForce, chosen, bid)
        /\ kind \in {"load", "shipper", "truck"} /\ own \in Postings(kind) /\ Heard(own)
    BY <1>1 DEF StageInv, DealInv
  <1>3. Good(chosen)
    BY <1>2, ChosenIsGood
  <1>4. Typed' /\ BooksInv'
    BY <1>1 DEF Typed, BooksInv
  <1>5. StageInv' /\ SearchInv'
    <2>1. Heard(own)'
      BY <1>1, <1>2 DEF Heard
    <2>2. QED BY <1>1, <1>2, <2>1 DEF StageInv, SearchInv, OwnSearchFinds
  <1>6. DealInv'
    BY <1>1, <1>2 DEF DealInv, Book
  <1>7. ClaimsInv'
    <2>1. CASE stage' = "over" /\ report' = report
      BY <1>2, <2>1 DEF ClaimsInv
    <2>2. CASE /\ ~(chosen.kind = "load" /\ chosen.policy = Absent)
               /\ report' = [posting |-> chosen, rate |-> bid.rate, described |-> FALSE,
                             claims |-> <<>>]
      <3>1. report'.claims = <<>> /\ report'.posting = chosen
        BY <2>2
      <3>2. <<>> \in Seq(ClaimRecord) /\ Len(<<>>) = 0
        OBVIOUS
      <3>3. Total(<<>>) = 0
        BY <3>2, TotalFacts
      <3>4. ASSUME chosen.kind = "load" PROVE Cap' \in Nat
        <4>1. chosen.policy.max \in {Absent} \cup Nat
          BY <1>3, <2>2, <3>4 DEF Good, ValidPosting, ValidPolicy
        <4>2. QED BY <3>1, <4>1 DEF Cap
      <3>5. report'.posting.kind = "load" /\ Cap' > 0 => 0 <= Cap'
        BY <3>1, <3>4
      <3>6. QED BY <3>1, <3>2, <3>3, <3>5 DEF ClaimsInv
    <2>3. QED BY <1>1, <2>1, <2>2
  <1>8. QED BY <1>4, <1>5, <1>6, <1>7

(* A step on the claims of a booked load leaves everything else alone.     *)
LEMMA ClaimsStep ==
  ASSUME IInv, stage = "booked", NEW claims \in Seq(ClaimRecord),
         report' = [report EXCEPT !.claims = claims],
         report.posting.kind = "load" /\ Cap > 0 => Total(claims) <= Cap,
         UNCHANGED <<signed, mileage, stage, kind, loads, trucks, own, search, found, chosen,
                     bid, answer, inForce, refused>>
  PROVE  IInv' /\ report'.claims = claims
  <1> USE DEF IInv
  <1>1. report = [posting |-> chosen, rate |-> bid.rate, described |-> FALSE,
                  claims |-> report.claims]
    BY DEF DealInv
  <1>2. report' = [posting |-> chosen, rate |-> bid.rate, described |-> FALSE,
                   claims |-> claims]
    <2> DEFINE rate == bid.rate
               old == report.claims
    <2>1. report = [posting |-> chosen, rate |-> rate, described |-> FALSE, claims |-> old]
      BY <1>1
    <2> HIDE DEF rate, old
    <2>2. [report EXCEPT !.claims = claims]
            = [posting |-> chosen, rate |-> rate, described |-> FALSE, claims |-> claims]
      BY <2>1, ReportWith
    <2> USE DEF rate
    <2>3. QED BY <2>2
  <1>3. report'.claims = claims /\ report'.posting = chosen /\ report.posting = chosen
    BY <1>1, <1>2
  <1>4. Cap' = Cap
    BY <1>3 DEF Cap
  <1>5. Typed' /\ BooksInv'
    BY DEF Typed, BooksInv
  <1>6. StageInv' /\ SearchInv'
    BY DEF StageInv, SearchInv, OwnSearchFinds, Heard
  <1>7. DealInv'
    BY <1>2, <1>3 DEF DealInv, Book
  <1>8. ClaimsInv'
    BY <1>3, <1>4 DEF ClaimsInv
  <1>9. QED BY <1>3, <1>5, <1>6, <1>7, <1>8

LEMMA SubmitStep ==
  ASSUME IInv, NEW type \in Catalog, NEW amount \in Amounts, NEW id \in 1 .. MaxClaims,
         Submit(type, amount, id)
  PROVE  /\ IInv'
         /\ \E c \in ClaimRecord : report'.claims = Append(report.claims, c)
  <1> DEFINE c == [type |-> type, amount |-> amount, id |-> id, status |-> "Proposed"]
  <1>1. /\ stage = "booked"
        /\ report' = [report EXCEPT !.claims = Append(@, c)]
        /\ UNCHANGED <<signed, mileage, stage, kind, loads, trucks, own, search, found, chosen,
                       bid, answer, inForce, refused>>
    BY DEF Submit
  <1>2. /\ report.claims \in Seq(ClaimRecord)
        /\ report.posting.kind = "load" /\ Cap > 0 => Total(report.claims) <= Cap
    BY <1>1 DEF IInv, ClaimsInv
  <1>3. c \in ClaimRecord /\ c.status = "Proposed"
    BY NegotiationAssumption DEF ClaimRecord
  <1> HIDE DEF c
  <1>4. /\ Append(report.claims, c) \in Seq(ClaimRecord)
        /\ Total(Append(report.claims, c)) = Total(report.claims)
    BY <1>2, <1>3, TotalProposed
  <1>5. report' = [report EXCEPT !.claims = Append(report.claims, c)]
    BY <1>1
  <1>6. QED BY <1>1, <1>2, <1>3, <1>4, <1>5, ClaimsStep

LEMMA ResolveStep ==
  ASSUME IInv, NEW id, NEW decision \in {"Approved", "Rejected"}, Resolve(id, decision)
  PROVE  /\ IInv'
         /\ \E i \in DOMAIN report.claims :
              /\ report.claims[i].status = "Proposed"
              /\ report'.claims =
                   [report.claims EXCEPT ![i] = [report.claims[i] EXCEPT !.status = decision]]
  <1>1. /\ stage = "booked" /\ report.posting.kind = "load"
        /\ report.claims \in Seq(ClaimRecord)
        /\ Cap > 0 => Total(report.claims) <= Cap
    BY DEF Resolve, IInv, ClaimsInv
  <1>2. PICK i \in DOMAIN report.claims :
          /\ report.claims[i].status = "Proposed"
          /\ decision = "Approved" /\ Cap > 0 =>
               Total(report.claims) + report.claims[i].amount <= Cap
          /\ Settle(i, decision)
    BY DEF Resolve
  <1> DEFINE c == [report.claims[i] EXCEPT !.status = decision]
             other == [report.claims EXCEPT ![i] = c]
  <1>3. report.claims[i] \in ClaimRecord /\ i \in 1 .. Len(report.claims)
    BY <1>1, <1>2
  <1>4. /\ c \in ClaimRecord /\ c.status = decision /\ c.amount = report.claims[i].amount
        /\ c.amount \in Nat
    BY <1>3 DEF ClaimRecord
  <1>5. /\ report' = [report EXCEPT !.claims = other]
        /\ UNCHANGED <<signed, mileage, stage, kind, loads, trucks, own, search, found, chosen,
                       bid, answer, inForce, refused>>
    BY <1>2 DEF Settle
  <1> HIDE DEF c
  <1>6. /\ other \in Seq(ClaimRecord) /\ Len(other) = Len(report.claims)
        /\ other[i] = c
        /\ \A j \in 1 .. Len(report.claims) : j # i => other[j] = report.claims[j]
    BY <1>1, <1>3, <1>4
  <1>7. Total(other) = Total(report.claims) + Due(c)
    <2> HIDE DEF other
    <2>1. report.claims[i].status # "Approved"
      BY <1>2
    <2>2. QED BY <1>1, <1>3, <1>6, <2>1, TotalSettled
  <1>8. /\ decision = "Approved" => Due(c) = c.amount
        /\ decision # "Approved" => Due(c) = 0
    BY <1>4 DEF Due
  <1>9. Total(report.claims) \in Nat
    <2>1. PICK f \in [0 .. Len(report.claims) -> Nat] :
            Total(report.claims) = f[Len(report.claims)]
      BY <1>1, TotalFacts
    <2>2. Len(report.claims) \in 0 .. Len(report.claims)
      BY <1>1
    <2>3. QED BY <2>1, <2>2
  <1>10. Cap > 0 => Total(other) <= Cap
    <2>1. CASE decision = "Approved"
      BY <1>2, <1>4, <1>7, <1>8, <2>1
    <2>2. CASE decision # "Approved"
      BY <1>1, <1>7, <1>8, <1>9, <2>2
    <2>3. QED BY <2>1, <2>2
  <1> HIDE DEF other
  <1>11. IInv' /\ report'.claims = other
    BY <1>1, <1>5, <1>6, <1>10, ClaimsStep
  <1> USE DEF other, c
  <1>12. QED BY <1>2, <1>11

LEMMA StutterStep ==
  ASSUME IInv, UNCHANGED vars
  PROVE  IInv'
  <1> USE DEF IInv
  <1>1. UNCHANGED <<signed, mileage, stage, kind, loads, trucks, own, search, found, chosen, bid,
                    answer, report, inForce, refused>>
    BY DEF vars, flowVars
  <1>2. Typed' /\ BooksInv'
    BY <1>1 DEF Typed, BooksInv
  <1>3. StageInv' /\ SearchInv'
    BY <1>1 DEF StageInv, SearchInv, OwnSearchFinds, Heard
  <1>4. DealInv' /\ ClaimsInv'
    BY <1>1 DEF DealInv, ClaimsInv, Book, Cap
  <1>5. QED BY <1>2, <1>3, <1>4

LEMMA StepHolds == IInv /\ [Next]_vars => IInv'
  <1> SUFFICES ASSUME IInv, [Next]_vars PROVE IInv'
    OBVIOUS
  <1>1. ASSUME NEW k \in {"load", "shipper", "truck"}, NEW p \in Postings(k), Post(k, p)
        PROVE  IInv'
    BY <1>1, PostStep
  <1>2. ASSUME NEW noMatch \in BOOLEAN, Search(noMatch) PROVE IInv'
    BY <1>2, SearchStep
  <1>3. CASE Bid
    BY <1>3, BidStep
  <1>4. ASSUME NEW forced \in {"Accept", "Counter", "Reject"}, Respond(forced) PROVE IInv'
    BY <1>4, RespondStep
  <1>5. CASE Decline
    BY <1>5, DeclineStep
  <1>6. CASE Report
    BY <1>6, ReportStep
  <1>7. CASE Continue
    BY <1>7, ContinueStep
  <1>8. ASSUME NEW type \in Catalog, NEW amount \in Amounts, NEW id \in 1 .. MaxClaims,
               Submit(type, amount, id)
        PROVE  IInv'
    BY <1>8, SubmitStep
  <1>9. ASSUME NEW id \in 1 .. MaxClaims, NEW decision \in {"Approved", "Rejected"},
               Resolve(id, decision)
        PROVE  IInv'
    BY <1>9, ResolveStep
  <1>10. CASE Renew
    BY <1>10, RenewStep
  <1>11. ASSUME NEW m \in Mileage, Configure(m) PROVE IInv'
    BY <1>11, ConfigureStep
  <1>12. CASE UNCHANGED vars
    BY <1>12, StutterStep
  <1>13. QED
    BY <1>1, <1>2, <1>3, <1>4, <1>5, <1>6, <1>7, <1>8, <1>9, <1>10, <1>11, <1>12
       DEF Next, Negotiate, Claim
-----------------------------------------------------------------------------
(* The invariants.                                                         *)

(* In every state a flow reaches, whatever was tendered, asked for, bid,   *)
(* answered and claimed before: the books hold validated and normalised    *)
(* postings, a bid is one made for the chosen posting of the book, what is *)
(* booked was agreed under the mileage policy in force, and the approved   *)
(* claims are within the cap.                                              *)
THEOREM Invariance == Spec => []IInv
  <1>1. Init => IInv
    BY InitHolds
  <1>2. IInv /\ [Next]_vars => IInv'
    BY StepHolds
  <1>3. QED BY <1>1, <1>2, PTL DEF Spec

(* The state of a negotiation is always of its type: the books of the      *)
(* broker and the carrier hold normalised postings, what is chosen is in   *)
(* the book of the flow, and the rates that are bid, countered and         *)
(* reported are rates.                                                     *)
THEOREM TypeCorrect == Spec => []TypeOK
  <1>1. ASSUME IInv PROVE TypeOK
    <2> USE <1>1 DEF IInv
    <2>1. kind \in DOMAIN Later
      BY DEF Typed, Later
    <2>2. stage \in {"bid", "answer", "book", "booked"} => chosen \in Range(Book)
      BY DEF DealInv
    <2>3. stage \in {"answer", "book", "booked"} => ValidRate(bid.rate)
      BY DEF DealInv, ValidBid
    <2>4. answer # Absent /\ answer.type = "Counter" => answer.rate \in RateRecord
      BY ChosenIsGood, CounterFacts DEF DealInv
    <2>5. report # Absent => report.rate \in RateRecord /\ report.claims \in Seq(ClaimRecord)
      <3> SUFFICES ASSUME report # Absent
                   PROVE  report.rate \in RateRecord /\ report.claims \in Seq(ClaimRecord)
        OBVIOUS
      <3>1. report.rate = bid.rate
        BY DEF DealInv
      <3>2. bid.rate \in RateRecord
        BY ChosenIsGood, BidFacts DEF DealInv
      <3>3. QED BY <3>1, <3>2 DEF ClaimsInv
    <2>6. QED BY <2>1, <2>2, <2>3, <2>4, <2>5 DEF TypeOK, Typed, BooksInv
  <1>2. QED BY <1>1, Invariance, PTL

(* What respond_to_bid looks at, it holds the booking to: the report       *)
(* carries the rate of the bid, at least the posted one on the posted      *)
(* basis, for miles the policy in force tolerated; the equipment, driver,  *)
(* special instructions and schedule in it were accepted by the carrier,   *)
(* the stops where it answered them, and what it named in them is what the *)
(* report says. The accessorial policy it does not look at.                *)
THEOREM BookedWasAgreed == Spec => []BookedAsAgreed
  <1>1. ASSUME IInv PROVE BookedAsAgreed
    <2> USE <1>1 DEF IInv
    <2> SUFFICES ASSUME report # Absent PROVE BookedAsAgreed
      BY DEF BookedAsAgreed
    <2>1. /\ chosen \in Range(Book) /\ bid \in BidsFor(chosen) /\ ValidBid(bid)
          /\ inForce \in Mileage /\ Agreed(inForce, chosen, bid)
          /\ report.rate = bid.rate /\ report.posting = chosen
      BY DEF DealInv
    <2>2. Good(chosen)
      BY <2>1, ChosenIsGood
    <2>3. QED BY <2>1, <2>2, AgreedMeans DEF BookedAsAgreed
  <1>2. QED BY <1>1, Invariance, PTL

(* A counter can be taken: respond_to_bid and respond_to_truck_bid accept  *)
(* a bid at the rate they have proposed, whatever policy is in force then. *)
THEOREM CounterCanBeTaken == Spec => []CounterIsAcceptable
  <1>1. ASSUME IInv PROVE CounterIsAcceptable
    <2> USE <1>1 DEF IInv
    <2> SUFFICES ASSUME answer # Absent, answer.type = "Counter" PROVE CounterIsAcceptable
      BY DEF CounterIsAcceptable
    <2>1. chosen \in Range(Book) /\ answer.rate = CounterRate(chosen)
      BY DEF DealInv
    <2>2. Good(chosen)
      BY <2>1, ChosenIsGood
    <2>3. QED BY <2>1, <2>2, CounterTaken DEF CounterIsAcceptable
  <1>2. QED BY <1>1, Invariance, PTL

(* create_load_search_for_load finds the tender it was made from, unless   *)
(* it costs too much, names no driver or measures half a foot more.        *)
THEOREM TenderIsFound == Spec => []OwnSearchFinds
  <1>1. IInv => OwnSearchFinds
    BY DEF IInv, SearchInv
  <1>2. QED BY <1>1, Invariance, PTL

(* However claims are submitted and resolved, with or without ids of their *)
(* own, what is approved stays within the maximum of the load's policy.    *)
THEOREM CapIsKept == Spec => []ApprovedWithinCap
  <1>1. IInv => ApprovedWithinCap
    BY DEF IInv, ClaimsInv, ApprovedWithinCap
  <1>2. QED BY <1>1, Invariance, PTL

(* What ClaimsSettleOnce asks of a step.                                   *)
SettlesOnce ==
  report # Absent /\ report' # Absent =>
    \A i \in DOMAIN report.claims :
      /\ i \in DOMAIN report'.claims
      /\ report'.claims[i] = [report.claims[i] EXCEPT !.status = report'.claims[i].status]
      /\ report.claims[i].status # "Proposed" => report'.claims[i] = report.claims[i]

LEMMA UntouchedSettles ==
  ASSUME IInv, UNCHANGED report
  PROVE  SettlesOnce
  <1> SUFFICES ASSUME report # Absent, NEW i \in DOMAIN report.claims
               PROVE  report.claims[i] = [report.claims[i] EXCEPT !.status = report.claims[i].status]
    BY DEF SettlesOnce
  <1>1. report.claims \in Seq(ClaimRecord)
    BY DEF IInv, ClaimsInv
  <1>2. report.claims[i] \in ClaimRecord
    BY <1>1
  <1>3. QED BY <1>2 DEF ClaimRecord

LEMMA SubmitSettles ==
  ASSUME IInv, NEW type \in Catalog, NEW amount \in Amounts, NEW id \in 1 .. MaxClaims,
         Submit(type, amount, id)
  PROVE  SettlesOnce
  <1>1. PICK c \in ClaimRecord : report'.claims = Append(report.claims, c)
    BY SubmitStep
  <1>2. report.claims \in Seq(ClaimRecord)
    BY DEF Submit, IInv, ClaimsInv
  <1> SUFFICES ASSUME NEW i \in DOMAIN report.claims
               PROVE  /\ i \in DOMAIN report'.claims
                      /\ report'.claims[i]
                           = [report.claims[i] EXCEPT !.status = report'.claims[i].status]
                      /\ report'.claims[i] = report.claims[i]
    BY DEF SettlesOnce
  <1>3. report'.claims[i] = report.claims[i] /\ i \in DOMAIN report'.claims
    BY <1>1, <1>2
  <1>4. report.claims[i] \in ClaimRecord
    BY <1>2
  <1>5. report.claims[i] = [report.claims[i] EXCEPT !.status = report.claims[i].status]
    BY <1>4 DEF ClaimRecord
  <1>6. QED BY <1>3, <1>5

LEMMA ResolveSettles ==
  ASSUME IInv, NEW id, NEW decision \in {"Approved", "Rejected"}, Resolve(id, decision)
  PROVE  SettlesOnce
  <1>1. PICK k \in DOMAIN report.claims :
          /\ report.claims[k].status = "Proposed"
          /\ report'.claims
               = [report.claims EXCEPT ![k] = [report.claims[k] EXCEPT !.status = decision]]
    BY ResolveStep
  <1>2. report.claims \in Seq(ClaimRecord)
    BY DEF Resolve, IInv, ClaimsInv
  <1> SUFFICES ASSUME NEW i \in DOMAIN report.claims
               PROVE  /\ i \in DOMAIN report'.claims
                      /\ report'.claims[i]
                           = [report.claims[i] EXCEPT !.status = report'.claims[i].status]
                      /\ report.claims[i].status # "Proposed" =>
                           report'.claims[i] = report.claims[i]
    BY DEF SettlesOnce
  <1>3. report.claims[i] \in ClaimRecord /\ i \in DOMAIN report'.claims
    BY <1>1, <1>2
  <1>4. CASE i = k
    <2>1. report'.claims[i] = [report.claims[i] EXCEPT !.status = decision]
      BY <1>1, <1>4
    <2>2. report'.claims[i].status = decision
      BY <1>3, <2>1 DEF ClaimRecord
    <2>3. QED BY <1>1, <1>3, <1>4, <2>1, <2>2
  <1>5. CASE i # k
    <2>1. report'.claims[i] = report.claims[i]
      BY <1>1, <1>5
    <2>2. report.claims[i] = [report.claims[i] EXCEPT !.status = report.claims[i].status]
      BY <1>3 DEF ClaimRecord
    <2>3. QED BY <1>3, <2>1, <2>2
  <1>6. QED BY <1>4, <1>5

(* A claim is settled once: submitting appends, and resolving changes the  *)
(* status of a claim that is proposed and of no other, whichever id it is  *)
(* asked for by.                                                           *)
THEOREM ClaimsAreSettledOnce == Spec => ClaimsSettleOnce
  <1>1. ASSUME IInv, [Next]_vars PROVE SettlesOnce
    <2> USE <1>1
    <2>1. CASE report = Absent \/ report' = Absent
      BY <2>1 DEF SettlesOnce
    <2>2. CASE UNCHANGED report
      BY <2>2, UntouchedSettles
    <2>3. ASSUME NEW type \in Catalog, NEW amount \in Amounts, NEW id \in 1 .. MaxClaims,
                 Submit(type, amount, id)
          PROVE  SettlesOnce
      BY <2>3, SubmitSettles
    <2>4. ASSUME NEW id \in 1 .. MaxClaims, NEW decision \in {"Approved", "Rejected"},
                 Resolve(id, decision)
          PROVE  SettlesOnce
      BY <2>4, ResolveSettles
    <2>5. ASSUME Report PROVE report = Absent
      BY <2>5 DEF Report, IInv, StageInv
    <2>6. ASSUME Renew \/ Continue PROVE report' = Absent
      BY <2>6 DEF Renew, Continue
    <2>7. ASSUME \/ \E k \in {"load", "shipper", "truck"} : \E p \in Postings(k) : Post(k, p)
                 \/ \E noMatch \in BOOLEAN : Search(noMatch)
                 \/ Bid \/ Decline \/ UNCHANGED vars
                 \/ \E forced \in {"Accept", "Counter", "Reject"} : Respond(forced)
                 \/ \E m \in Mileage : Configure(m)
          PROVE  UNCHANGED report
      BY <2>7 DEF Post, Search, Bid, Decline, Respond, Configure, vars, flowVars
    <2>8. QED
      BY <1>1, <2>1, <2>2, <2>3, <2>4, <2>5, <2>6, <2>7 DEF Next, Negotiate, Claim
  <1>2. QED
    BY <1>1, Invariance, PTL DEF Spec, ClaimsSettleOnce, SettlesOnce
-----------------------------------------------------------------------------
(* What is heard. A posting that says everything the protocol wants to     *)
(* know leads to messages that all pass their validation.                  *)

LEMMA StopsFacts ==
  ASSUME NEW p, p.stops \in Seq({"Pickup", "Drop"}) \cup {Absent}, ValidStops(p.stops)
  PROVE  StopCount(p) \in Int /\ StopCount(p) >= 2 /\ StopTypes(p) # {}
  <1>1. CASE p.stops = Absent
    BY <1>1 DEF StopCount, StopTypes
  <1>2. CASE p.stops # Absent
    <2>1. p.stops \in Seq({"Pickup", "Drop"}) /\ Len(p.stops) >= 2
      BY <1>2 DEF ValidStops
    <2>2. 1 \in DOMAIN p.stops
      BY <2>1
    <2>3. p.stops[1] \in StopTypes(p)
      BY <1>2, <2>2 DEF StopTypes
    <2>4. QED BY <1>2, <2>1, <2>3 DEF StopCount
  <1>3. QED BY <1>1, <1>2

(* The search for a complete tender is valid.                              *)
LEMMA TenderSearchValid ==
  ASSUME NEW p, Good(p), Complete(p), p.kind = "load", NEW lane
  PROVE  ValidSearch(SearchFor(p, lane))
  <1> DEFINE s == SearchFor(p, lane)
  <1>1. /\ p.label \in Label /\ p.tags \in (SUBSET Tag) \cup {Absent} /\ p.length \in Int
        /\ p.rate \in RateRecord /\ p.driver \in Driver \cup {Absent}
        /\ p.stops \in Seq({"Pickup", "Drop"}) \cup {Absent}
    BY DEF Good, Posting
  <1>2. ValidStops(p.stops) /\ p.rate.model \in RateModel
    BY <1>1 DEF Good, ValidPosting, RateRecord
  <1>3. /\ s.class = Class(p) /\ s.sub = Sub(p) /\ s.tags = Tags(p) /\ s.driver = p.driver
        /\ s.shortest = Whole(p.length) /\ s.longest = Whole(p.length)
        /\ s.low = 0 /\ s.high = SearchMax[p.rate.model]
        /\ s.fewest = StopCount(p) /\ s.most = StopCount(p) /\ s.types = StopTypes(p)
    BY DEF SearchFor, Complete
  <1> HIDE DEF s
  <1>4. Class(p) \in DOMAIN Canonical /\ Sub(p) \in SubClass \cup {None}
    BY <1>1, EquipmentFacts
  <1>5. Sub(p) \in SubClass /\ Tags(p) # {} /\ p.driver \in Driver /\ p.length >= 2
    BY <1>1, <1>4 DEF Complete
  <1>6. Whole(p.length) \in Int /\ Whole(p.length) > 0
    BY <1>1, <1>5 DEF Whole
  <1>7. SearchMax[p.rate.model] \in Nat
    BY <1>2, RateFacts
  <1>8. StopCount(p) \in Int /\ StopCount(p) >= 2 /\ StopTypes(p) # {}
    BY <1>1, <1>2, StopsFacts
  <1>9. ValidSearch(s)
    BY <1>3, <1>4, <1>5, <1>6, <1>7, <1>8 DEF ValidSearch
  <1>10. QED BY <1>9 DEF s

(* So are the searches of the agents' own.                                 *)
LEMMA OwnSearchValid ==
  ASSUME NEW model \in RateModel, NEW lane
  PROVE  ValidSearch(LoadSearch(model, lane)) /\ ValidSearch(TruckSearch(model))
  <1>1. /\ "Reefer" \in DOMAIN Canonical /\ "AirRide" \in SubClass
        /\ "Single" \in Driver /\ "Team" \in Driver
    BY NegotiationAssumption DEF Driver
  <1>2. /\ SearchMax[model] \in Nat /\ FloorAmount[model] \in Nat
    BY RateFacts
  <1>3. ValidSearch(LoadSearch(model, lane))
    BY <1>1, <1>2 DEF ValidSearch, LoadSearch
  <1>4. ValidSearch(TruckSearch(model))
    <2> DEFINE s == TruckSearch(model)
    <2>1. /\ s.class = "Reefer" /\ s.sub = "AirRide" /\ s.tags = {"AirRide"}
          /\ s.driver = "Team" /\ s.shortest = 106 /\ s.longest = 106
          /\ s.low = FloorAmount[model] /\ s.high = SearchMax[model]
          /\ s.fewest = 2 /\ s.most = 9999 /\ s.types = {"Pickup", "Drop"}
      BY DEF TruckSearch, LoadSearch
    <2> HIDE DEF s
    <2>2. ValidSearch(s)
      BY <1>1, <1>2, <2>1 DEF ValidSearch
    <2>3. QED BY <2>2 DEF s
  <1>5. QED BY <1>3, <1>4

(* The terms of a bid that validate_message_body looks into.               *)
ValidTermOf(t, a) ==
  /\ t = "equipment" /\ a # Absent =>
       /\ a.class \in {Absent} \cup DOMAIN Canonical /\ a.sub \in {Absent} \cup SubClass
       /\ a.count = Absent \/ a.count > 0
       /\ ValidLengths(a)
  /\ t = "driver" /\ a # Absent => a.config \in {Absent} \cup Driver
  /\ t = "stops" /\ a # Absent => /\ a.count = Absent \/ a.count >= 2
                                  /\ a.types # {}

OwnEquipment(e) ==
  /\ DOMAIN e = {"accepted", "class", "sub", "tags", "length", "shortest", "longest", "count"}
  /\ e.class \in DOMAIN Canonical /\ e.sub \in SubClass
  /\ e.count \in Int /\ e.count > 0 /\ e.length \in Int /\ e.length > 0
  /\ e.shortest = e.length /\ e.longest = e.length

(* Equipment that is named otherwise, in the words of the protocol and with *)
(* lengths in their order, is valid too.                                   *)
LEMMA OtherEquipmentValid ==
  ASSUME NEW a, OwnEquipment(a), NEW e \in {a} \cup OtherTerms("equipment", a)
  PROVE  ValidTermOf("equipment", e)
  <1>1. Absent \notin Int /\ ClassName \subseteq DOMAIN Canonical
    BY TermsAssumption DEF ClassName
  <1>2. ASSUME NEW x,
               x.class \in {Absent} \cup DOMAIN Canonical, x.sub \in {Absent} \cup SubClass,
               x.count = Absent \/ (x.count \in Int /\ x.count > 0),
               /\ x.length \in Int \cup {Absent} /\ x.shortest \in Int \cup {Absent}
               /\ x.longest \in Int \cup {Absent},
               x.length # Absent => x.length > 0, x.shortest # Absent => x.shortest > 0,
               x.longest # Absent => x.longest > 0,
               x.shortest # Absent /\ x.longest # Absent => x.shortest <= x.longest,
               x.shortest # Absent /\ x.length # Absent => x.shortest <= x.length,
               x.length # Absent /\ x.longest # Absent => x.length <= x.longest
        PROVE  ValidTermOf("equipment", x)
    BY <1>2 DEF ValidTermOf, ValidLengths
  <1>3. ASSUME e \in {a, [a EXCEPT !.accepted = FALSE]} PROVE ValidTermOf("equipment", e)
    <2>1. /\ e.class = a.class /\ e.sub = a.sub /\ e.count = a.count
          /\ e.length = a.length /\ e.shortest = a.length /\ e.longest = a.length
      BY <1>3 DEF OwnEquipment
    <2>2. QED BY <1>1, <1>2, <2>1 DEF OwnEquipment
  <1>4. ASSUME NEW c \in ClassName \cup {Absent}, e = [a EXCEPT !.class = c]
        PROVE  ValidTermOf("equipment", e)
    <2>1. /\ e.class = c /\ e.sub = a.sub /\ e.count = a.count
          /\ e.length = a.length /\ e.shortest = a.length /\ e.longest = a.length
      BY <1>4 DEF OwnEquipment
    <2>2. QED BY <1>1, <1>2, <2>1 DEF OwnEquipment
  <1>5. ASSUME NEW c \in SubClass \cup {Absent}, e = [a EXCEPT !.sub = c]
        PROVE  ValidTermOf("equipment", e)
    <2>1. /\ e.class = a.class /\ e.sub = c /\ e.count = a.count
          /\ e.length = a.length /\ e.shortest = a.length /\ e.longest = a.length
      BY <1>5 DEF OwnEquipment
    <2>2. QED BY <1>1, <1>2, <2>1 DEF OwnEquipment
  <1>6. ASSUME NEW c, e = [a EXCEPT !.tags = c]
        PROVE  ValidTermOf("equipment", e)
    <2>1. /\ e.class = a.class /\ e.sub = a.sub /\ e.count = a.count
          /\ e.length = a.length /\ e.shortest = a.length /\ e.longest = a.length
      BY <1>6 DEF OwnEquipment
    <2>2. QED BY <1>1, <1>2, <2>1 DEF OwnEquipment
  <1>7. ASSUME NEW n \in {Absent, a.count + 1}, e = [a EXCEPT !.count = n]
        PROVE  ValidTermOf("equipment", e)
    <2>1. /\ e.class = a.class /\ e.sub = a.sub /\ e.count = n
          /\ e.length = a.length /\ e.shortest = a.length /\ e.longest = a.length
      BY <1>7 DEF OwnEquipment
    <2>2. n = Absent \/ (n \in Int /\ n > 0)
      BY DEF OwnEquipment
    <2>3. QED BY <1>1, <1>2, <2>1, <2>2 DEF OwnEquipment
  <1>8. ASSUME NEW n \in {1, a.length + 1},
               e = [a EXCEPT !.length = n, !.shortest = n, !.longest = n]
        PROVE  ValidTermOf("equipment", e)
    <2>1. /\ e.class = a.class /\ e.sub = a.sub /\ e.count = a.count
          /\ e.length = n /\ e.shortest = n /\ e.longest = n
      BY <1>8 DEF OwnEquipment
    <2>2. n \in Int /\ n > 0
      BY DEF OwnEquipment
    <2>3. QED BY <1>1, <1>2, <2>1, <2>2 DEF OwnEquipment
  <1>9. ASSUME NEW m \in {1, Absent}, NEW n \in {a.length + 1, Absent},
               e = [a EXCEPT !.shortest = m, !.longest = n]
        PROVE  ValidTermOf("equipment", e)
    <2>1. /\ e.class = a.class /\ e.sub = a.sub /\ e.count = a.count
          /\ e.length = a.length /\ e.shortest = m /\ e.longest = n
      BY <1>9 DEF OwnEquipment
    <2>2. /\ m = Absent \/ (m \in Int /\ m > 0 /\ m <= a.length)
          /\ n = Absent \/ (n \in Int /\ n > 0 /\ a.length <= n)
      BY DEF OwnEquipment
    <2>3. m # Absent /\ n # Absent => m <= n
      BY <1>9, <2>2 DEF OwnEquipment
    <2>4. QED BY <1>1, <1>2, <2>1, <2>2, <2>3 DEF OwnEquipment
  <1>10. ASSUME NEW n \in {a.length + 1, Absent},
                e = [a EXCEPT !.length = n, !.shortest = Absent, !.longest = Absent]
         PROVE  ValidTermOf("equipment", e)
    <2>1. /\ e.class = a.class /\ e.sub = a.sub /\ e.count = a.count
          /\ e.length = n /\ e.shortest = Absent /\ e.longest = Absent
      BY <1>10 DEF OwnEquipment
    <2>2. n = Absent \/ (n \in Int /\ n > 0)
      BY DEF OwnEquipment
    <2>3. QED BY <1>1, <1>2, <2>1, <2>2 DEF OwnEquipment
  <1>11. ASSUME e = Absent PROVE ValidTermOf("equipment", e)
    BY <1>11 DEF ValidTermOf
  <1>12. \/ e = Absent \/ e \in {a, [a EXCEPT !.accepted = FALSE]}
         \/ e \in OtherEquipment(a)
    BY DEF OtherTerms, OtherNames
  <1>13. ASSUME e \in OtherEquipment(a) PROVE ValidTermOf("equipment", e)
    BY <1>4, <1>5, <1>6, <1>7, <1>8, <1>9, <1>10, <1>13 DEF OtherEquipment
  <1>14. QED BY <1>3, <1>11, <1>12, <1>13

(* So are a driver and stops that are named otherwise.                     *)
LEMMA OtherTermsValid ==
  ASSUME NEW t \in Terms \ {"equipment"}, NEW a,
         t = "driver" => DOMAIN a = {"accepted", "config"} /\ a.config \in Driver,
         t = "stops" /\ a # Absent =>
           /\ DOMAIN a = {"accepted", "count", "types"}
           /\ a.count \in Int /\ a.count >= 2 /\ a.types # {},
         Absent # {},
         NEW x \in {a} \cup OtherTerms(t, a)
  PROVE  ValidTermOf(t, x)
  <1>1. CASE t = "driver" /\ x # Absent
    <2>1. x = a \/ x = [a EXCEPT !.accepted = FALSE]
            \/ \E d \in Driver \cup {Absent} : x = [a EXCEPT !.config = d]
      BY <1>1 DEF OtherTerms, OtherNames
    <2>2. x.config \in {Absent} \cup Driver
      BY <1>1, <2>1
    <2>3. QED BY <1>1, <2>2 DEF ValidTermOf
  <1>2. CASE t = "stops" /\ x # Absent
    <2>1. a # Absent
      BY <1>2 DEF OtherTerms
    <2>2. \/ x \in {a, [a EXCEPT !.accepted = FALSE]}
          \/ \E n \in {Absent, a.count + 1} : x = [a EXCEPT !.count = n]
          \/ \E s \in {Absent, {"Pickup"}, {"Drop"}, {"Pickup", "Drop"}} :
                x = [a EXCEPT !.types = s]
      BY <1>2 DEF OtherTerms, OtherNames, OtherStops
    <2>3. (x.count = Absent \/ x.count >= 2) /\ x.types # {}
      BY <1>2, <2>1, <2>2
    <2>4. QED BY <1>2, <2>3 DEF ValidTermOf
  <1>3. QED BY <1>1, <1>2 DEF ValidTermOf

(* The bids for a complete posting are valid, with the terms and miles     *)
(* other implementations may put into them.                                *)
LEMMA BidsValid ==
  ASSUME Sensible, NEW p, Good(p), Complete(p), NEW b \in BidsFor(p)
  PROVE  ValidBid(b)
  <1>1. PICK amount \in Offered(p.rate.model) :
          b \in {BidFor(p, amount)} \cup Variants(BidFor(p, amount))
    BY DEF BidsFor
  <1> DEFINE a == BidFor(p, amount)
  <1>2. /\ p.label \in Label /\ p.tags \in (SUBSET Tag) \cup {Absent} /\ p.length \in Int
        /\ p.count \in Int /\ p.rate.model \in RateModel /\ p.rate.units \in Int \cup {Absent}
        /\ p.driver \in Driver /\ p.kind \in {"load", "truck"}
        /\ p.stops \in Seq({"Pickup", "Drop"}) \cup {Absent}
    BY DEF Good, Posting, RateRecord, Complete
  <1>3. /\ p.length > 0 /\ p.count > 0 /\ ValidRate(p.rate)
        /\ p.kind = "load" => ValidStops(p.stops)
    BY DEF Good, ValidPosting
  <1>4. amount \in Nat
    BY <1>1, <1>2 DEF Sensible
  <1>5. /\ DOMAIN a = {"rate"} \cup Terms
        /\ a.rate = BuildRate(p.rate.model, amount, p.rate.units)
        /\ BidForm(a, b)
    <2>1. a = BidFor(p, amount)
      OBVIOUS
    <2> HIDE DEF a
    <2>2. QED BY <1>1, <2>1, BidForms
  <1>6. OwnEquipment(a.equipment)
    <2>1. Class(p) \in DOMAIN Canonical /\ Sub(p) \in SubClass
      BY <1>2, EquipmentFacts DEF Complete
    <2>2. QED BY <1>2, <1>3, <2>1 DEF BidFor, OwnEquipment
  <1>7. DOMAIN a.driver = {"accepted", "config"} /\ a.driver.config \in Driver
    BY <1>2 DEF BidFor, Complete
  <1>8. a.stops # Absent => /\ DOMAIN a.stops = {"accepted", "count", "types"}
                           /\ a.stops.count \in Int /\ a.stops.count >= 2
                           /\ a.stops.types # {}
    <2>1. CASE p.kind = "truck"
      BY <2>1 DEF BidFor
    <2>2. CASE p.kind = "load"
      <3>1. StopCount(p) \in Int /\ StopCount(p) >= 2 /\ StopTypes(p) # {}
        BY <1>2, <1>3, <2>2, StopsFacts
      <3>2. a.stops = [accepted |-> TRUE, count |-> StopCount(p), types |-> StopTypes(p)]
        BY <2>2 DEF BidFor
      <3>3. QED BY <3>1, <3>2
    <2>3. QED BY <1>2, <2>1, <2>2
  <1> HIDE DEF a
  <1>9. a.rate \in RateRecord /\ ValidRate(a.rate)
    <2>1. amount \in Int /\ amount >= 0
      BY <1>4
    <2>2. p.rate.units = Absent \/ p.rate.units > 0 \/ p.rate.model \notin Counted
      BY <1>3 DEF ValidRate
    <2>3. PICK model \in RateModel, units \in Int \cup {Absent} :
            model = p.rate.model /\ units = p.rate.units
      BY <1>2
    <2>4. LET r == BuildRate(model, amount, units)
          IN  r \in RateRecord /\ ValidRate(r)
      BY <2>1, <2>2, <2>3, BuiltRate
    <2>5. QED BY <1>5, <2>3, <2>4
  <1>10. \A t \in Terms : \A x \in {a[t]} \cup OtherTerms(t, a[t]) : ValidTermOf(t, x)
    <2> SUFFICES ASSUME NEW t \in Terms, NEW x \in {a[t]} \cup OtherTerms(t, a[t])
                 PROVE  ValidTermOf(t, x)
      OBVIOUS
    <2>1. CASE t = "equipment"
      BY <1>6, <2>1, OtherEquipmentValid
    <2>2. CASE t # "equipment"
      <3>1. Absent # {}
        BY AbsentAssumption
      <3>2. t = "driver" => DOMAIN a[t] = {"accepted", "config"} /\ a[t].config \in Driver
        BY <1>7
      <3>3. t = "stops" /\ a[t] # Absent =>
              /\ DOMAIN a[t] = {"accepted", "count", "types"}
              /\ a[t].count \in Int /\ a[t].count >= 2 /\ a[t].types # {}
        BY <1>8
      <3>4. QED BY <2>2, <3>1, <3>2, <3>3, OtherTermsValid
    <2>3. QED BY <2>1, <2>2
  <1>11. ASSUME ValidRate(b.rate), \A t \in {"equipment", "driver", "stops"} : ValidTermOf(t, b[t])
         PROVE  ValidBid(b)
    <2>1. /\ ValidTermOf("equipment", b.equipment) /\ ValidTermOf("driver", b.driver)
          /\ ValidTermOf("stops", b.stops)
      BY <1>11
    <2>2. QED BY <1>11, <2>1 DEF ValidBid, ValidTermOf
  <1>12. CASE b = a
    BY <1>9, <1>10, <1>11, <1>12 DEF Terms
  <1>13. CASE \E u \in Distances : b = [a EXCEPT !.rate.units = u]
    <2>1. PICK u \in Distances : b = [a EXCEPT !.rate.units = u]
      BY <1>13
    <2>2. b.rate = [a.rate EXCEPT !.units = u] /\ \A t \in Terms : b[t] = a[t]
      BY <1>5, <2>1 DEF Terms
    <2>3. u \in Int /\ u > 0
      BY DEF Sensible
    <2>4. b.rate.model = a.rate.model /\ b.rate.amount = a.rate.amount /\ b.rate.units = u
      BY <1>9, <2>2 DEF RateRecord
    <2>5. ValidRate(b.rate)
      BY <1>9, <2>3, <2>4, TermsAssumption DEF ValidRate
    <2>6. QED BY <1>10, <1>11, <2>2, <2>5 DEF Terms
  <1>14. CASE \E t \in Terms : \E x \in OtherTerms(t, a[t]) : b = [a EXCEPT ![t] = x]
    <2>1. PICK t \in Terms : \E x \in OtherTerms(t, a[t]) : b = [a EXCEPT ![t] = x]
      BY <1>14
    <2>2. PICK x \in OtherTerms(t, a[t]) : b = [a EXCEPT ![t] = x]
      BY <2>1
    <2>3. b.rate = a.rate /\ b[t] = x /\ \A u \in Terms : u # t => b[u] = a[u]
      BY <1>5, <2>2 DEF Terms
    <2>4. \A u \in Terms : ValidTermOf(u, b[u])
      BY <1>10, <2>3
    <2>5. QED BY <1>9, <1>11, <2>3, <2>4 DEF Terms
  <1>15. QED BY <1>5, <1>12, <1>13, <1>14 DEF BidForm

(* The report of a booking is valid, where the posting is complete.        *)
LEMMA ReportValid ==
  ASSUME NEW p, Good(p), Complete(p), NEW b, ValidRate(b.rate)
  PROVE  ValidReport(ReportOf(p, b))
  <1> DEFINE r == ReportOf(p, b)
             q == [p EXCEPT !.class = Class(p), !.described = r.described]
  <1>1. r.rate = b.rate /\ r.posting = p
    BY DEF ReportOf
  <1> HIDE DEF r
  <1>2. /\ p.label \in Label /\ p.tags \in (SUBSET Tag) \cup {Absent}
        /\ p.sub \in {Absent, None} \cup SubClass
    BY DEF Good, Posting, ValidPosting, ValidEquipment
  <1>3. Class(p) \in DOMAIN Canonical /\ Canonical[Class(p)] = Class(p)
    BY <1>2, EquipmentFacts
  <1>4. q.class = Class(p) /\ q.sub = p.sub
    BY DEF Good, Posting
  <1> HIDE DEF q
  <1>5. Class(q) = Class(p)
    BY <1>3, <1>4 DEF Class
  <1>6. ValidEquipment(q)
    BY <1>2, <1>3, <1>4, <1>5 DEF ValidEquipment, Complete
  <1>7. p.kind = "load" => p.special /\ ValidSchedule(p) /\ ValidPolicy(p.policy)
    BY DEF Good, ValidPosting, Complete
  <1>8. ValidReport(r)
    BY <1>1, <1>6, <1>7 DEF ValidReport, q
  <1>9. QED BY <1>8 DEF r

(* A tender is valid unless it makes no sense.                             *)
LEMMA TenderValid ==
  ASSUME Sensible, NEW p \in Tenders
  PROVE  \/ ValidPosting(p)
         \/ ~(Feasible(p) /\ ValidStops(p.stops) /\ ValidPolicy(p.policy))
         \/ ~ValidRate(p.rate) \/ (Class(p) = "Special" /\ ~p.described)
  <1> SUFFICES ASSUME Feasible(p), ValidStops(p.stops), ValidPolicy(p.policy),
                      ValidRate(p.rate), Class(p) = "Special" => p.described
               PROVE  ValidPosting(p)
    BY DEF Tender, NegotiationAssumption
  <1>1. /\ p.earliest \in Int /\ p.latest \in Int
        /\ p.delivery \in (Int \X Int) \cup {Absent}
    BY NegotiationAssumption DEF Tender
  <1>2. ValidSchedule(p)
    <2>1. PICK day \in p.earliest .. p.latest :
            IF p.delivery = Absent THEN p.deliveryWindow = Absent
            ELSE \E then \in p.delivery[1] .. p.delivery[2] : day <= then
      BY DEF Feasible
    <2>2. p.earliest <= p.latest
      BY <1>1, <2>1
    <2>3. ASSUME p.delivery # Absent
          PROVE  p.delivery[1] <= p.delivery[2] /\ p.delivery[2] >= p.earliest
      <3>1. p.delivery[1] \in Int /\ p.delivery[2] \in Int
        BY <1>1, <2>3
      <3>2. PICK then \in p.delivery[1] .. p.delivery[2] : day <= then
        BY <2>1, <2>3
      <3>3. QED BY <1>1, <3>1, <3>2
    <2>4. QED BY <2>1, <2>2, <2>3 DEF ValidSchedule
  <1>3. ValidEquipment(p)
    BY DEF Sensible, ValidEquipment
  <1>4. QED BY <1>2, <1>3 DEF Sensible, ValidPosting

(* Where the posting of the flow is complete, so is the one bid for.       *)
LEMMA ChosenComplete ==
  ASSUME IInv, OwnBooks, stage \in {"bid", "answer", "book"}, Complete(own)
  PROVE  Good(chosen) /\ Complete(chosen)
  <1>1. /\ chosen \in Range(Book) /\ kind \in {"load", "shipper", "truck"}
        /\ own \in Postings(kind) /\ Heard(own)
    BY DEF IInv, StageInv, DealInv
  <1>2. Good(chosen)
    BY <1>1, ChosenIsGood DEF IInv
  <1>3. ASSUME NEW m \in Models, chosen \in {LoadPosting(m), TruckPosting(m)}
        PROVE  Complete(chosen)
    BY <1>3, OwnPostings
  <1>4. ASSUME kind = "shipper", chosen = Normalized(own) PROVE Complete(chosen)
    <2>1. own \in Tender /\ ValidPosting(own)
      BY <1>1, <1>4, NegotiationAssumption DEF Postings, Heard
    <2>2. QED BY <1>4, <2>1, NormalizedFacts DEF Complete
  <1>5. CASE kind = "truck"
    <2>1. PICK m \in Models : chosen = TruckPosting(m)
      BY <1>1, <1>5 DEF OwnBooks, Book
    <2>2. QED BY <1>2, <1>3, <2>1
  <1>6. CASE kind \in {"load", "shipper"}
    <2>1. \/ \E m \in Models : chosen = LoadPosting(m)
          \/ kind = "shipper" /\ chosen = Normalized(own)
      BY <1>1, <1>6 DEF OwnBooks, Book
    <2>2. QED BY <1>2, <1>3, <1>4, <2>1
  <1>7. QED BY <1>1, <1>5, <1>6

(* A step within a flow: only a message that it refuses matters.           *)
LEMMA HeardKept ==
  ASSUME HeardInv, stage # "idle", UNCHANGED <<signed, kind, loads, trucks, own>>,
         \/ refused' = refused /\ (refused # "none" => stage' = "over")
         \/ /\ stage' = "over" /\ refused' \notin {"none", "New"} /\ ~Complete(own)
  PROVE  HeardInv'
  <1>1. OwnBooks'
    BY DEF HeardInv, OwnBooks
  <1>2. CASE refused' = refused /\ (refused # "none" => stage' = "over")
    BY <1>1, <1>2 DEF HeardInv, CompleteIsHeard
  <1>3. CASE stage' = "over" /\ refused' \notin {"none", "New"} /\ ~Complete(own)
    BY <1>1, <1>3 DEF HeardInv, CompleteIsHeard
  <1>4. QED BY <1>2, <1>3

LEMMA PostHeard ==
  ASSUME Sensible, IInv, HeardInv, NEW k \in {"load", "shipper", "truck"},
         NEW p \in Postings(k), Post(k, p)
  PROVE  HeardInv'
  <1>1. /\ stage = "idle" /\ k \in Later[kind] /\ kind' = k /\ own' = p /\ signed' = signed
        /\ loads' = IF k = "load" \/ (k = "shipper" /\ Heard(p))
                    THEN Append(loads, Normalized(p)) ELSE loads
        /\ trucks' = IF k = "truck" THEN Append(trucks, Normalized(p)) ELSE trucks
        /\ \/ Heard(p) /\ stage' = "search" /\ refused' = refused
           \/ ~Heard(p) /\ stage' = "over" /\ refused' = "New"
    BY DEF Post, Refuse
  <1>2. /\ refused = "none" /\ OwnBooks /\ kind \in {"none", "load", "shipper", "truck"}
        /\ loads \in Seq(Posting) /\ trucks \in Seq(Posting)
    BY <1>1 DEF HeardInv, IInv, Typed, BooksInv
  <1>3. /\ kind # "truck"
        /\ k = "load" => kind = "none"
        /\ k = "shipper" => kind \in {"none", "load"}
    BY <1>1, <1>2 DEF Later
  <1>4. Range(<<>>) = {}
    BY DEF Range
  <1>5. k \in {"load", "truck"} => Normalized(p) = p /\ Heard(p)
    BY OwnPostings DEF Postings
  <1>6. OwnBooks'
    <2>1. CASE k = "truck"
      <3>1. PICK m \in Models : p = TruckPosting(m)
        BY <2>1 DEF Postings
      <3>2. Good(p)
        BY <3>1, OwnPostings
      <3>3. trucks = <<>> /\ trucks' = Append(trucks, p)
        BY <1>1, <1>2, <1>3, <1>5, <2>1 DEF OwnBooks
      <3>4. Range(Append(trucks, p)) = Range(trucks) \cup {p}
        BY <1>2, <3>2, RangeAppend DEF Good
      <3>5. QED BY <1>1, <1>4, <2>1, <3>1, <3>3, <3>4 DEF OwnBooks
    <2>2. CASE k = "load"
      <3>1. PICK m \in Models : p = LoadPosting(m)
        BY <2>2 DEF Postings
      <3>2. Good(p)
        BY <3>1, OwnPostings
      <3>3. loads = <<>> /\ loads' = Append(loads, p) /\ trucks' = <<>>
        BY <1>1, <1>2, <1>3, <1>5, <2>2 DEF OwnBooks
      <3>4. Range(Append(loads, p)) = Range(loads) \cup {p}
        BY <1>2, <3>2, RangeAppend DEF Good
      <3>5. QED BY <1>1, <1>4, <2>2, <3>1, <3>3, <3>4 DEF OwnBooks
    <2>3. CASE k = "shipper"
      <3>1. Range(loads) \subseteq {LoadPosting(m) : m \in Models}
        BY <1>2, <1>3, <1>4, <2>3 DEF OwnBooks
      <3>2. trucks' = <<>>
        BY <1>1, <1>2, <1>3, <2>3 DEF OwnBooks
      <3>3. CASE Heard(p)
        <4>1. Good(Normalized(p))
          BY <3>3, SentPosting
        <4>2. Range(loads') = Range(loads) \cup {Normalized(p)}
          BY <1>1, <1>2, <2>3, <3>3, <4>1, RangeAppend DEF Good
        <4>3. QED BY <1>1, <2>3, <3>1, <3>2, <4>2 DEF OwnBooks
      <3>4. CASE ~Heard(p)
        BY <1>1, <2>3, <3>1, <3>2, <3>4 DEF OwnBooks
      <3>5. QED BY <3>3, <3>4
    <2>4. QED BY <2>1, <2>2, <2>3
  <1>7. CompleteIsHeard'
    <2>1. ASSUME ~Heard(p)
          PROVE  \/ ~(Feasible(p) /\ ValidStops(p.stops) /\ ValidPolicy(p.policy))
                 \/ ~ValidRate(p.rate) \/ (Class(p) = "Special" /\ ~p.described)
                 \/ signed /\ Normalized(p) # p
      <3>1. p \in Tenders
        BY <1>5, <2>1 DEF Postings
      <3>2. QED BY <2>1, <3>1, TenderValid DEF Heard
    <2>2. QED BY <1>1, <1>2, <2>1 DEF CompleteIsHeard
  <1>8. QED BY <1>1, <1>2, <1>6, <1>7 DEF HeardInv

LEMMA SearchHeard ==
  ASSUME IInv, HeardInv, NEW noMatch \in BOOLEAN, Search(noMatch)
  PROVE  HeardInv'
  <1> DEFINE s == Filters(noMatch)
  <1>1. /\ stage = "search" /\ UNCHANGED <<signed, kind, loads, trucks, own>>
        /\ \/ ~ValidSearch(s) /\ stage' = "over" /\ refused' = "Search"
           \/ refused' = refused
    BY DEF Search, Refuse
  <1>2. /\ refused = "none" /\ kind \in {"load", "shipper", "truck"}
        /\ own \in Postings(kind) /\ Heard(own)
    BY <1>1 DEF HeardInv, IInv, StageInv
  <1>3. ASSUME Complete(own) PROVE ValidSearch(s)
    <2>1. CASE kind = "shipper"
      <3>1. own \in Tender /\ ValidPosting(own) /\ own.kind = "load"
        BY <1>2, <2>1, NegotiationAssumption DEF Postings, Heard, Tender
      <3>2. /\ Good(Normalized(own)) /\ Complete(Normalized(own))
            /\ Normalized(own).kind = "load"
        BY <1>3, <3>1, NormalizedFacts DEF Good, Complete
      <3>3. PICK lane : s = SearchFor(Normalized(own), lane)
        BY <2>1 DEF Filters
      <3>4. QED BY <3>2, <3>3, TenderSearchValid
    <2>2. CASE kind \in {"load", "truck"}
      <3>1. PICK m \in Models : own \in {LoadPosting(m), TruckPosting(m)}
        BY <1>2, <2>2 DEF Postings
      <3>2. own.rate.model \in RateModel
        BY <3>1, OwnPostings DEF Good, Posting, RateRecord
      <3>3. \/ \E lane : s = LoadSearch(own.rate.model, lane)
            \/ s = TruckSearch(own.rate.model)
        BY <2>2 DEF Filters
      <3>4. QED BY <3>2, <3>3, OwnSearchValid
    <2>3. QED BY <1>2, <2>1, <2>2
  <1> HIDE DEF s
  <1>4. QED BY <1>1, <1>2, <1>3, HeardKept

LEMMA BidHeard ==
  ASSUME Sensible, IInv, HeardInv, Bid
  PROVE  HeardInv'
  <1>1. /\ stage = "bid" /\ bid' \in BidsFor(chosen)
        /\ UNCHANGED <<signed, kind, loads, trucks, own, chosen>>
        /\ \/ ValidBid(bid') /\ refused' = refused
           \/ ~ValidBid(bid') /\ stage' = "over" /\ refused' = "BidRequest"
    BY DEF Bid, Refuse, BidsFor
  <1>2. refused = "none" /\ OwnBooks
    BY <1>1 DEF HeardInv
  <1>3. ASSUME Complete(own) PROVE ValidBid(bid')
    <2>1. Good(chosen) /\ Complete(chosen)
      BY <1>1, <1>2, <1>3, ChosenComplete
    <2>2. QED BY <1>1, <2>1, BidsValid
  <1>4. QED BY <1>1, <1>2, <1>3, HeardKept

(* An answer is always valid: a counter proposes a rate.                   *)
LEMMA RespondHeard ==
  ASSUME IInv, HeardInv, NEW forced, Respond(forced)
  PROVE  HeardInv'
  <1> DEFINE a == Answer(mileage, chosen, bid, forced)
  <1>1. /\ stage = "answer" /\ UNCHANGED <<signed, kind, loads, trucks, own>>
        /\ ValidAnswer(a) => refused' = refused
    BY DEF Respond
  <1>2. refused = "none" /\ chosen \in Range(Book)
    BY <1>1 DEF HeardInv, IInv, DealInv
  <1>3. Good(chosen)
    BY <1>2, ChosenIsGood DEF IInv
  <1>4. a.type = "Counter" => a.rate = CounterRate(chosen)
    BY AnswerFacts
  <1> HIDE DEF a
  <1>5. ValidAnswer(a)
    BY <1>3, <1>4, CounterFacts DEF ValidAnswer
  <1>6. QED BY <1>1, <1>2, <1>5, HeardKept

LEMMA ReportHeard ==
  ASSUME IInv, HeardInv, Report
  PROVE  HeardInv'
  <1> DEFINE r == ReportOf(chosen, bid)
  <1>1. /\ stage = "book" /\ UNCHANGED <<signed, kind, loads, trucks, own>>
        /\ \/ refused' = refused
           \/ /\ stage' = "over" /\ refused' = "ExecutionReport"
              /\ (chosen.kind = "load" /\ chosen.policy = Absent) \/ ~ValidReport(r)
    BY DEF Report, Refuse
  <1>2. refused = "none" /\ OwnBooks /\ ValidRate(bid.rate)
    BY <1>1 DEF HeardInv, IInv, DealInv, ValidBid
  <1>3. ASSUME Complete(own)
        PROVE  ValidReport(r) /\ ~(chosen.kind = "load" /\ chosen.policy = Absent)
    <2>1. Good(chosen) /\ Complete(chosen)
      BY <1>1, <1>2, <1>3, ChosenComplete
    <2>2. QED BY <1>2, <2>1, ReportValid DEF Complete
  <1> HIDE DEF r
  <1>4. QED BY <1>1, <1>2, <1>3, HeardKept

(* A flow that starts over has refused nothing.                            *)
LEMMA RestartHeard ==
  ASSUME HeardInv, Renew \/ Continue
  PROVE  HeardInv'
  <1>1. CASE Renew
    <2>1. /\ refused' = "none" /\ kind' = "none" /\ loads' = <<>> /\ trucks' = <<>>
      BY <1>1 DEF Renew
    <2>2. QED BY <2>1 DEF HeardInv, OwnBooks, CompleteIsHeard
  <1>2. CASE Continue
    <2>1. /\ refused' = "none" /\ stage' = "idle" /\ UNCHANGED <<kind, loads, trucks>>
      BY <1>2 DEF Continue
    <2>2. QED BY <2>1 DEF HeardInv, OwnBooks, CompleteIsHeard
  <1>3. QED BY <1>1, <1>2

(* No step of a complete posting's flow ends in a refusal: where tenders   *)
(* are worded as the protocol wants them, validate_message_body refuses a  *)
(* posting only if it makes no sense or was signed before it was put into  *)
(* the protocol's words, and no search, bid, answer or report that follows *)
(* from a complete one.                                                    *)
THEOREM CompletePostingsAreHeard ==
  ASSUME Sensible
  PROVE  Spec => []CompleteIsHeard
  <1>1. Init => HeardInv
    <2>1. Range(<<>>) = {}
      BY DEF Range
    <2>2. QED BY <2>1 DEF Init, HeardInv, OwnBooks, CompleteIsHeard
  <1>2. ASSUME IInv, HeardInv, [Next]_vars PROVE HeardInv'
    <2> USE <1>2
    <2>1. ASSUME NEW k \in {"load", "shipper", "truck"}, NEW p \in Postings(k), Post(k, p)
          PROVE  HeardInv'
      BY <2>1, PostHeard
    <2>2. ASSUME NEW noMatch \in BOOLEAN, Search(noMatch) PROVE HeardInv'
      BY <2>2, SearchHeard
    <2>3. CASE Bid
      BY <2>3, BidHeard
    <2>4. ASSUME NEW forced \in {"Accept", "Counter", "Reject"}, Respond(forced)
          PROVE  HeardInv'
      BY <2>4, RespondHeard
    <2>5. CASE Report
      BY <2>5, ReportHeard
    <2>6. CASE Renew \/ Continue
      BY <2>6, RestartHeard
    <2>7. ASSUME \/ Decline \/ \E m \in Mileage : Configure(m)
                 \/ \E type \in Catalog, amount \in Amounts, id \in 1 .. MaxClaims :
                      Submit(type, amount, id)
                 \/ \E id \in 1 .. MaxClaims, decision \in {"Approved", "Rejected"} :
                      Resolve(id, decision)
          PROVE  HeardInv'
      <3>1. /\ stage # "idle" /\ refused' = refused
            /\ stage # "over" /\ UNCHANGED <<signed, kind, loads, trucks, own>>
        BY <2>7 DEF Decline, Configure, Submit, Resolve, Settle, flowVars
      <3>2. QED BY <3>1, HeardKept DEF HeardInv
    <2>8. CASE UNCHANGED vars
      BY <2>8 DEF vars, flowVars, HeardInv, OwnBooks, CompleteIsHeard
    <2>9. QED
      BY <1>2, <2>1, <2>2, <2>3, <2>4, <2>5, <2>6, <2>7, <2>8 DEF Next, Negotiate, Claim
  <1>3. HeardInv => CompleteIsHeard
    BY DEF HeardInv
  <1>4. QED BY <1>1, <1>2, <1>3, Invariance, PTL DEF Spec
===============================================================================
