---------------------------- MODULE ProtocolState -----------------------------
(***************************************************************************)
(* What validate_envelope checks of a message beyond its own form: who may *)
(* send it to whom (_validate_route_policy) and whether the protocol state *)
(* machine expects it (_enforce_state_transition). "New" and "Search"      *)
(* stand for NewLoad and LoadSearch, or NewTruck and TruckSearch.          *)
(* AmendRequest is left out: no flow sends it.                             *)
(***************************************************************************)

(* The flows: run_load_flow, run_shipper_load_flow, run_truck_flow.        *)
Kind == {"load", "shipper", "truck"}
Domain(kind) == IF kind = "truck" THEN "truck" ELSE "load"

MessageType == {"New", "Search", "BidRequest", "BidResponse", "ExecutionReport"}
State == {"START", "NEW", "SEARCH", "BIDREQUEST", "BIDRESPONSE", "BOOKED"}

(* Mutant of AllowedPrevious: a new posting only from a fresh, a posted or *)
(* a finished negotiation.                                                 *)
AllowedWhenDone ==
  [ New |-> State \ {"SEARCH", "BIDREQUEST", "BIDRESPONSE"},
    Search |-> {"NEW"},
    BidRequest |-> {"SEARCH"},
    BidResponse |-> {"BIDREQUEST"},
    ExecutionReport |-> {"BIDRESPONSE"} ]

AllowedPrevious ==
  [ New |-> State,
    Search |-> {"NEW"},
    BidRequest |-> {"SEARCH"},
    BidResponse |-> {"BIDREQUEST"},
    ExecutionReport |-> {"BIDRESPONSE"} ]

NextState ==
  [ New |-> "NEW",
    Search |-> "SEARCH",
    BidRequest |-> "BIDREQUEST",
    BidResponse |-> "BIDRESPONSE",
    ExecutionReport |-> "BOOKED" ]

InitialFlow == [domain \in {"load", "truck"} |-> "START"]

Capability ==
  [ Shipper |-> {"post_load", "book_truck"},
    Broker  |-> {"post_load", "post_truck", "book_load", "book_truck"},
    Carrier |-> {"post_truck", "book_load"} ]

Post(kind) == IF Domain(kind) = "load" THEN "post_load" ELSE "post_truck"
Book(kind) == IF Domain(kind) = "load" THEN "book_load" ELSE "book_truck"

(* Who sends message m of a flow to whom.                                  *)
Poster(kind) == IF kind = "truck" THEN "Carrier" ELSE "Broker"
Finder(kind) == IF kind = "truck" THEN "Broker" ELSE "Carrier"

Sender(kind, m) ==
  IF m = "New" /\ kind = "shipper" THEN "Shipper"
  ELSE IF m = "ExecutionReport" THEN "Broker"
  ELSE IF m \in {"New", "BidResponse"} THEN Poster(kind) ELSE Finder(kind)

Receiver(kind, m) ==
  IF m = "New" /\ kind = "shipper" THEN "Broker"
  ELSE IF m = "ExecutionReport" THEN "Carrier"
  ELSE IF m \in {"New", "BidResponse"} THEN Finder(kind) ELSE Poster(kind)

RouteAllowed(kind, m) ==
  LET sender == Capability[Sender(kind, m)]
      receiver == Capability[Receiver(kind, m)]
  IN
  /\ m = "New" => Post(kind) \in sender /\ Book(kind) \in receiver
  /\ m \in {"Search", "BidRequest"} => Book(kind) \in sender /\ Post(kind) \in receiver
  /\ m = "BidResponse" => Book(kind) \in receiver
  /\ m = "ExecutionReport" =>
       IF Domain(kind) = "load" THEN Book(kind) \in receiver ELSE Post(kind) \in receiver

(* validate_envelope accepts message m of a flow in state flow.            *)
Permitted(flow, kind, m) ==
  RouteAllowed(kind, m) /\ flow[Domain(kind)] \in AllowedPrevious[m]

(* _enforce_state_transition.                                              *)
Advanced(flow, kind, m) == [flow EXCEPT ![Domain(kind)] = NextState[m]]
===============================================================================
