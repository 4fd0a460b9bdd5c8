------------------------- MODULE MCBookingSessions ---------------------------
(* Values for the constants of BookingSessions.                             *)
EXTENDS BookingSessions

CONSTANTS s1, s2

Sessions == {s1, s2}

(* main() with --shipper-flow; one browser session whose runs may be cut    *)
(* anywhere; two that let their runs end.                                   *)
Hosts ==
  { [hosted |-> FALSE, reruns |-> FALSE, kinds |-> {}, sessions |-> {s1}],
    [hosted |-> TRUE, reruns |-> TRUE, kinds |-> {"load", "shipper"}, sessions |-> {s1}],
    [hosted |-> TRUE, reruns |-> FALSE, kinds |-> {"load"}, sessions |-> {s1, s2}] }

(* What main() runs with --shipper-flow, the longer of its two plans.       *)
FullPlan == <<"load", "shipper", "truck">>
===============================================================================
