------------------------- MODULE MCReplayOpsMonitor ---------------------------
(* Values for the constants of ReplayOpsMonitor.                            *)
EXTENDS ReplayOpsMonitor

(* The thresholds of REPLAY_OPS_MONITORING_PROFILE.json: tenths of a        *)
(* percent, milliseconds, seconds.                                          *)
Shipped ==
  [availability |-> 999, budget |-> 1, p95_max |-> 75, p99_max |-> 150,
   reject_warn |-> 10, reject_critical |-> 50, failure_critical |-> 20,
   p95_warn |-> 75, p99_critical |-> 500, backend_critical |-> 120]

Good == [availability |-> 1000, failure |-> 0, reject |-> 0,
         p95 |-> 30, p99 |-> 80, backend |-> 0]
AtTarget == [Good EXCEPT !["p95"] = 75]
Slow == [Good EXCEPT !["p95"] = 76]
Silent == [k \in Field |-> IF k = "availability" THEN Missing ELSE Invalid]

Over(metric, window) == [metric |-> metric, window |-> window]

(* Clean samples that are rounded either way; a clean one over more        *)
(* minutes than may be claimed at once; samples that warn, breach a target  *)
(* only, or cannot be used.                                                 *)
Snapshots ==
  {Over(Good, 1), Over(Good, 3), Over(Good, 4), Over(AtTarget, 3),
   Over(Slow, 3), Over(Silent, Invalid)}
===============================================================================
