---------------------------- MODULE MCKeyRotation -----------------------------
(* Values for the constants of KeyRotation: the keys are first made in       *)
(* second 2, and the clock may be set back by a second.                      *)
EXTENDS KeyRotation

Seconds == 1 .. 5
===============================================================================
