--------------------------- MODULE MCReplayGuard -----------------------------
(* Values for the constants of ReplayGuard that a .cfg cannot write.        *)
EXTENDS ReplayGuard, TLC

CONSTANTS i1, i2, t1, t2

(* One thread in each of two processes; the second process's clock is      *)
(* Drift ahead. Two threads of one process are interchangeable.            *)
TwoProcesses == (t1 :> i1) @@ (t2 :> i2)
TwoThreads == (t1 :> i1) @@ (t2 :> i1)
Symmetric == Permutations({t1, t2})
OneClock == i1 :> 0
DriftedClocks == (i1 :> 0) @@ (i2 :> Drift)

(* An envelope; one that shares its Nonce and its time; the MessageID      *)
(* reused later under a new Nonce; and another sender who happens to use   *)
(* the same identifiers. sqlite deletes old rows only when it grants a     *)
(* claim: it is the last envelope that lets the reuse succeed.             *)
Reuse ==
  { [sender |-> "s1", mid |-> "m1", nonce |-> "n1", ts |-> 0],
    [sender |-> "s1", mid |-> "m2", nonce |-> "n1", ts |-> 0],
    [sender |-> "s1", mid |-> "m1", nonce |-> "n2", ts |-> 1],
    [sender |-> "s2", mid |-> "m1", nonce |-> "n1", ts |-> 1] }

(* Two of one sender and of the same moment, that share a Nonce.           *)
Clash ==
  { [sender |-> "s1", mid |-> "m1", nonce |-> "n1", ts |-> 0],
    [sender |-> "s1", mid |-> "m2", nonce |-> "n1", ts |-> 0] }

(* For Redis, which needs no help to forget, and envelopes that may come   *)
(* from the future: two that share a Nonce and a time, and a later reuse   *)
(* of the MessageID of one of them.                                        *)
SkewedReuse ==
  { [sender |-> "s1", mid |-> "m1", nonce |-> "n1", ts |-> 1],
    [sender |-> "s1", mid |-> "m1", nonce |-> "n2", ts |-> 3],
    [sender |-> "s1", mid |-> "m2", nonce |-> "n1", ts |-> 1] }
===============================================================================
