---------------------------- MODULE ReplayContract ----------------------------
(***************************************************************************)
(* What the replay guard of the FAXP runtime promises, without its store,  *)
(* its caches or its processes: however many runtime instances validate an *)
(* envelope, and however often the network delivers it, the envelope is    *)
(* accepted at most once; and two different envelopes that reuse one       *)
(* MessageID (or one Nonce) of one sender are both accepted only when      *)
(* their timestamps are more than Reach apart.                             *)
(*                                                                         *)
(* The promise ends when a lost replay store is created anew, as an        *)
(* operator may ask (FAXP_ALLOW_REPLAY_DB_BOOTSTRAP=1): "rebuilt" records  *)
(* that.                                                                   *)
(***************************************************************************)
EXTENDS Integers

CONSTANTS Envelope,     \* the envelopes the network may deliver
          Reach         \* how far apart reuses of an identifier must be

VARIABLES accepted,     \* how often each envelope was accepted (0, 1, "2 or more")
          rebuilt       \* the store was re-created after claims were granted

contractVars == <<accepted, rebuilt>>

(* Two envelopes of one sender with the same MessageID or the same Nonce.  *)
Collide(e, f) ==
  /\ e.sender = f.sender
  /\ e.mid = f.mid \/ e.nonce = f.nonce

(* Their timestamps are far enough apart for the later one to be new.      *)
Apart(e, f) == e.ts - f.ts > Reach \/ f.ts - e.ts > Reach

Bump(n) == IF n < 2 THEN n + 1 ELSE n

Init ==
  /\ accepted = [e \in Envelope |-> 0]
  /\ rebuilt = FALSE

Accept(e) ==
  /\ \/ rebuilt
     \/ /\ accepted[e] = 0
        /\ \A f \in Envelope : accepted[f] > 0 /\ Collide(e, f) => Apart(e, f)
  /\ accepted' = [accepted EXCEPT ![e] = Bump(@)]
  /\ UNCHANGED rebuilt

Rebuild ==
  /\ ~rebuilt
  /\ rebuilt' = TRUE
  /\ UNCHANGED accepted

Next == Rebuild \/ \E e \in Envelope : Accept(e)

Spec == Init /\ [][Next]_contractVars
===============================================================================
