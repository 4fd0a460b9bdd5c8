------------------------------ MODULE KeyRotation -----------------------------
(***************************************************************************)
(* scripts/rotate_faxp_keys.sh, one run at a time, and the processes that  *)
(* scripts/run_secure_demo.sh starts meanwhile. A rotation makes key files, *)
(* enters them in the key registry and in the verifier ring of the         *)
(* environment file, and deletes the key files the registry no longer      *)
(* names; it may die anywhere. A process reads both files once.            *)
(*                                                                         *)
(* A generation is what one rotation makes: a key pair for each agent, the *)
(* same for all of them, known by the second it was made in. It is there   *)
(* as long as all of its files are. The HMAC rings hold no files.          *)
(***************************************************************************)
EXTENDS Integers, FiniteSets, Sequences

CONSTANTS
  Host,
  Stamp,    \* the seconds in which rotations may start
  Keep,     \* KEEP_GENERATIONS
  First,    \* the second generate_faxp_keys.sh ran in
  Emptied   \* content of a file that was opened and not written

ASSUME RotationAssumption ==
  /\ Stamp \subseteq Nat /\ First \in Stamp
  /\ Keep \in Nat \ {0}
  /\ Emptied \notin [keys : SUBSET Stamp, active : Stamp]
  /\ Emptied \notin [whole : BOOLEAN, ring : Seq(Stamp), active : Stamp]

VARIABLES
  keyDir,    \* the generations whose files are in KEY_DIR
  registry,  \* faxp_agent_keys.local.json
  env,       \* security.env.local: whole if it has the settings beside keys
  pc,        \* where the rotation is
  draft,     \* what it is about to write into the file it has emptied
  stamp,     \* STAMP of the rotation under way, or of the last one
  host,      \* the processes, and the keys they sign with
  latest,    \* history: the latest stamp so far
  behind,    \* history: generations registered since env was written
  age,       \* history: generations registered since the process' env was
  lost,      \* history: the registry was found empty since env was written
  bereft,    \* history: ... since the process' env was written
  clean      \* history: rotations in a row that did their writing

losses == <<lost, bereft>>
history == <<latest, behind, age, losses, clean>>
vars == <<keyDir, registry, env, pc, draft, stamp, host, history>>

Down == [state |-> "down", verifier |-> First, agents |-> First]

(* generate_faxp_keys.sh.                                                  *)
Init ==
  /\ keyDir = {First}
  /\ registry = [keys |-> {First}, active |-> First]
  /\ env = [whole |-> TRUE, ring |-> <<First>>, active |-> First]
  /\ pc = "idle"
  /\ draft = Emptied
  /\ stamp = First
  /\ host = [h \in Host |-> Down]
  /\ latest = First
  /\ behind = 0
  /\ age = [h \in Host |-> Keep]
  /\ lost = FALSE
  /\ bereft = [h \in Host |-> FALSE]
  /\ clean = Keep
-------------------------------------------------------------------------------
(* The clock may have been set back, but not to a second that has keys.    *)
Start(t) ==
  /\ pc = "idle"
  /\ t \notin keyDir
  /\ pc' = "generate"
  /\ stamp' = t
  /\ latest' = IF t > latest THEN t ELSE latest
  /\ UNCHANGED <<keyDir, registry, env, draft, host, behind, age, losses, clean>>

Generate ==
  /\ pc = "generate"
  /\ pc' = "load"
  /\ keyDir' = keyDir \cup {stamp}
  /\ UNCHANGED <<registry, env, draft, stamp, host, history>>

(* trim_agent_keys: the first Keep by issued_at, latest first.             *)
Newest(S) == {t \in S : Cardinality({u \in S : u > t}) < Keep}

(* add_agent_key, trim_agent_keys. An empty file counts as no agents.      *)
Extended(r) ==
  LET kept == Newest({stamp} \cup IF r = Emptied THEN {} ELSE r.keys)
  IN [keys |-> kept,
      active |-> IF stamp \in kept THEN stamp ELSE CHOOSE t \in kept : \A u \in kept : t >= u]

(* The registry is read, and opened to be written, which empties it. One   *)
(* that a dead rotation has left empty is made anew, with one generation.  *)
OpenRegistry ==
  /\ pc = "load"
  /\ pc' = "register"
  /\ draft' = Extended(registry)
  /\ registry' = Emptied
  /\ lost' = (lost \/ registry = Emptied)
  /\ bereft' = [h \in Host |-> bereft[h] \/ registry = Emptied]
  /\ UNCHANGED <<keyDir, env, stamp, host, latest, behind, age, clean>>

(* The histories count no further than Keep. After a registration out of   *)
(* the clock's order the active key need not be the newest: files, and     *)
(* processes that have read only one of the two, count as old as can be.   *)
InOrder == stamp = latest
OneMore(n) == IF n < Keep THEN n + 1 ELSE Keep

WriteRegistry ==
  /\ pc = "register"
  /\ pc' = "configure"
  /\ registry' = draft
  /\ behind' = IF InOrder THEN OneMore(behind) ELSE Keep
  /\ age' = [h \in Host |->
               IF InOrder \/ host[h].state = "up" THEN OneMore(age[h]) ELSE Keep]
  /\ draft' = Emptied
  /\ UNCHANGED <<keyDir, env, stamp, host, latest, losses, clean>>

(* A ring without the entries for a stamp.                                 *)
Without(ring, t) ==
  LET rest[i \in 0 .. Len(ring)] ==
        IF i = 0 THEN <<>>
        ELSE IF ring[i] = t THEN rest[i - 1] ELSE Append(rest[i - 1], ring[i])
  IN  rest[Len(ring)]

(* Mutant: the ring is not cut.                                            *)
PrependAll(ring) == <<stamp>> \o Without(ring, stamp)

(* prepend_ring.                                                           *)
PrependRing(ring) ==
  LET merged == <<stamp>> \o Without(ring, stamp)
  IN SubSeq(merged, 1, IF Len(merged) < Keep THEN Len(merged) ELSE Keep)

(* The environment file is read and opened. The updates do not bring back  *)
(* the other settings of a file that was emptied.                          *)
OpenEnv ==
  /\ pc = "configure"
  /\ pc' = "update"
  /\ draft' = [whole |-> env # Emptied /\ env.whole,
               ring |-> PrependRing(IF env = Emptied THEN <<>> ELSE env.ring),
               active |-> stamp]
  /\ env' = Emptied
  /\ UNCHANGED <<keyDir, registry, stamp, host, history>>

(* update_env_file.                                                        *)
WriteEnv ==
  /\ pc = "update"
  /\ pc' = "prune"
  /\ env' = draft
  /\ behind' = IF InOrder THEN 0 ELSE Keep
  /\ clean' = IF InOrder THEN OneMore(clean) ELSE 0
  /\ lost' = FALSE
  /\ draft' = Emptied
  /\ UNCHANGED <<keyDir, registry, stamp, host, latest, age, bereft>>

(* Mutant: what the ring does not name is deleted.                         *)
PruneByRing(t) ==
  /\ pc = "prune"
  /\ t \in keyDir /\ \A i \in DOMAIN env.ring : env.ring[i] # t
  /\ keyDir' = keyDir \ {t}
  /\ UNCHANGED <<registry, env, pc, draft, stamp, host, history>>

(* The second part of the script reads the registry again and deletes what *)
(* it does not name, one file after the other.                             *)
Prune(t) ==
  /\ pc = "prune"
  /\ t \in keyDir \ registry.keys
  /\ keyDir' = keyDir \ {t}
  /\ UNCHANGED <<registry, env, pc, draft, stamp, host, history>>

End ==
  /\ pc = "prune"
  /\ keyDir \subseteq registry.keys
  /\ pc' = "idle"
  /\ UNCHANGED <<keyDir, registry, env, draft, stamp, host, history>>

(* The rotation dies where it is.                                          *)
Crash ==
  /\ pc # "idle"
  /\ pc' = "idle"
  /\ draft' = Emptied
  /\ clean' = IF pc \in {"register", "configure", "update"} THEN 0 ELSE clean
  /\ UNCHANGED <<keyDir, registry, env, stamp, host, latest, behind, age, losses>>
-------------------------------------------------------------------------------
(* run_secure_demo.sh: the required settings are there, and check_ring_paths *)
(* finds every file the ring names.                                        *)
RingOnHand == \A i \in DOMAIN env.ring : env.ring[i] \in keyDir

Source(h) ==
  /\ host[h].state = "down"
  /\ env # Emptied /\ env.whole
  /\ RingOnHand
  /\ host' = [host EXCEPT ![h].state = "sourced", ![h].verifier = env.active]
  /\ age' = [age EXCEPT ![h] = behind]
  /\ bereft' = [bereft EXCEPT ![h] = lost]
  /\ UNCHANGED <<keyDir, registry, env, pc, draft, stamp, latest, behind, lost, clean>>

Leave(h) ==
  /\ host' = [host EXCEPT ![h] = Down]
  /\ age' = [age EXCEPT ![h] = Keep]
  /\ bereft' = [bereft EXCEPT ![h] = FALSE]

(* faxp_mvp_simulation.py is imported and enforces its security baseline:  *)
(* it comes up if there is a registry and its active key is on hand, or it *)
(* refuses, for this or another reason.                                    *)
Import(h) ==
  /\ host[h].state = "sourced"
  /\ \/ /\ registry # Emptied /\ registry.active \in keyDir
        /\ host' = [host EXCEPT ![h].state = "up", ![h].agents = registry.active]
        /\ UNCHANGED <<age, bereft>>
     \/ Leave(h)
  /\ UNCHANGED <<keyDir, registry, env, pc, draft, stamp, latest, behind, lost, clean>>

Stop(h) ==
  /\ host[h].state = "up"
  /\ Leave(h)
  /\ UNCHANGED <<keyDir, registry, env, pc, draft, stamp, latest, behind, lost, clean>>

Next ==
  \/ \E t \in Stamp : Start(t) \/ Prune(t)
  \/ Generate \/ OpenRegistry \/ WriteRegistry \/ OpenEnv \/ WriteEnv \/ End \/ Crash
  \/ \E h \in Host : Source(h) \/ Import(h) \/ Stop(h)

Spec == Init /\ [][Next]_vars
-------------------------------------------------------------------------------
(* The type of the state.                                                  *)
TypeOK ==
  /\ keyDir \subseteq Stamp
  /\ registry \in [keys : SUBSET Stamp, active : Stamp] \cup {Emptied}
  /\ env \in [whole : BOOLEAN, ring : Seq(Stamp), active : Stamp] \cup {Emptied}
  /\ draft \in [keys : SUBSET Stamp, active : Stamp]
       \cup [whole : BOOLEAN, ring : Seq(Stamp), active : Stamp] \cup {Emptied}
  /\ pc \in {"idle", "generate", "load", "register", "configure", "update", "prune"}
  /\ stamp \in Stamp /\ latest \in Stamp
  /\ host \in [Host -> [state : {"down", "sourced", "up"}, verifier : Stamp, agents : Stamp]]
  /\ behind \in 0 .. Keep /\ clean \in 0 .. Keep
  /\ age \in [Host -> 0 .. Keep]
  /\ lost \in BOOLEAN /\ bereft \in [Host -> BOOLEAN]

(* Once the last Keep rotations each wrote both files, in the order of the *)
(* clock, every key the verifier ring names is on hand, although the files *)
(* are deleted by what the registry names: run_secure_demo.sh finds no key *)
(* missing. So Keep undisturbed rotations heal whatever a crash or the     *)
(* clock did to the ring before. They do not bring back the other settings *)
(* of an environment file that was emptied.                                *)
StartsWhenClean == clean = Keep /\ env # Emptied => RingOnHand

(* A running process has the files of the keys it signs with, for itself   *)
(* and as the verifier, until the registry has been given Keep generations *)
(* since its environment file was written: whichever rotations died,       *)
(* however the clock was set meanwhile. Two cases are left out: the        *)
(* process read a file written out of the clock's order; a rotation found  *)
(* the registry empty, left so by one that died writing it, and makes it   *)
(* anew with its own generation only. Up to that one the keys are there.   *)
HostSigns ==
  \A h \in Host :
    host[h].state = "up" /\ age[h] < Keep /\ ~bereft[h] =>
      {host[h].verifier, host[h].agents} \subseteq keyDir
===============================================================================
