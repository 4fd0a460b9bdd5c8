----------------------------- MODULE ReplayGuard ------------------------------
(***************************************************************************)
(* The replay guard of faxp_mvp_simulation.py: validate_envelope's TTL     *)
(* check followed by _track_replay_pair, run by several threads of several *)
(* runtime instances over one replay store (an sqlite file or a Redis      *)
(* server), with retention, crashes, restarts, loss of the sqlite file and *)
(* a network that may deliver any envelope any number of times. main()     *)
(* prepares the store before it serves; a host that imports the runtime,   *)
(* as streamlit_app.py does, serves at once.                               *)
(*                                                                         *)
(* Time is in whole seconds, the unit of seen_at, EX and retention.        *)
(***************************************************************************)
EXTENDS Integers, FiniteSets

CONSTANTS
  Instance,        \* runtime processes
  Embedded,        \* the processes that do not start through main()
  Thread,          \* threads that validate envelopes
  Home,            \* Home[t]: the process thread t runs in
  Offset,          \* Offset[i]: how far i's clock runs ahead of the store's
  Drift,           \* bound on Offset
  Envelope,        \* records [sender, mid, nonce, ts]
  MessageTTL,      \* MESSAGE_TTL_SECONDS
  MaxClockSkew,    \* MAX_CLOCK_SKEW_SECONDS
  Retention,       \* REPLAY_RETENTION_SECONDS
  Stall,           \* longest time from a TTL check to the claim it leads to
  CacheCap,        \* entries an in-memory cache may hold (200000)
  Backend,         \* REPLAY_BACKEND
  NonLocal,        \* NON_LOCAL_MODE
  AllowBootstrap,  \* ALLOW_REPLAY_DB_BOOTSTRAP
  MaxNow           \* bound on the clock

Window == MessageTTL + MaxClockSkew + Stall + Drift

(* sqlite deletes rows OLDER than the retention, Redis drops a key as soon *)
(* as it is that old: Redis covers one second less.                        *)
Reach ==
  IF Backend = "sqlite_local" THEN Retention - Window ELSE Retention - Window - 1

ASSUME ClockAssumption ==
  /\ {MessageTTL, MaxClockSkew, Stall, Drift, CacheCap, MaxNow} \subseteq Nat
  /\ Retention \in Int
  /\ Offset \in [Instance -> 0 .. Drift]

ASSUME ShapeAssumption ==
  /\ Home \in [Thread -> Instance]
  /\ Embedded \subseteq Instance
  /\ Backend \in {"sqlite_local", "redis_shared"}
  /\ NonLocal \in BOOLEAN
  /\ AllowBootstrap \in BOOLEAN

ASSUME EnvelopeAssumption ==
  /\ Envelope # {}
  /\ \A e \in Envelope :
       e = [sender |-> e.sender, mid |-> e.mid, nonce |-> e.nonce, ts |-> e.ts] /\ e.ts \in Int

(* The store remembers a claim longer than its envelope can stay fresh.    *)
(* The shipped defaults give 86400 against 300 + 30 + Stall + Drift.       *)
ASSUME RetentionAssumption == Reach >= 0

VARIABLES
  now,             \* the store's clock
  db,              \* the sqlite file: "missing", "empty" (no table), "ready"
  marker,          \* the .initialized marker file beside it
  store,           \* claimed key -> time stamp of the claim
  phase,           \* of each process: "down", "probed", "created", "up"
  sawMarker,       \* what _init_replay_db read of the marker
  seen,            \* SEEN_MESSAGE_IDS and SEEN_NONCES of each process
  pc, env,         \* of each thread: where it is, the envelope it validates
  began,           \* store time of its TTL check
  epoch,           \* now_epoch, read on its process's clock
  tries,           \* failed sqlite attempts
  claimed,         \* history: envelopes the store granted
  refused,         \* history: envelopes refused as replays
  accepted,        \* history: how often each envelope was accepted
  rebuilt          \* history: the table was re-created after claims were granted

fileVars == <<db, marker, store>>
procVars == <<phase, sawMarker>>
threadVars == <<pc, env, began, epoch, tries>>
historyVars == <<claimed, refused, accepted, rebuilt>>
vars == <<now, fileVars, procVars, seen, threadVars, historyVars>>

Contract == INSTANCE ReplayContract

(* Mutant of Key: the cache key without its sender scope.                  *)
UnscopedKey(e) == <<"MessageID", "any sender", e.mid>>

Key(e) == <<"MessageID", e.sender, e.mid>>
NonceKey(e) == <<"Nonce", e.sender, e.nonce>>
KeysOf(e) == {Key(e), NonceKey(e)}
AllKeys == UNION {KeysOf(e) : e \in Envelope}

Sqlite == Backend = "sqlite_local"
KeyTTL == IF Retention > 1 THEN Retention ELSE 1
LocalNow(i) == now + Offset[i]

(* What an idle thread's env holds: any envelope, it is not looked at.      *)
NoEnvelope == CHOOSE e \in Envelope : TRUE

Init ==
  /\ now = 0
  /\ db = "missing"
  /\ marker = FALSE
  /\ store = [k \in {} |-> 0]
  /\ phase = [i \in Instance |-> "down"]
  /\ sawMarker = [i \in Instance |-> FALSE]
  /\ seen = [i \in Instance |-> {}]
  /\ pc = [t \in Thread |-> "idle"]
  /\ env = [t \in Thread |-> NoEnvelope]
  /\ began = [t \in Thread |-> 0]
  /\ epoch = [t \in Thread |-> 0]
  /\ tries = [t \in Thread |-> 0]
  /\ claimed = {}
  /\ refused = {}
  /\ accepted = [e \in Envelope |-> 0]
  /\ rebuilt = FALSE
-------------------------------------------------------------------------------
(* Start-up: _init_replay_backend.                                         *)

(* Mutant of MayCreate: the marker is not asked.                           *)
CreateAnyway(saw) == saw \in BOOLEAN

(* May a table be created, given what was read of the marker?              *)
MayCreate(saw) == saw => AllowBootstrap

(* Creating the table makes the store forget what it granted, if it was    *)
(* not there any more.                                                     *)
Rebuilds == rebuilt \/ (db # "ready" /\ claimed # {})

(* sqlite3.connect creates the file it does not find.                      *)
Connected == IF db = "missing" THEN "empty" ELSE db

(* os.path.exists on file and marker; the RuntimeError keeps i down.       *)
Probe(i) ==
  /\ Sqlite /\ i \notin Embedded
  /\ phase[i] = "down"
  /\ db = "missing" => MayCreate(marker)
  /\ phase' = [phase EXCEPT ![i] = "probed"]
  /\ sawMarker' = [sawMarker EXCEPT ![i] = marker]
  /\ UNCHANGED <<now, fileVars, seen, threadVars, historyVars>>

(* The committed transaction that creates the table.                       *)
Create(i) ==
  /\ phase[i] = "probed"
  /\ db # "ready" => MayCreate(sawMarker[i])
  /\ phase' = [phase EXCEPT ![i] = "created"]
  /\ db' = "ready"
  /\ rebuilt' = Rebuilds
  /\ sawMarker' = [sawMarker EXCEPT ![i] = FALSE]
  /\ UNCHANGED <<now, marker, store, seen, threadVars, claimed, refused, accepted>>

(* The marker says there was a table, there is none: start-up fails.       *)
CreateRefused(i) ==
  /\ phase[i] = "probed"
  /\ db # "ready" /\ ~MayCreate(sawMarker[i])
  /\ phase' = [phase EXCEPT ![i] = "down"]
  /\ db' = Connected
  /\ sawMarker' = [sawMarker EXCEPT ![i] = FALSE]
  /\ UNCHANGED <<now, marker, store, seen, threadVars, historyVars>>

(* The marker is written last, and the process starts to serve.            *)
Mark(i) ==
  /\ phase[i] = "created"
  /\ phase' = [phase EXCEPT ![i] = "up"]
  /\ marker' = TRUE
  /\ UNCHANGED <<now, db, store, sawMarker, seen, threadVars, historyVars>>

(* redis_shared: connect and ping.                                         *)
Connect(i) ==
  /\ ~Sqlite /\ i \notin Embedded
  /\ phase[i] = "down"
  /\ phase' = [phase EXCEPT ![i] = "up"]
  /\ UNCHANGED <<now, fileVars, sawMarker, seen, threadVars, historyVars>>

(* A host that imports the runtime validates without any preparation.      *)
Serve(i) ==
  /\ i \in Embedded
  /\ phase[i] = "down"
  /\ phase' = [phase EXCEPT ![i] = "up"]
  /\ UNCHANGED <<now, fileVars, sawMarker, seen, threadVars, historyVars>>
-------------------------------------------------------------------------------
(* One validation by thread t.                                             *)

Move(t, to) ==
  /\ pc' = [pc EXCEPT ![t] = to]
  /\ UNCHANGED <<env, began>>

(* The call returns or raises; its locals are gone.                        *)
Leave(t) ==
  /\ pc' = [pc EXCEPT ![t] = "idle"]
  /\ env' = [env EXCEPT ![t] = NoEnvelope]
  /\ began' = [began EXCEPT ![t] = 0]
  /\ epoch' = [epoch EXCEPT ![t] = 0]
  /\ tries' = [tries EXCEPT ![t] = 0]

(* _enforce_message_ttl lets e pass. A stale or future envelope changes    *)
(* nothing.                                                                *)
Receive(t, e) ==
  LET age == LocalNow(Home[t]) - e.ts IN
  /\ pc[t] = "idle"
  /\ phase[Home[t]] = "up"
  /\ -MaxClockSkew <= age /\ age <= MessageTTL
  /\ pc' = [pc EXCEPT ![t] = "fresh"]
  /\ env' = [env EXCEPT ![t] = e]
  /\ began' = [began EXCEPT ![t] = now]
  /\ UNCHANGED <<now, fileVars, procVars, seen, epoch, tries, historyVars>>

(* now_epoch is read, neither cache knows the pair: on to the store.       *)
LookupMiss(t) ==
  /\ pc[t] = "fresh"
  /\ KeysOf(env[t]) \cap seen[Home[t]] = {}
  /\ Move(t, "claiming")
  /\ epoch' = [epoch EXCEPT ![t] = LocalNow(Home[t])]
  /\ UNCHANGED <<now, fileVars, procVars, seen, tries, historyVars>>

(* Replay detected in memory.                                              *)
LookupHit(t) ==
  /\ pc[t] = "fresh"
  /\ KeysOf(env[t]) \cap seen[Home[t]] # {}
  /\ Leave(t)
  /\ refused' = refused \cup {env[t]}
  /\ UNCHANGED <<now, fileVars, procVars, seen, claimed, accepted, rebuilt>>

(* Mutant of Free: the row of the Nonce is inserted OR IGNOREd.            *)
IdFree(e) == Key(e) \notin DOMAIN store

(* Neither key of the pair is held by the store.                           *)
Free(e) == KeysOf(e) \cap DOMAIN store = {}

(* The store with the pair added, stamped s.                               *)
With(e, s) ==
  [k \in DOMAIN store \cup KeysOf(e) |-> IF k \in KeysOf(e) THEN s ELSE store[k]]

(* Mutant of Stale: the cutoff computed from the message TTL.              *)
StaleAfterTTL(s, at) == s < at - MessageTTL

(* _cleanup_replay_db, run in the transaction of every granted claim: the  *)
(* rows it deletes have seen_at < cutoff.                                  *)
Stale(s, at) == at - Retention > 0 /\ s < at - Retention

Purged(f, at) == [k \in {x \in DOMAIN f : ~Stale(f[x], at)} |-> f[k]]

(* sqlite: both INSERTs succeed, old rows go, commit.                      *)
SqliteClaim(t) ==
  /\ Sqlite
  /\ pc[t] = "claiming"
  /\ db = "ready"
  /\ Free(env[t])
  /\ Move(t, "won")
  /\ store' = Purged(With(env[t], epoch[t]), epoch[t])
  /\ claimed' = claimed \cup {env[t]}
  /\ UNCHANGED <<now, db, marker, procVars, seen, epoch, tries,
                 refused, accepted, rebuilt>>

(* Mutant of SqliteRefuse: no rollback of the first INSERT.                *)
RefuseWithoutRollback(t) ==
  /\ Sqlite
  /\ pc[t] = "claiming"
  /\ db = "ready"
  /\ ~Free(env[t])
  /\ Leave(t)
  /\ store' = [k \in DOMAIN store \cup {Key(env[t])} |->
                IF k \in DOMAIN store THEN store[k] ELSE epoch[t]]
  /\ refused' = refused \cup {env[t]}
  /\ UNCHANGED <<now, db, marker, procVars, seen, claimed, accepted, rebuilt>>

(* sqlite: IntegrityError on either row, the transaction is rolled back.   *)
SqliteRefuse(t) ==
  /\ Sqlite
  /\ pc[t] = "claiming"
  /\ db = "ready"
  /\ ~Free(env[t])
  /\ Leave(t)
  /\ refused' = refused \cup {env[t]}
  /\ UNCHANGED <<now, fileVars, procVars, seen, claimed, accepted, rebuilt>>

(* Mutants of RetryOrRaise: one attempt too many; and an attempt counter   *)
(* that is reset instead of giving up.                                     *)
RetryTwice(t) ==
  \/ /\ tries[t] <= 1
     /\ tries' = [tries EXCEPT ![t] = @ + 1]
     /\ Move(t, "claiming")
     /\ UNCHANGED epoch
  \/ /\ tries[t] > 1
     /\ Leave(t)

RetryForever(t) ==
  /\ tries' = [tries EXCEPT ![t] = 1 - @]
  /\ Move(t, "claiming")
  /\ UNCHANGED epoch

(* After a failed attempt: try once more, or raise.                        *)
RetryOrRaise(t) ==
  \/ /\ tries[t] = 0
     /\ tries' = [tries EXCEPT ![t] = 1]
     /\ Move(t, "claiming")
     /\ UNCHANGED epoch
  \/ /\ tries[t] # 0
     /\ Leave(t)

(* sqlite: "database is locked" for longer than the 5 s timeout.           *)
SqliteBusy(t) ==
  /\ Sqlite
  /\ pc[t] = "claiming"
  /\ RetryOrRaise(t)
  /\ UNCHANGED <<now, fileVars, procVars, seen, historyVars>>

(* sqlite: "no such table". A local runtime calls _init_replay_db, which   *)
(* finds the file connect has just created; a non-local one raises. With   *)
(* the table made, the marker is written, or writing it raises.            *)
SqliteNoTable(t) ==
  /\ Sqlite
  /\ pc[t] = "claiming"
  /\ db # "ready"
  /\ IF NonLocal \/ ~MayCreate(marker)
     THEN /\ db' = Connected
          /\ Leave(t)
          /\ UNCHANGED <<marker, rebuilt>>
     ELSE /\ db' = "ready"
          /\ rebuilt' = Rebuilds
          /\ \/ marker' = TRUE /\ RetryOrRaise(t)
             \/ ~marker /\ UNCHANGED marker /\ Leave(t)
  /\ UNCHANGED <<now, store, procVars, seen, claimed, refused, accepted>>

(* Mutant of RedisClaim: granted unless BOTH keys exist.                   *)
ClaimUnlessBothExist(t) ==
  /\ ~Sqlite
  /\ pc[t] = "claiming"
  /\ ~(KeysOf(env[t]) \subseteq DOMAIN store)
  /\ store' = With(env[t], now)
  /\ claimed' = claimed \cup {env[t]}
  /\ Move(t, "won")
  /\ UNCHANGED <<now, db, marker, procVars, seen, epoch, tries, refused, accepted, rebuilt>>

(* Redis: the claim script found neither key and set both. Its reply       *)
(* reaches the caller, or is lost and the caller raises.                   *)
RedisClaim(t) ==
  /\ ~Sqlite
  /\ pc[t] = "claiming"
  /\ Free(env[t])
  /\ store' = With(env[t], now)
  /\ claimed' = claimed \cup {env[t]}
  /\ \/ Move(t, "won") /\ UNCHANGED <<epoch, tries>>
     \/ Leave(t)
  /\ UNCHANGED <<now, db, marker, procVars, seen, refused, accepted, rebuilt>>

(* Redis: the claim script found a key and answered 0.                     *)
RedisRefuse(t) ==
  /\ ~Sqlite
  /\ pc[t] = "claiming"
  /\ ~Free(env[t])
  /\ Leave(t)
  /\ refused' = refused \cup {env[t]}
  /\ UNCHANGED <<now, fileVars, procVars, seen, claimed, accepted, rebuilt>>

(* Redis: the script did not run, or the reply "0" was lost.               *)
RedisFail(t) ==
  /\ ~Sqlite
  /\ pc[t] = "claiming"
  /\ Leave(t)
  /\ UNCHANGED <<now, fileVars, procVars, seen, historyVars>>

(* A cache over its cap loses an arbitrary element (set.pop).              *)
Trimmed(S) ==
  IF Cardinality(S) > CacheCap THEN {S \ {k} : k \in S} ELSE {S}

OfKind(S, kind) == {k \in S : k[1] = kind}

(* The pair enters the caches and the envelope is accepted.                *)
Finish(t) ==
  LET i == Home[t]
      e == env[t]
  IN
  /\ pc[t] = "won"
  /\ Leave(t)
  /\ \E ids \in Trimmed(OfKind(seen[i], "MessageID") \cup {Key(e)}),
        nonces \in Trimmed(OfKind(seen[i], "Nonce") \cup {NonceKey(e)}) :
       seen' = [seen EXCEPT ![i] = ids \cup nonces]
  /\ accepted' = [accepted EXCEPT ![e] = Contract!Bump(@)]
  /\ UNCHANGED <<now, fileVars, procVars, claimed, refused, rebuilt>>

ThreadStep(t) ==
  \/ LookupMiss(t) \/ LookupHit(t)
  \/ SqliteClaim(t) \/ SqliteRefuse(t) \/ SqliteBusy(t) \/ SqliteNoTable(t)
  \/ RedisClaim(t) \/ RedisRefuse(t) \/ RedisFail(t)
  \/ Finish(t)
-------------------------------------------------------------------------------
(* The environment.                                                        *)

(* Time passes; Redis drops the keys that reach their TTL. A validation    *)
(* between its TTL check and its claim does not outlast Stall.             *)
Tick ==
  /\ now < MaxNow
  /\ \A t \in Thread : pc[t] \in {"fresh", "claiming"} => now < began[t] + Stall
  /\ now' = now + 1
  /\ store' = IF Sqlite
              THEN store
              ELSE [k \in {x \in DOMAIN store : now + 1 < store[x] + KeyTTL} |-> store[k]]
  /\ UNCHANGED <<db, marker, procVars, seen, threadVars, historyVars>>

(* A process dies, and with it its threads and its memory.                 *)
Crash(i) ==
  /\ phase[i] # "down"
  /\ phase' = [phase EXCEPT ![i] = "down"]
  /\ sawMarker' = [sawMarker EXCEPT ![i] = FALSE]
  /\ seen' = [seen EXCEPT ![i] = {}]
  /\ pc' = [t \in Thread |-> IF Home[t] = i THEN "idle" ELSE pc[t]]
  /\ env' = [t \in Thread |-> IF Home[t] = i THEN NoEnvelope ELSE env[t]]
  /\ began' = [t \in Thread |-> IF Home[t] = i THEN 0 ELSE began[t]]
  /\ epoch' = [t \in Thread |-> IF Home[t] = i THEN 0 ELSE epoch[t]]
  /\ tries' = [t \in Thread |-> IF Home[t] = i THEN 0 ELSE tries[t]]
  /\ UNCHANGED <<now, fileVars, historyVars>>

(* The sqlite file is deleted; its marker stays. Assumed not to happen     *)
(* while a process is inside _init_replay_db.                              *)
LoseDb ==
  /\ Sqlite
  /\ db # "missing"
  /\ \A i \in Instance : phase[i] \notin {"probed", "created"}
  /\ db' = "missing"
  /\ store' = [k \in {} |-> 0]
  /\ UNCHANGED <<now, marker, procVars, seen, threadVars, historyVars>>

Next ==
  \/ \E i \in Instance :
       \/ Probe(i) \/ Create(i) \/ CreateRefused(i) \/ Mark(i)
       \/ Connect(i) \/ Serve(i) \/ Crash(i)
  \/ \E t \in Thread : ThreadStep(t) \/ \E e \in Envelope : Receive(t, e)
  \/ Tick
  \/ LoseDb

Spec == Init /\ [][Next]_vars /\ \A t \in Thread : WF_vars(ThreadStep(t))
-------------------------------------------------------------------------------
TypeOK ==
  /\ now \in Nat
  /\ db \in {"missing", "empty", "ready"}
  /\ marker \in BOOLEAN
  /\ DOMAIN store \subseteq AllKeys
  /\ store \in [DOMAIN store -> Int]
  /\ phase \in [Instance -> {"down", "probed", "created", "up"}]
  /\ sawMarker \in [Instance -> BOOLEAN]
  /\ seen \in [Instance -> SUBSET AllKeys]
  /\ pc \in [Thread -> {"idle", "fresh", "claiming", "won"}]
  /\ env \in [Thread -> Envelope]
  /\ began \in [Thread -> Nat]
  /\ epoch \in [Thread -> Int]
  /\ tries \in [Thread -> {0, 1}]
  /\ claimed \subseteq Envelope
  /\ refused \subseteq Envelope
  /\ accepted \in [Envelope -> 0 .. 2]
  /\ rebuilt \in BOOLEAN

(* No envelope is accepted twice, by any two threads of any two processes, *)
(* through restarts, cache eviction, retention and loss of the sqlite file *)
(* (as long as a lost table is not created anew).                          *)
AcceptedOnce == rebuilt \/ \A e \in Envelope : accepted[e] <= 1

(* Reusing a MessageID or a Nonce succeeds only after the store forgot the *)
(* first use, which is after every copy of the first envelope went stale.  *)
ReuseSpaced ==
  rebuilt \/ \A e, f \in Envelope :
    /\ accepted[e] > 0 /\ accepted[f] > 0
    /\ e # f /\ Contract!Collide(e, f)
    => Contract!Apart(e, f)

(* Where every process starts through main(), a table that has granted     *)
(* claims is created anew only if FAXP_ALLOW_REPLAY_DB_BOOTSTRAP says so:  *)
(* whatever crashes and restarts, losing the file stops the service rather *)
(* than its memory.                                                        *)
RebuildNeedsConsent == Embedded = {} /\ rebuilt => AllowBootstrap

(* An envelope is refused as a replay only if the store granted, to it or  *)
(* to another envelope, the same sender's MessageID or Nonce: one sender's *)
(* identifiers never block another's.                                      *)
RefusalHonest ==
  \A e \in refused : \E c \in claimed : Contract!Collide(e, c)

(* Claims are all or nothing: a key in the store has its partner beside it *)
(* with the same stamp, so no refused or failed envelope leaves half a     *)
(* pair behind to block a different envelope.                              *)
ClaimsArePairs ==
  \A k \in DOMAIN store : \E e \in claimed :
    /\ k \in KeysOf(e) /\ KeysOf(e) \subseteq DOMAIN store
    /\ \A x \in KeysOf(e) : store[x] = store[k]

(* Every behaviour is one the contract allows.                             *)
RefinesContract == Contract!Spec

(* Every validation ends, even if the database stays locked forever.       *)
ValidationEnds == \A t \in Thread : (pc[t] # "idle") ~> (pc[t] = "idle")
-------------------------------------------------------------------------------
(* Why AcceptedOnce and ReuseSpaced hold: the parts of an inductive        *)
(* invariant.                                                              *)

(* The sqlite file lost its rows.                                          *)
Lost == Sqlite /\ db # "ready"

(* The oldest stamp a claim of e can carry.                                *)
Horizon(e) == IF Sqlite THEN e.ts - MaxClockSkew ELSE e.ts - MaxClockSkew - Drift

(* Any claim of e may have been forgotten by now.                          *)
Forgettable(e) ==
  IF Sqlite THEN now + Drift - Retention > Horizon(e) ELSE now >= Horizon(e) + Retention

(* The store knows the keys of every claim it may not yet forget.          *)
ClaimsCovered ==
  \A e \in claimed : \/ Lost
                     \/ Forgettable(e)
                     \/ \A k \in KeysOf(e) : k \in DOMAIN store /\ store[k] >= Horizon(e)

(* A validation on its way to a claim passed the TTL check not long ago.   *)
InFlightFresh ==
  \A t \in Thread : pc[t] \in {"fresh", "claiming"} =>
    LET off == Offset[Home[t]]
        age == began[t] + off - env[t].ts
    IN  /\ -MaxClockSkew <= age /\ age <= MessageTTL
        /\ began[t] <= now /\ now <= began[t] + Stall
        /\ pc[t] = "claiming" => began[t] + off <= epoch[t] /\ epoch[t] <= now + off

(* Granted claims that share a key lie apart.                              *)
ClaimsApart ==
  \A e, f \in claimed : e # f /\ Contract!Collide(e, f) => Contract!Apart(e, f)

(* A granted claim is held by one thread, which has yet to accept it, or   *)
(* was accepted by one, or is lost.                                        *)
OneWinner ==
  /\ \A t \in Thread : pc[t] = "won" => env[t] \in claimed /\ accepted[env[t]] = 0
  /\ \A t, u \in Thread : pc[t] = "won" /\ pc[u] = "won" /\ env[t] = env[u] => t = u
  /\ \A e \in Envelope : accepted[e] > 0 => e \in claimed
  /\ \A e \in Envelope : accepted[e] <= 1

IInv ==
  /\ TypeOK
  /\ InFlightFresh
  /\ rebuilt \/ (ClaimsCovered /\ ClaimsApart /\ OneWinner)

(* Why RebuildNeedsConsent holds: no process that went through main()      *)
(* serves before the marker exists, and none that could create a lost      *)
(* table missed the marker.                                                *)
ConsentInv ==
  /\ TypeOK
  /\ \A i \in Instance :
       /\ phase[i] \in {"probed", "created"} => Sqlite
       /\ phase[i] = "created" => db = "ready"
       /\ phase[i] = "probed" /\ marker /\ db # "ready" => sawMarker[i]
  /\ \A t \in Thread : pc[t] # "idle" => phase[Home[t]] = "up"
  /\ Embedded = {} /\ Sqlite =>
       /\ \A i \in Instance : phase[i] = "up" => marker
       /\ claimed # {} => marker
  /\ RebuildNeedsConsent

(* Why RefusalHonest and ClaimsArePairs hold: caches name granted claims.  *)
HonestInv ==
  /\ TypeOK
  /\ \A i \in Instance : \A k \in seen[i] : \E c \in claimed : k \in KeysOf(c)
  /\ \A t \in Thread : pc[t] = "won" => env[t] \in claimed
  /\ RefusalHonest
  /\ ClaimsArePairs
===============================================================================
