-------------------------- MODULE ReplayGuardProofs ---------------------------
(* Proofs about ReplayGuard, for every value of its constants.              *)
EXTENDS ReplayGuard, TLAPS

(* The envelope an idle thread names is an envelope.                        *)
LEMMA NoEnvelopeType == NoEnvelope \in Envelope
  BY EnvelopeAssumption DEF NoEnvelope

(* The numeric constants are numbers, and a process's clock reads one.      *)
LEMMA NumberTypes ==
  /\ MessageTTL \in Nat /\ MaxClockSkew \in Nat /\ Stall \in Nat /\ Drift \in Nat
  /\ Retention \in Int /\ KeyTTL \in Int /\ KeyTTL >= Retention
  /\ Reach \in Int /\ Reach >= 0
  /\ \A i \in Instance : Offset[i] \in Int /\ 0 <= Offset[i] /\ Offset[i] <= Drift
  /\ \A e \in Envelope : e.ts \in Int
<1>1. /\ MessageTTL \in Nat /\ MaxClockSkew \in Nat /\ Stall \in Nat /\ Drift \in Nat
      /\ Retention \in Int
  BY ClockAssumption
<1>2. \A i \in Instance : Offset[i] \in 0 .. Drift
  BY ClockAssumption
<1>3. \A i \in Instance : Offset[i] \in Int /\ 0 <= Offset[i] /\ Offset[i] <= Drift
  BY <1>1, <1>2
<1>4. KeyTTL \in Int /\ KeyTTL >= Retention
  BY <1>1 DEF KeyTTL
<1>5. Reach \in Int /\ Reach >= 0
  BY <1>1, RetentionAssumption DEF Reach, Window
<1>6. \A e \in Envelope : e.ts \in Int
  BY EnvelopeAssumption
<1>7. QED
  BY <1>1, <1>3, <1>4, <1>5, <1>6

(* An envelope's keys are among all keys.                                   *)
LEMMA KeysOfType == \A e \in Envelope : KeysOf(e) \subseteq AllKeys
  BY DEF AllKeys

(* Two envelopes share a key exactly when they collide.                     *)
LEMMA SharedKey ==
  ASSUME NEW e \in Envelope, NEW f \in Envelope
  PROVE  KeysOf(e) \cap KeysOf(f) # {} <=> Contract!Collide(e, f)
<1>1. Key(e) # NonceKey(f) /\ NonceKey(e) # Key(f)
  BY DEF Key, NonceKey
<1>2. Key(e) = Key(f) <=> e.sender = f.sender /\ e.mid = f.mid
  BY DEF Key
<1>3. NonceKey(e) = NonceKey(f) <=> e.sender = f.sender /\ e.nonce = f.nonce
  BY DEF NonceKey
<1>4. QED
  BY <1>1, <1>2, <1>3 DEF KeysOf, Contract!Collide
-------------------------------------------------------------------------------
(* The initial state is well typed.                                         *)
LEMMA TypeInit == Init => TypeOK
<1>. USE DEF TypeOK, fileVars, procVars, threadVars, historyVars
<1>1. Init => TypeOK
  <2> SUFFICES ASSUME Init
               PROVE  TypeOK
    OBVIOUS
  <2>1. DOMAIN store = {} /\ store \in [{} -> Int]
    BY DEF Init
  <2>2. /\ claimed \subseteq Envelope /\ refused \subseteq Envelope
        /\ accepted \in [Envelope -> 0 .. 2]
        /\ seen \in [Instance -> SUBSET AllKeys]
        /\ sawMarker \in [Instance -> BOOLEAN]
        /\ phase \in [Instance -> {"down", "probed", "created", "up"}]
    BY DEF Init
  <2>3. /\ pc \in [Thread -> {"idle", "fresh", "claiming", "won"}]
        /\ env \in [Thread -> Envelope]
        /\ began \in [Thread -> Nat]
        /\ epoch \in [Thread -> Int]
        /\ tries \in [Thread -> {0, 1}]
    BY NoEnvelopeType DEF Init
  <2>4. now \in Nat /\ db = "missing" /\ marker = FALSE /\ rebuilt = FALSE
    BY DEF Init
  <2>5. QED
    BY <2>1, <2>2, <2>3, <2>4
<1>2. QED
  BY <1>1

(* Every step of every process and thread keeps the state well typed.       *)
LEMMA TypeStep == TypeOK /\ [Next]_vars => TypeOK'
<1>. USE DEF TypeOK, fileVars, procVars, threadVars, historyVars
<1>1. TypeOK /\ [Next]_vars => TypeOK'
  <2> SUFFICES ASSUME TypeOK, [Next]_vars
               PROVE  TypeOK'
    OBVIOUS
  <2>1. ASSUME NEW i \in Instance, Probe(i)
        PROVE  TypeOK'
    BY <2>1 DEF Probe
  <2>2. ASSUME NEW i \in Instance, Create(i)
        PROVE  TypeOK'
    <3>1. rebuilt' \in BOOLEAN
      BY <2>2, Zenon DEF Create, Rebuilds
    <3>2. QED
      BY <2>2, <3>1 DEF Create
  <2>3. ASSUME NEW i \in Instance, CreateRefused(i)
        PROVE  TypeOK'
    BY <2>3 DEF CreateRefused, Connected
  <2>4. ASSUME NEW i \in Instance, Mark(i)
        PROVE  TypeOK'
    BY <2>4 DEF Mark
  <2>5. ASSUME NEW i \in Instance, Connect(i) \/ Serve(i)
        PROVE  TypeOK'
    BY <2>5 DEF Connect, Serve
  <2>6. ASSUME NEW i \in Instance, Crash(i)
        PROVE  TypeOK'
    BY <2>6, NoEnvelopeType DEF Crash
  <2>7. ASSUME NEW t \in Thread, NEW e \in Envelope, Receive(t, e)
        PROVE  TypeOK'
    BY <2>7 DEF Receive
  <2>8. ASSUME NEW t \in Thread, LookupMiss(t)
        PROVE  TypeOK'
    <3>1. LocalNow(Home[t]) \in Int
      BY ShapeAssumption, NumberTypes DEF LocalNow
    <3>2. QED
      BY <2>8, <3>1 DEF LookupMiss, Move
  <2>9. ASSUME NEW t \in Thread, LookupHit(t)
        PROVE  TypeOK'
    BY <2>9, NoEnvelopeType DEF LookupHit, Leave
  <2>10. ASSUME NEW t \in Thread, SqliteClaim(t)
         PROVE  TypeOK'
    <3>1. DOMAIN store' \subseteq AllKeys /\ store' \in [DOMAIN store' -> Int]
      BY <2>10, KeysOfType DEF SqliteClaim, Purged, With
    <3>2. QED
      BY <2>10, <3>1 DEF SqliteClaim, Move
  <2>11. ASSUME NEW t \in Thread, SqliteRefuse(t)
         PROVE  TypeOK'
    BY <2>11, NoEnvelopeType DEF SqliteRefuse, Leave
  <2>12. ASSUME NEW t \in Thread, SqliteBusy(t)
         PROVE  TypeOK'
    BY <2>12, NoEnvelopeType DEF SqliteBusy, RetryOrRaise, Move, Leave
  <2>13. ASSUME NEW t \in Thread, SqliteNoTable(t)
         PROVE  TypeOK'
    <3>1. CASE NonLocal \/ ~MayCreate(marker)
      BY <2>13, <3>1, NoEnvelopeType DEF SqliteNoTable, Leave, Connected
    <3>2. CASE ~(NonLocal \/ ~MayCreate(marker))
      <4>1. rebuilt' \in BOOLEAN /\ marker' \in BOOLEAN /\ db' = "ready"
        BY <2>13, <3>2, Zenon DEF SqliteNoTable, Rebuilds
      <4>2. /\ RetryOrRaise(t) \/ Leave(t)
            /\ UNCHANGED <<now, store, phase, sawMarker, seen, claimed, refused, accepted>>
        BY <2>13, <3>2 DEF SqliteNoTable
      <4>3. /\ pc' \in [Thread -> {"idle", "fresh", "claiming", "won"}]
            /\ env' \in [Thread -> Envelope]
            /\ began' \in [Thread -> Nat]
            /\ epoch' \in [Thread -> Int]
            /\ tries' \in [Thread -> {0, 1}]
        BY <4>2, NoEnvelopeType DEF RetryOrRaise, Move, Leave
      <4>4. QED
        BY <4>1, <4>2, <4>3
    <3>3. QED
      BY <3>1, <3>2
  <2>14. ASSUME NEW t \in Thread, RedisClaim(t)
         PROVE  TypeOK'
    <3>1. DOMAIN store' \subseteq AllKeys /\ store' \in [DOMAIN store' -> Int]
      BY <2>14, KeysOfType DEF RedisClaim, With
    <3>2. QED
      BY <2>14, <3>1, NoEnvelopeType DEF RedisClaim, Move, Leave
  <2>15. ASSUME NEW t \in Thread, RedisRefuse(t)
         PROVE  TypeOK'
    BY <2>15, NoEnvelopeType DEF RedisRefuse, Leave
  <2>16. ASSUME NEW t \in Thread, RedisFail(t)
         PROVE  TypeOK'
    BY <2>16, NoEnvelopeType DEF RedisFail, Leave
  <2>17. ASSUME NEW t \in Thread, Finish(t)
         PROVE  TypeOK'
    <3>1. seen' \in [Instance -> SUBSET AllKeys]
      <4>1. \A S : \A T \in Trimmed(S) : T \subseteq S
        BY DEF Trimmed
      <4>2. seen[Home[t]] \subseteq AllKeys /\ KeysOf(env[t]) \subseteq AllKeys
        BY ShapeAssumption, KeysOfType
      <4>3. PICK ids \in Trimmed(OfKind(seen[Home[t]], "MessageID") \cup {Key(env[t])}),
                 nonces \in Trimmed(OfKind(seen[Home[t]], "Nonce") \cup {NonceKey(env[t])}) :
              seen' = [seen EXCEPT ![Home[t]] = ids \cup nonces]
        BY <2>17 DEF Finish
      <4>4. ids \cup nonces \subseteq AllKeys
        BY <4>1, <4>2, <4>3 DEF OfKind, KeysOf
      <4>5. QED
        BY <4>3, <4>4
    <3>2. accepted' \in [Envelope -> 0 .. 2]
      BY <2>17 DEF Finish, Contract!Bump
    <3>3. QED
      BY <2>17, <3>1, <3>2, NoEnvelopeType DEF Finish, Leave
  <2>18. CASE Tick
    <3>1. DOMAIN store' \subseteq AllKeys /\ store' \in [DOMAIN store' -> Int]
      BY <2>18 DEF Tick
    <3>2. QED
      BY <2>18, <3>1 DEF Tick
  <2>19. CASE LoseDb
    BY <2>19 DEF LoseDb
  <2>20. CASE UNCHANGED vars
    BY <2>20 DEF vars
  <2>21. QED
    BY <2>1, <2>2, <2>3, <2>4, <2>5, <2>6, <2>7, <2>8, <2>9, <2>10, <2>11, <2>12,
       <2>13, <2>14, <2>15, <2>16, <2>17, <2>18, <2>19, <2>20 DEF Next, ThreadStep
<1>2. QED
  BY <1>1

(* Every state is well typed: the shapes validate_envelope's bookkeeping,   *)
(* the store and the start-up of a process can have.                        *)
THEOREM TypeCorrect == Spec => []TypeOK
  BY TypeInit, TypeStep, PTL DEF Spec
-------------------------------------------------------------------------------
(* The clock's part of the invariant: what a thread in flight knows of its  *)
(* envelope's age survives every step, because Tick waits for it.           *)
LEMMA FreshStep == IInv /\ [Next]_vars => InFlightFresh'
<1> SUFFICES ASSUME IInv, [Next]_vars
             PROVE  InFlightFresh'
  OBVIOUS
<1>. USE ShapeAssumption, NumberTypes DEF fileVars, procVars, threadVars, historyVars
<1>0. TypeOK /\ InFlightFresh
  BY DEF IInv
<1>1. ASSUME NEW i \in Instance,
             \/ Probe(i) \/ Create(i) \/ CreateRefused(i)
             \/ Mark(i) \/ Connect(i) \/ Serve(i)
      PROVE  InFlightFresh'
  <2>1. UNCHANGED <<now, threadVars>>
    BY <1>1 DEF Probe, Create, CreateRefused, Mark, Connect, Serve
  <2>2. QED
    BY <1>0, <2>1 DEF InFlightFresh
<1>2. ASSUME NEW i \in Instance, Crash(i)
      PROVE  InFlightFresh'
  BY <1>0, <1>2 DEF Crash, InFlightFresh, TypeOK
<1>3. ASSUME NEW t \in Thread, NEW e \in Envelope, Receive(t, e)
      PROVE  InFlightFresh'
  BY <1>0, <1>3 DEF Receive, InFlightFresh, TypeOK, LocalNow
<1>4. ASSUME NEW t \in Thread, LookupMiss(t)
      PROVE  InFlightFresh'
  BY <1>0, <1>4 DEF LookupMiss, Move, InFlightFresh, TypeOK, LocalNow
<1>5. ASSUME NEW t \in Thread, Leave(t), UNCHANGED now
      PROVE  InFlightFresh'
  BY <1>0, <1>5 DEF Leave, InFlightFresh, TypeOK
<1>6. ASSUME NEW t \in Thread, Move(t, "won"), UNCHANGED <<now, epoch>>
      PROVE  InFlightFresh'
  BY <1>0, <1>6 DEF Move, InFlightFresh, TypeOK
<1>7. ASSUME NEW t \in Thread, pc[t] = "claiming", RetryOrRaise(t), UNCHANGED now
      PROVE  InFlightFresh'
  <2>1. CASE Leave(t)
    BY <1>5, <1>7, <2>1
  <2>2. CASE UNCHANGED <<pc, env, began, epoch>>
    BY <1>0, <1>7, <2>2 DEF InFlightFresh
  <2>3. pc \in [Thread -> {"idle", "fresh", "claiming", "won"}]
    BY <1>0 DEF TypeOK
  <2>4. QED
    BY <1>7, <2>1, <2>2, <2>3 DEF RetryOrRaise, Move
<1>8. ASSUME NEW t \in Thread, ThreadStep(t)
      PROVE  InFlightFresh'
  <2>1. UNCHANGED now
    BY <1>8 DEF ThreadStep, LookupMiss, LookupHit, SqliteClaim, SqliteRefuse, SqliteBusy,
                SqliteNoTable, RedisClaim, RedisRefuse, RedisFail, Finish
  <2>2. \/ LookupMiss(t)
        \/ Leave(t)
        \/ Move(t, "won") /\ UNCHANGED epoch
        \/ pc[t] = "claiming" /\ RetryOrRaise(t)
    BY <1>8 DEF ThreadStep, LookupHit, SqliteClaim, SqliteRefuse, SqliteBusy,
                SqliteNoTable, RedisClaim, RedisRefuse, RedisFail, Finish
  <2>3. QED
    BY <1>4, <1>5, <1>6, <1>7, <2>1, <2>2
<1>9. CASE Tick
  BY <1>0, <1>9 DEF Tick, InFlightFresh, TypeOK
<1>10. CASE LoseDb
  BY <1>0, <1>10 DEF LoseDb, InFlightFresh
<1>11. CASE UNCHANGED vars
  BY <1>0, <1>11 DEF vars, InFlightFresh
<1>12. QED
  BY <1>1, <1>2, <1>3, <1>8, <1>9, <1>10, <1>11 DEF Next
-------------------------------------------------------------------------------
(* The heart of the argument. A claim is granted only when the store holds  *)
(* neither key; an earlier granted claim that shares one was then           *)
(* forgotten, and forgetting takes longer than the later envelope could     *)
(* have stayed fresh, unless its timestamp is much later.                   *)
LEMMA GrantIsNew ==
  ASSUME IInv, ~rebuilt, ~Lost,
         NEW t \in Thread, pc[t] = "claiming", Free(env[t]),
         NEW f \in claimed, Contract!Collide(env[t], f)
  PROVE  Forgettable(f) /\ Contract!Apart(env[t], f)
<1>. USE ShapeAssumption, NumberTypes
<1>0. TypeOK /\ InFlightFresh /\ ClaimsCovered
  BY DEF IInv
<1>1. env[t] \in Envelope /\ f \in Envelope /\ now \in Int /\ began[t] \in Int
  BY <1>0 DEF TypeOK
<1>2. KeysOf(env[t]) \cap KeysOf(f) # {}
  BY <1>1, SharedKey
<1>3. Forgettable(f)
  BY <1>0, <1>2 DEF ClaimsCovered, Free
<1>4. env[t].ts \in Int /\ f.ts \in Int
  BY <1>1
<1>5. now <= env[t].ts + MessageTTL + Stall
  <2>1. /\ began[t] + Offset[Home[t]] - env[t].ts <= MessageTTL
        /\ now <= began[t] + Stall
    BY <1>0 DEF InFlightFresh
  <2>2. Offset[Home[t]] \in Int /\ Offset[Home[t]] >= 0
    OBVIOUS
  <2>3. QED
    BY <1>1, <1>4, <2>1, <2>2
<1>6. env[t].ts - f.ts > Reach
  <2>1. CASE Sqlite
    BY <1>1, <1>3, <1>4, <1>5, <2>1 DEF Forgettable, Horizon, Reach, Window, Sqlite
  <2>2. CASE ~Sqlite
    BY <1>1, <1>3, <1>4, <1>5, <2>2 DEF Forgettable, Horizon, Reach, Window, Sqlite
  <2>3. QED
    BY <2>1, <2>2
<1>7. QED
  BY <1>3, <1>6 DEF Contract!Apart

(* So the envelope of a granted claim was never granted before.             *)
LEMMA GrantIsFirst ==
  ASSUME IInv, ~rebuilt, ~Lost,
         NEW t \in Thread, pc[t] = "claiming", Free(env[t])
  PROVE  env[t] \notin claimed
<1> SUFFICES ASSUME env[t] \in claimed
             PROVE  FALSE
  OBVIOUS
<1>1. Contract!Collide(env[t], env[t])
  BY DEF Contract!Collide
<1>2. Contract!Apart(env[t], env[t])
  BY <1>1, GrantIsNew
<1>3. env[t].ts \in Int /\ Reach \in Int /\ Reach >= 0
  BY NumberTypes DEF IInv, TypeOK
<1>4. QED
  BY <1>2, <1>3 DEF Contract!Apart

(* A store that keeps its rows, and time that does not go back, keep every  *)
(* claim covered.                                                           *)
LEMMA QuietCovered ==
  ASSUME IInv, ClaimsCovered, UNCHANGED <<now, store, claimed>>, Lost => Lost'
  PROVE  ClaimsCovered'
  BY DEF ClaimsCovered, Forgettable, Horizon

(* Winners that only leave, with nothing accepted, remain winners.          *)
LEMMA QuietWinner ==
  ASSUME OneWinner, UNCHANGED <<accepted, claimed>>,
         \A t \in Thread : pc'[t] = "won" => pc[t] = "won" /\ env'[t] = env[t]
  PROVE  OneWinner'
  BY DEF OneWinner

(* The claim a thread has just been granted carries a stamp no older than   *)
(* its envelope's horizon: the store was asked after the TTL check.         *)
LEMMA StampFresh ==
  ASSUME TypeOK, InFlightFresh, NEW t \in Thread, pc[t] = "claiming"
  PROVE  /\ Horizon(env[t]) \in Int
         /\ Sqlite => epoch[t] >= Horizon(env[t]) /\ epoch[t] <= now + Drift
         /\ ~Sqlite => now >= Horizon(env[t])
<1>. USE ShapeAssumption, NumberTypes
<1>1. /\ env[t].ts \in Int /\ began[t] \in Int /\ epoch[t] \in Int /\ now \in Int
      /\ Offset[Home[t]] \in Int /\ Offset[Home[t]] >= 0 /\ Offset[Home[t]] <= Drift
  BY DEF TypeOK
<1>2. /\ -MaxClockSkew <= began[t] + Offset[Home[t]] - env[t].ts
      /\ began[t] <= now
      /\ began[t] + Offset[Home[t]] <= epoch[t]
      /\ epoch[t] <= now + Offset[Home[t]]
  BY DEF InFlightFresh
<1>3. QED
  BY <1>1, <1>2 DEF Horizon

(* A granted sqlite claim, with the cleanup its transaction runs, forgets   *)
(* no claim before its time.                                                *)
LEMMA SqliteCovered ==
  ASSUME IInv, ~rebuilt, ClaimsCovered, NEW t \in Thread, SqliteClaim(t)
  PROVE  ClaimsCovered'
<1>. USE NumberTypes
<1>0. TypeOK /\ InFlightFresh
  BY DEF IInv
<1>1. /\ Sqlite /\ pc[t] = "claiming" /\ db = "ready" /\ Free(env[t]) /\ db' = db
      /\ store' = Purged(With(env[t], epoch[t]), epoch[t])
      /\ claimed' = claimed \cup {env[t]} /\ now' = now
  BY DEF SqliteClaim
<1>2. Retention >= 0
  BY ClockAssumption, RetentionAssumption DEF Reach, Window
<1>3. /\ Horizon(env[t]) \in Int
      /\ epoch[t] >= Horizon(env[t]) /\ epoch[t] <= now + Drift
      /\ epoch[t] \in Int /\ now \in Int
  BY <1>0, <1>1, StampFresh DEF TypeOK
<1>4. \A k \in KeysOf(env[t]) : k \in DOMAIN store' /\ store'[k] = epoch[t]
  BY <1>1, <1>2, <1>3 DEF Purged, With, Stale
<1>5. \A k \in DOMAIN store : ~Stale(store[k], epoch[t]) =>
         k \in DOMAIN store' /\ store'[k] = store[k]
  BY <1>1 DEF Purged, With, Free
<1>6. ASSUME NEW f \in claimed
      PROVE  \/ Forgettable(f)
             \/ \A k \in KeysOf(f) : k \in DOMAIN store' /\ store'[k] >= Horizon(f)
  <2>1. CASE Forgettable(f)
    BY <2>1
  <2>2. CASE ~Forgettable(f)
    <3>1. \A k \in KeysOf(f) : k \in DOMAIN store /\ store[k] >= Horizon(f)
      BY <1>1, <2>2 DEF ClaimsCovered, Lost
    <3>2. Horizon(f) \in Int /\ now + Drift - Retention <= Horizon(f)
      BY <1>0, <1>1, <1>3, <2>2 DEF Forgettable, Horizon, TypeOK
    <3>3. \A k \in KeysOf(f) : ~Stale(store[k], epoch[t])
      <4>1. \A k \in KeysOf(f) : store[k] \in Int
        BY <1>0, <3>1 DEF TypeOK
      <4>2. QED
        BY <1>3, <3>1, <3>2, <4>1 DEF Stale
    <3>4. QED
      BY <1>5, <3>1, <3>3
  <2>3. QED
    BY <2>1, <2>2
<1>7. QED
  BY <1>1, <1>3, <1>4, <1>6 DEF ClaimsCovered, Forgettable, Horizon

(* A granted Redis claim keeps every key and adds two.                      *)
LEMMA RedisCovered ==
  ASSUME IInv, ~rebuilt, ClaimsCovered, NEW t \in Thread, RedisClaim(t)
  PROVE  ClaimsCovered'
<1>. USE NumberTypes
<1>0. TypeOK /\ InFlightFresh
  BY DEF IInv
<1>1. /\ ~Sqlite /\ pc[t] = "claiming" /\ Free(env[t])
      /\ store' = With(env[t], now)
      /\ claimed' = claimed \cup {env[t]} /\ now' = now
  BY DEF RedisClaim
<1>2. now >= Horizon(env[t])
  BY <1>0, <1>1, StampFresh
<1>3. \A k \in KeysOf(env[t]) : k \in DOMAIN store' /\ store'[k] = now
  BY <1>1 DEF With
<1>4. \A k \in DOMAIN store : k \in DOMAIN store' /\ store'[k] = store[k]
  BY <1>1 DEF With, Free
<1>5. QED
  BY <1>1, <1>2, <1>3, <1>4 DEF ClaimsCovered, Forgettable, Horizon, Lost

(* Redis drops a key only when every claim that relies on it is forgettable.*)
LEMMA TickCovered ==
  ASSUME IInv, ClaimsCovered, Tick
  PROVE  ClaimsCovered'
<1>. USE NumberTypes
<1>0. TypeOK
  BY DEF IInv
<1>1. now \in Int /\ now' = now + 1 /\ UNCHANGED <<db, claimed>>
  BY <1>0 DEF Tick, TypeOK, historyVars
<1>2. ASSUME NEW f \in claimed
      PROVE  /\ Horizon(f) \in Int /\ Horizon(f)' = Horizon(f)
             /\ Forgettable(f) => Forgettable(f)'
  BY <1>0, <1>1 DEF Horizon, Forgettable, TypeOK
<1>3. CASE Sqlite
  <2>1. store' = store
    BY <1>3 DEF Tick
  <2>2. QED
    BY <1>1, <1>2, <1>3, <2>1 DEF ClaimsCovered, Lost
<1>4. CASE ~Sqlite
  <2>1. ASSUME NEW f \in claimed, ~Forgettable(f)'
        PROVE  \A k \in KeysOf(f) : k \in DOMAIN store' /\ store'[k] >= Horizon(f)
    <3>1. \A k \in KeysOf(f) : k \in DOMAIN store /\ store[k] >= Horizon(f)
      BY <1>2, <1>4, <2>1 DEF ClaimsCovered, Lost
    <3>2. now + 1 < Horizon(f) + Retention
      BY <1>1, <1>2, <1>4, <2>1 DEF Forgettable
    <3>3. \A k \in KeysOf(f) : now + 1 < store[k] + KeyTTL
      <4>1. \A k \in KeysOf(f) : store[k] \in Int
        BY <1>0, <3>1 DEF TypeOK
      <4>2. QED
        BY <1>1, <1>2, <3>1, <3>2, <4>1
    <3>4. store' = [k \in {x \in DOMAIN store : now + 1 < store[x] + KeyTTL} |-> store[k]]
      BY <1>4 DEF Tick
    <3>5. QED
      BY <3>1, <3>3, <3>4
  <2>2. QED
    BY <1>1, <1>2, <2>1 DEF ClaimsCovered
<1>5. QED
  BY <1>3, <1>4
-------------------------------------------------------------------------------
Claims == ClaimsCovered /\ ClaimsApart /\ OneWinner

(* The claims' part of the invariant: unless a lost table was created      *)
(* anew, every granted claim is covered, apart from its rivals, and won    *)
(* by one thread.                                                           *)
LEMMA ClaimsStep == IInv /\ [Next]_vars => rebuilt' \/ Claims'
<1> SUFFICES ASSUME IInv, [Next]_vars, ~rebuilt'
             PROVE  Claims'
  OBVIOUS
<1>. USE DEF fileVars, procVars, threadVars, historyVars
<1>0. ~rebuilt /\ TypeOK /\ Claims
  <2>1. rebuilt => rebuilt'
    BY DEF Next, vars, Rebuilds, Probe, Create, CreateRefused, Mark, Connect, Serve, Crash, Receive, ThreadStep,
           LookupMiss, LookupHit, SqliteClaim, SqliteRefuse, SqliteBusy, SqliteNoTable,
           RedisClaim, RedisRefuse, RedisFail, Finish, Tick, LoseDb
  <2>2. QED
    BY <2>1 DEF IInv, Claims
<1>1. ASSUME UNCHANGED <<now, store, claimed, accepted>>, Lost => Lost',
             \A t \in Thread : pc'[t] = "won" => pc[t] = "won" /\ env'[t] = env[t]
      PROVE  Claims'
  BY <1>0, <1>1, QuietCovered, QuietWinner DEF Claims, ClaimsApart
<1>2. ASSUME NEW i \in Instance, Probe(i) \/ Mark(i) \/ Connect(i) \/ Serve(i)
      PROVE  Claims'
  BY <1>1, <1>2 DEF Probe, Mark, Connect, Serve, Lost
<1>3. ASSUME NEW i \in Instance, Create(i)
      PROVE  Claims'
  <2>1. UNCHANGED <<now, store, claimed, accepted, threadVars>> /\ db' = "ready"
    BY <1>3 DEF Create
  <2>2. CASE db = "ready"
    BY <1>1, <2>1, <2>2 DEF Lost
  <2>3. CASE claimed = {}
    BY <1>0, <2>1, <2>3, QuietWinner DEF Claims, ClaimsCovered, ClaimsApart
  <2>4. QED
    BY <1>3, <2>2, <2>3 DEF Create, Rebuilds
<1>4. ASSUME NEW i \in Instance, CreateRefused(i)
      PROVE  Claims'
  BY <1>1, <1>4 DEF CreateRefused, Lost, Connected
<1>5. ASSUME NEW i \in Instance, Crash(i)
      PROVE  Claims'
  BY <1>0, <1>1, <1>5 DEF Crash, Lost, TypeOK
<1>6. ASSUME NEW t \in Thread, NEW e \in Envelope, Receive(t, e)
      PROVE  Claims'
  BY <1>0, <1>1, <1>6 DEF Receive, Lost, TypeOK
<1>7. ASSUME NEW t \in Thread,
             \/ LookupMiss(t) \/ LookupHit(t) \/ SqliteRefuse(t) \/ SqliteBusy(t)
             \/ RedisRefuse(t) \/ RedisFail(t)
      PROVE  Claims'
  <2>1. UNCHANGED <<now, store, claimed, accepted, db>>
    BY <1>7 DEF LookupMiss, LookupHit, SqliteRefuse, SqliteBusy, RedisRefuse, RedisFail
  <2>2. Leave(t) \/ Move(t, "claiming")
    BY <1>7 DEF LookupMiss, LookupHit, SqliteRefuse, SqliteBusy, RedisRefuse, RedisFail,
                RetryOrRaise
  <2>3. \A u \in Thread : pc'[u] = "won" => pc[u] = "won" /\ env'[u] = env[u]
    BY <1>0, <2>2 DEF Leave, Move, TypeOK
  <2>4. QED
    BY <1>1, <2>1, <2>3 DEF Lost
<1>8. ASSUME NEW t \in Thread, SqliteNoTable(t)
      PROVE  Claims'
  <2>1. /\ UNCHANGED <<now, store, claimed, accepted>>
        /\ pc[t] = "claiming" /\ Sqlite /\ db # "ready"
        /\ Leave(t) \/ Move(t, "claiming")
    BY <1>8 DEF SqliteNoTable, RetryOrRaise
  <2>2. \A u \in Thread : pc'[u] = "won" => pc[u] = "won" /\ env'[u] = env[u]
    BY <1>0, <2>1 DEF Leave, Move, TypeOK
  <2>3. CASE db' # "ready"
    BY <1>1, <2>1, <2>2, <2>3 DEF Lost
  <2>4. CASE claimed = {}
    BY <1>0, <2>1, <2>2, <2>4, QuietWinner DEF Claims, ClaimsCovered, ClaimsApart
  <2>5. db' # "ready" \/ claimed = {}
    BY <1>8, <2>1 DEF SqliteNoTable, Connected, Rebuilds
  <2>6. QED
    BY <2>3, <2>4, <2>5
<1>9. ASSUME NEW t \in Thread, SqliteClaim(t) \/ RedisClaim(t)
      PROVE  Claims'
  <2>1. /\ pc[t] = "claiming" /\ Free(env[t]) /\ ~Lost
        /\ claimed' = claimed \cup {env[t]} /\ UNCHANGED accepted
        /\ Leave(t) \/ Move(t, "won")
    BY <1>9 DEF SqliteClaim, RedisClaim, Lost
  <2>2. env[t] \notin claimed
    BY <1>0, <2>1, GrantIsFirst
  <2>3. \A f \in claimed : Contract!Collide(env[t], f) => Contract!Apart(env[t], f)
    BY <1>0, <2>1, GrantIsNew
  <2>4. ClaimsCovered'
    BY <1>0, <1>9, SqliteCovered, RedisCovered DEF Claims
  <2>5. ClaimsApart'
    BY <1>0, <2>1, <2>3 DEF Claims, ClaimsApart, Contract!Collide, Contract!Apart
  <2>6. OneWinner'
    <3>1. /\ env[t] \in Envelope /\ accepted[env[t]] = 0
          /\ \A u \in Thread : pc[u] = "won" => env[u] # env[t]
      BY <1>0, <2>2 DEF Claims, OneWinner, TypeOK
    <3>2. /\ \A u \in Thread \ {t} : pc'[u] = pc[u] /\ env'[u] = env[u]
          /\ pc'[t] = "won" => env'[t] = env[t]
      BY <1>0, <2>1 DEF Leave, Move, TypeOK
    <3>3. QED
      BY <1>0, <2>1, <3>1, <3>2 DEF Claims, OneWinner
  <2>7. QED
    BY <2>4, <2>5, <2>6 DEF Claims
<1>10. ASSUME NEW t \in Thread, Finish(t)
       PROVE  Claims'
  <2>1. /\ pc[t] = "won" /\ Leave(t) /\ UNCHANGED <<now, store, claimed, db>>
        /\ accepted' = [accepted EXCEPT ![env[t]] = Contract!Bump(@)]
    BY <1>10 DEF Finish
  <2>2. ClaimsCovered' /\ ClaimsApart'
    BY <1>0, <2>1, QuietCovered DEF Claims, ClaimsApart, Lost
  <2>3. env[t] \in claimed /\ env[t] \in Envelope /\ accepted[env[t]] = 0
    BY <1>0, <2>1 DEF Claims, OneWinner, TypeOK
  <2>4. /\ accepted'[env[t]] = 1
        /\ \A e \in Envelope \ {env[t]} : accepted'[e] = accepted[e]
    BY <1>0, <2>1, <2>3 DEF TypeOK, Contract!Bump
  <2>5. \A u \in Thread : pc'[u] = "won" => u # t /\ pc[u] = "won" /\ env'[u] = env[u]
    BY <1>0, <2>1 DEF Leave, TypeOK
  <2>6. OneWinner'
    <3>1. \A u \in Thread : pc'[u] = "won" => env[u] # env[t]
      BY <1>0, <2>1, <2>5 DEF Claims, OneWinner
    <3>2. QED
      BY <1>0, <2>1, <2>3, <2>4, <2>5, <3>1 DEF Claims, OneWinner, TypeOK
  <2>7. QED
    BY <2>2, <2>6 DEF Claims
<1>11. CASE Tick
  <2>1. UNCHANGED <<claimed, accepted, pc, env>>
    BY <1>11 DEF Tick
  <2>2. ClaimsCovered'
    BY <1>0, <1>11, TickCovered DEF Claims
  <2>3. QED
    BY <1>0, <2>1, <2>2, QuietWinner DEF Claims, ClaimsApart
<1>12. CASE LoseDb
  <2>1. UNCHANGED <<claimed, accepted, pc, env>> /\ Lost'
    BY <1>12 DEF LoseDb, Lost, Sqlite
  <2>2. ClaimsCovered'
    BY <2>1 DEF ClaimsCovered
  <2>3. QED
    BY <1>0, <2>1, <2>2, QuietWinner DEF Claims, ClaimsApart
<1>13. CASE UNCHANGED vars
  BY <1>1, <1>13 DEF vars, Lost
<1>14. QED
  BY <1>2, <1>3, <1>4, <1>5, <1>6, <1>7, <1>8, <1>9, <1>10, <1>11, <1>12, <1>13
     DEF Next, ThreadStep
-------------------------------------------------------------------------------
(* The inductive invariant holds in every state.                            *)
THEOREM Invariance == Spec => []IInv
<1>1. Init => IInv
  <2> SUFFICES ASSUME Init
               PROVE  IInv
    OBVIOUS
  <2>1. TypeOK
    BY TypeInit
  <2>2. InFlightFresh
    BY DEF Init, InFlightFresh
  <2>3. ClaimsCovered /\ ClaimsApart /\ OneWinner
    BY DEF Init, ClaimsCovered, ClaimsApart, OneWinner
  <2>4. QED
    BY <2>1, <2>2, <2>3 DEF IInv
<1>2. IInv /\ [Next]_vars => IInv'
  <2>1. IInv => TypeOK
    BY DEF IInv
  <2>2. QED
    BY <2>1, TypeStep, FreshStep, ClaimsStep DEF IInv, Claims
<1>3. QED
  BY <1>1, <1>2, PTL DEF Spec

(* No envelope is accepted twice, whatever the number of processes and      *)
(* threads: validate_envelope's replay check, end to end.                   *)
THEOREM AtMostOnce == Spec => []AcceptedOnce
<1>1. IInv => AcceptedOnce
  BY DEF IInv, AcceptedOnce, OneWinner
<1>2. QED
  BY <1>1, Invariance, PTL

(* A MessageID or Nonce is reused only by an envelope stamped much later.   *)
THEOREM ReuseIsSpaced == Spec => []ReuseSpaced
<1>1. IInv => ReuseSpaced
  BY DEF IInv, ReuseSpaced, OneWinner, ClaimsApart
<1>2. QED
  BY <1>1, Invariance, PTL

(* The runtime implements the contract: every step accepts one envelope the *)
(* contract lets it accept, re-creates a lost table, or changes nothing     *)
(* the contract sees.                                                       *)
THEOREM ImplementsContract == Spec => RefinesContract
<1>. USE DEF fileVars, procVars, threadVars, historyVars
<1>1. Init => Contract!Init
  BY DEF Init, Contract!Init
<1>2. IInv /\ [Next]_vars => [Contract!Next]_(Contract!contractVars)
  <2> SUFFICES ASSUME IInv, [Next]_vars
               PROVE  Contract!Next \/ UNCHANGED <<accepted, rebuilt>>
    BY DEF Contract!contractVars
  <2>0. TypeOK
    BY DEF IInv
  <2>1. ASSUME NEW i \in Instance,
               \/ Probe(i) \/ Create(i) \/ CreateRefused(i) \/ Mark(i) \/ Connect(i)
               \/ Serve(i) \/ Crash(i)
        PROVE  Contract!Next \/ UNCHANGED <<accepted, rebuilt>>
    <3>1. CASE Create(i)
      <4>1. UNCHANGED accepted /\ (rebuilt => rebuilt') /\ rebuilt' \in BOOLEAN
        BY <2>0, <3>1, Zenon DEF Create, Rebuilds, TypeOK
      <4>2. QED
        BY <2>0, <4>1, Zenon DEF Contract!Next, Contract!Rebuild, TypeOK
    <3>2. CASE ~Create(i)
      BY <2>1, <3>2 DEF Probe, CreateRefused, Mark, Connect, Serve, Crash
    <3>3. QED
      BY <3>1, <3>2
  <2>2. ASSUME NEW t \in Thread, NEW e \in Envelope, Receive(t, e)
        PROVE  UNCHANGED <<accepted, rebuilt>>
    BY <2>2 DEF Receive
  <2>3. ASSUME NEW t \in Thread, SqliteNoTable(t)
        PROVE  Contract!Next \/ UNCHANGED <<accepted, rebuilt>>
    <3>1. UNCHANGED accepted /\ (rebuilt => rebuilt')
      BY <2>3 DEF SqliteNoTable, Rebuilds
    <3>2. rebuilt' = rebuilt \/ rebuilt' = Rebuilds
      BY <2>3, Zenon DEF SqliteNoTable
    <3>3. rebuilt' \in BOOLEAN
      BY <2>0, <3>2, Zenon DEF TypeOK, Rebuilds
    <3>4. QED
      BY <2>0, <3>1, <3>3, Zenon DEF Contract!Next, Contract!Rebuild, TypeOK
  <2>4. ASSUME NEW t \in Thread, Finish(t)
        PROVE  Contract!Next
    <3>1. /\ pc[t] = "won" /\ env[t] \in Envelope /\ UNCHANGED rebuilt
          /\ accepted' = [accepted EXCEPT ![env[t]] = Contract!Bump(@)]
      BY <2>0, <2>4 DEF Finish, TypeOK
    <3>2. \/ rebuilt
          \/ /\ accepted[env[t]] = 0
             /\ \A f \in Envelope :
                  accepted[f] > 0 /\ Contract!Collide(env[t], f) => Contract!Apart(env[t], f)
      <4>1. CASE rebuilt
        BY <4>1
      <4>2. CASE ~rebuilt
        <5>1. accepted[env[t]] = 0 /\ env[t] \in claimed /\ ClaimsApart
          BY <3>1, <4>2 DEF IInv, OneWinner
        <5>2. \A f \in Envelope : accepted[f] > 0 => f \in claimed /\ f # env[t]
          BY <4>2, <5>1 DEF IInv, OneWinner
        <5>3. QED
          BY <5>1, <5>2 DEF ClaimsApart
      <4>3. QED
        BY <4>1, <4>2
    <3>3. Contract!Accept(env[t])
      BY <3>1, <3>2 DEF Contract!Accept
    <3>4. QED
      BY <3>1, <3>3 DEF Contract!Next
  <2>5. ASSUME NEW t \in Thread,
               \/ LookupMiss(t) \/ LookupHit(t) \/ SqliteClaim(t) \/ SqliteRefuse(t)
               \/ SqliteBusy(t) \/ RedisClaim(t) \/ RedisRefuse(t) \/ RedisFail(t)
        PROVE  UNCHANGED <<accepted, rebuilt>>
    BY <2>5 DEF LookupMiss, LookupHit, SqliteClaim, SqliteRefuse, SqliteBusy, RedisClaim,
                RedisRefuse, RedisFail
  <2>6. CASE Tick \/ LoseDb \/ UNCHANGED vars
    BY <2>6 DEF Tick, LoseDb, vars
  <2>7. QED
    BY <2>1, <2>2, <2>3, <2>4, <2>5, <2>6 DEF Next, ThreadStep
<1>3. QED
  BY <1>1, <1>2, Invariance, PTL DEF Spec, RefinesContract, Contract!Spec
-------------------------------------------------------------------------------
(* Deleting all keys whose stamp is in some set deletes whole pairs.        *)
LEMMA PairsShrink ==
  ASSUME ClaimsArePairs, UNCHANGED claimed, NEW D, D \subseteq DOMAIN store,
         store' = [k \in D |-> store[k]],
         \A j, k \in DOMAIN store : store[j] = store[k] => (j \in D <=> k \in D)
  PROVE  ClaimsArePairs'
<1>1. \A k \in D : \E e \in claimed :
        /\ k \in KeysOf(e) /\ KeysOf(e) \subseteq DOMAIN store
        /\ \A x \in KeysOf(e) : store[x] = store[k]
  BY DEF ClaimsArePairs
<1>2. \A k \in D : \E e \in claimed :
        /\ k \in KeysOf(e) /\ KeysOf(e) \subseteq D
        /\ \A x \in KeysOf(e) : store[x] = store[k]
  BY <1>1
<1>3. DOMAIN store' = D /\ \A k \in D : store'[k] = store[k]
  OBVIOUS
<1>4. QED
  BY <1>2, <1>3 DEF ClaimsArePairs

(* Adding a free pair under one stamp leaves the other pairs whole.         *)
LEMMA PairsGrow ==
  ASSUME ClaimsArePairs, NEW e, NEW s, Free(e)
  PROVE  \A k \in DOMAIN With(e, s) : \E c \in claimed \cup {e} :
           /\ k \in KeysOf(c) /\ KeysOf(c) \subseteq DOMAIN With(e, s)
           /\ \A x \in KeysOf(c) : With(e, s)[x] = With(e, s)[k]
<1>1. /\ DOMAIN With(e, s) = DOMAIN store \cup KeysOf(e)
      /\ \A k \in KeysOf(e) : With(e, s)[k] = s
      /\ \A k \in DOMAIN store : With(e, s)[k] = store[k]
  BY DEF With, Free
<1>2. ASSUME NEW k \in DOMAIN store
      PROVE  \E c \in claimed :
               /\ k \in KeysOf(c) /\ KeysOf(c) \subseteq DOMAIN With(e, s)
               /\ \A x \in KeysOf(c) : With(e, s)[x] = With(e, s)[k]
  <2>1. PICK c \in claimed : /\ k \in KeysOf(c) /\ KeysOf(c) \subseteq DOMAIN store
                             /\ \A x \in KeysOf(c) : store[x] = store[k]
    BY DEF ClaimsArePairs
  <2>2. QED
    BY <1>1, <2>1
<1>3. QED
  BY <1>1, <1>2

(* A sharer of one key of a granted claim collides with it.                 *)
LEMMA SharerCollides ==
  ASSUME TypeOK, NEW t \in Thread, NEW k \in KeysOf(env[t]),
         NEW c \in claimed, k \in KeysOf(c)
  PROVE  Contract!Collide(env[t], c)
<1>1. env[t] \in Envelope /\ c \in Envelope
  BY DEF TypeOK
<1>2. QED
  BY <1>1, SharedKey

(* The caches, the store and every refusal name granted claims only.        *)
LEMMA HonestStep == HonestInv /\ [Next]_vars => HonestInv'
<1> SUFFICES ASSUME HonestInv, [Next]_vars
             PROVE  HonestInv'
  OBVIOUS
<1>. USE ShapeAssumption DEF fileVars, procVars, threadVars, historyVars
<1> DEFINE SeenOK == \A i \in Instance : \A k \in seen[i] : \E c \in claimed : k \in KeysOf(c)
           WonOK == \A t \in Thread : pc[t] = "won" => env[t] \in claimed
           Refused(t) == /\ refused' = refused \cup {env[t]} /\ Leave(t)
                         /\ UNCHANGED <<store, seen, claimed>>
<1>0. TypeOK /\ TypeOK' /\ SeenOK /\ WonOK /\ RefusalHonest /\ ClaimsArePairs
  BY TypeStep DEF HonestInv
<1> SUFFICES SeenOK' /\ WonOK' /\ RefusalHonest' /\ ClaimsArePairs'
  BY <1>0 DEF HonestInv
<1>1. ASSUME UNCHANGED <<store, seen, claimed, refused>>,
             \A t \in Thread : pc'[t] = "won" => pc[t] = "won" /\ env'[t] = env[t]
      PROVE  SeenOK' /\ WonOK' /\ RefusalHonest' /\ ClaimsArePairs'
  BY <1>0, <1>1 DEF RefusalHonest, ClaimsArePairs
<1>2. ASSUME NEW i \in Instance,
             \/ Probe(i) \/ Create(i) \/ CreateRefused(i)
             \/ Mark(i) \/ Connect(i) \/ Serve(i)
      PROVE  SeenOK' /\ WonOK' /\ RefusalHonest' /\ ClaimsArePairs'
  BY <1>1, <1>2 DEF Probe, Create, CreateRefused, Mark, Connect, Serve
<1>3. ASSUME NEW i \in Instance, Crash(i)
      PROVE  SeenOK' /\ WonOK' /\ RefusalHonest' /\ ClaimsArePairs'
  <2>1. UNCHANGED <<store, claimed, refused>>
    BY <1>3 DEF Crash
  <2>2. SeenOK'
    BY <1>0, <1>3, <2>1 DEF Crash, TypeOK
  <2>3. WonOK'
    BY <1>0, <1>3, <2>1 DEF Crash, TypeOK
  <2>4. QED
    BY <1>0, <2>1, <2>2, <2>3 DEF RefusalHonest, ClaimsArePairs
<1>4. ASSUME NEW t \in Thread, NEW e \in Envelope, Receive(t, e)
      PROVE  SeenOK' /\ WonOK' /\ RefusalHonest' /\ ClaimsArePairs'
  BY <1>0, <1>1, <1>4 DEF Receive, TypeOK
<1>5. ASSUME NEW t \in Thread, Refused(t), NEW k \in KeysOf(env[t]),
             NEW c \in claimed, k \in KeysOf(c)
      PROVE  SeenOK' /\ WonOK' /\ RefusalHonest' /\ ClaimsArePairs'
  <2>1. Contract!Collide(env[t], c)
    BY <1>0, <1>5, SharerCollides
  <2>2. WonOK'
    BY <1>0, <1>5 DEF Leave, TypeOK
  <2>3. QED
    BY <1>0, <1>5, <2>1, <2>2 DEF RefusalHonest, ClaimsArePairs
<1>6. ASSUME NEW t \in Thread, LookupHit(t)
      PROVE  SeenOK' /\ WonOK' /\ RefusalHonest' /\ ClaimsArePairs'
  <2>1. PICK k \in KeysOf(env[t]) : k \in seen[Home[t]]
    BY <1>6 DEF LookupHit
  <2>2. PICK c \in claimed : k \in KeysOf(c)
    BY <1>0, <2>1
  <2>3. Refused(t)
    BY <1>6 DEF LookupHit
  <2>4. QED
    BY <1>5, <2>1, <2>2, <2>3
<1>7. ASSUME NEW t \in Thread, SqliteRefuse(t) \/ RedisRefuse(t)
      PROVE  SeenOK' /\ WonOK' /\ RefusalHonest' /\ ClaimsArePairs'
  <2>1. PICK k \in KeysOf(env[t]) : k \in DOMAIN store
    BY <1>7 DEF SqliteRefuse, RedisRefuse, Free
  <2>2. PICK c \in claimed : k \in KeysOf(c)
    BY <1>0, <2>1 DEF ClaimsArePairs
  <2>3. Refused(t)
    BY <1>7 DEF SqliteRefuse, RedisRefuse
  <2>4. QED
    BY <1>5, <2>1, <2>2, <2>3
<1>8. ASSUME NEW t \in Thread,
             LookupMiss(t) \/ SqliteBusy(t) \/ SqliteNoTable(t) \/ RedisFail(t)
      PROVE  SeenOK' /\ WonOK' /\ RefusalHonest' /\ ClaimsArePairs'
  <2>1. UNCHANGED <<store, seen, claimed, refused>>
    BY <1>8 DEF LookupMiss, SqliteBusy, SqliteNoTable, RedisFail
  <2>2. Leave(t) \/ Move(t, "claiming")
    BY <1>8 DEF LookupMiss, SqliteBusy, SqliteNoTable, RedisFail, RetryOrRaise
  <2>3. \A u \in Thread : pc'[u] = "won" => pc[u] = "won" /\ env'[u] = env[u]
    BY <1>0, <2>2 DEF Leave, Move, TypeOK
  <2>4. QED
    BY <1>1, <2>1, <2>3
<1>9. ASSUME NEW t \in Thread, SqliteClaim(t) \/ RedisClaim(t)
      PROVE  SeenOK' /\ WonOK' /\ RefusalHonest' /\ ClaimsArePairs'
  <2>1. /\ Free(env[t]) /\ claimed' = claimed \cup {env[t]} /\ UNCHANGED <<seen, refused>>
        /\ Leave(t) \/ Move(t, "won")
    BY <1>9 DEF SqliteClaim, RedisClaim
  <2>2. SeenOK' /\ RefusalHonest'
    BY <1>0, <2>1 DEF RefusalHonest
  <2>3. WonOK'
    BY <1>0, <2>1 DEF Leave, Move, TypeOK
  <2>4. ClaimsArePairs'
    <3>1. CASE RedisClaim(t)
      BY <1>0, <2>1, <3>1, PairsGrow DEF RedisClaim, ClaimsArePairs
    <3>2. CASE SqliteClaim(t)
      <4> DEFINE f == With(env[t], epoch[t])
                 D == {x \in DOMAIN f : ~Stale(f[x], epoch[t])}
      <4>1. \A k \in DOMAIN f : \E c \in claimed' :
              /\ k \in KeysOf(c) /\ KeysOf(c) \subseteq DOMAIN f
              /\ \A x \in KeysOf(c) : f[x] = f[k]
        BY <1>0, <2>1, PairsGrow
      <4>2. store' = [k \in D |-> f[k]]
        BY <3>2 DEF SqliteClaim, Purged
      <4> HIDE DEF f
      <4>3. QED
        BY <4>1, <4>2 DEF ClaimsArePairs
    <3>3. QED
      BY <1>9, <3>1, <3>2
  <2>5. QED
    BY <2>2, <2>3, <2>4
<1>10. ASSUME NEW t \in Thread, Finish(t)
       PROVE  SeenOK' /\ WonOK' /\ RefusalHonest' /\ ClaimsArePairs'
  <2>1. pc[t] = "won" /\ Leave(t) /\ UNCHANGED <<store, claimed, refused>>
    BY <1>10 DEF Finish
  <2>2. PICK ids \in Trimmed(OfKind(seen[Home[t]], "MessageID") \cup {Key(env[t])}),
             nonces \in Trimmed(OfKind(seen[Home[t]], "Nonce") \cup {NonceKey(env[t])}) :
          seen' = [seen EXCEPT ![Home[t]] = ids \cup nonces]
    BY <1>10 DEF Finish
  <2>3. \A S : \A T \in Trimmed(S) : T \subseteq S
    BY DEF Trimmed
  <2>4. ids \cup nonces \subseteq seen[Home[t]] \cup KeysOf(env[t])
    BY <2>2, <2>3 DEF OfKind, KeysOf
  <2>5. env[t] \in claimed
    BY <1>0, <2>1
  <2>6. SeenOK'
    <3>1. \A i \in Instance : i # Home[t] => seen'[i] = seen[i]
      BY <1>0, <2>2 DEF TypeOK
    <3>2. seen'[Home[t]] = ids \cup nonces
      BY <1>0, <2>2 DEF TypeOK
    <3>3. QED
      BY <1>0, <2>1, <2>4, <2>5, <3>1, <3>2
  <2>7. WonOK'
    BY <1>0, <2>1 DEF Leave, TypeOK
  <2>8. QED
    BY <1>0, <2>1, <2>6, <2>7 DEF RefusalHonest, ClaimsArePairs
<1>11. CASE Tick
  <2>1. UNCHANGED <<seen, claimed, refused, pc, env>>
    BY <1>11 DEF Tick
  <2>2. ClaimsArePairs'
    <3>1. CASE Sqlite
      BY <1>0, <1>11, <2>1, <3>1 DEF Tick, ClaimsArePairs
    <3>2. CASE ~Sqlite
      <4> DEFINE D == {x \in DOMAIN store : now + 1 < store[x] + KeyTTL}
      <4>1. store' = [k \in D |-> store[k]] /\ D \subseteq DOMAIN store
        BY <1>11, <3>2 DEF Tick
      <4>2. \A j, k \in DOMAIN store : store[j] = store[k] => (j \in D <=> k \in D)
        OBVIOUS
      <4> HIDE DEF D
      <4>3. QED
        BY <1>0, <2>1, <4>1, <4>2, PairsShrink
    <3>3. QED
      BY <3>1, <3>2
  <2>3. QED
    BY <1>0, <2>1, <2>2 DEF RefusalHonest
<1>12. CASE LoseDb
  <2>1. UNCHANGED <<seen, claimed, refused, pc, env>> /\ DOMAIN store' = {}
    BY <1>12 DEF LoseDb
  <2>2. QED
    BY <1>0, <2>1 DEF RefusalHonest, ClaimsArePairs
<1>13. CASE UNCHANGED vars
  BY <1>1, <1>13 DEF vars
<1>14. QED
  BY <1>2, <1>3, <1>4, <1>6, <1>7, <1>8, <1>9, <1>10, <1>11, <1>12, <1>13 DEF Next, ThreadStep

(* The invariant behind honest refusals and whole pairs.                    *)
LEMMA Honesty == Spec => []HonestInv
<1>1. Init => HonestInv
  <2>1. Init => RefusalHonest /\ ClaimsArePairs
    BY DEF Init, RefusalHonest, ClaimsArePairs
  <2>2. QED
    BY <2>1, TypeInit DEF Init, HonestInv
<1>2. QED
  BY <1>1, HonestStep, PTL DEF Spec

(* An envelope is refused as a replay only because of a granted claim of    *)
(* the same sender's MessageID or Nonce.                                    *)
THEOREM RefusalsAreHonest == Spec => []RefusalHonest
<1>1. HonestInv => RefusalHonest
  BY DEF HonestInv
<1>2. QED
  BY <1>1, Honesty, PTL

(* The store never holds half a MessageID/Nonce pair.                       *)
THEOREM PairsAreWhole == Spec => []ClaimsArePairs
<1>1. HonestInv => ClaimsArePairs
  BY DEF HonestInv
<1>2. QED
  BY <1>1, Honesty, PTL
-------------------------------------------------------------------------------
(* Start-up: the marker precedes the first claim, and a process that would  *)
(* create a lost table has seen it.                                         *)
LEMMA ConsentStep == ConsentInv /\ [Next]_vars => ConsentInv'
<1> SUFFICES ASSUME ConsentInv, [Next]_vars
             PROVE  ConsentInv'
  OBVIOUS
<1>. USE ShapeAssumption DEF fileVars, procVars, threadVars, historyVars
<1> DEFINE Saw == \A i \in Instance :
                    /\ phase[i] \in {"probed", "created"} => Sqlite
                    /\ phase[i] = "created" => db = "ready"
                    /\ phase[i] = "probed" /\ marker /\ db # "ready" => sawMarker[i]
           Live == \A t \in Thread : pc[t] # "idle" => phase[Home[t]] = "up"
           Marked == Embedded = {} /\ Sqlite =>
                       /\ \A i \in Instance : phase[i] = "up" => marker
                       /\ claimed # {} => marker
           Consent == RebuildNeedsConsent
<1>0. TypeOK /\ TypeOK' /\ Saw /\ Live /\ Marked /\ Consent
  BY TypeStep DEF ConsentInv
<1> SUFFICES Saw' /\ Live' /\ Marked' /\ Consent'
  BY <1>0 DEF ConsentInv
<1>1. ASSUME NEW i \in Instance, Probe(i)
      PROVE  Saw' /\ Live' /\ Marked' /\ Consent'
  BY <1>0, <1>1 DEF Probe, TypeOK, RebuildNeedsConsent
<1>2. ASSUME NEW i \in Instance, Create(i)
      PROVE  Saw' /\ Live' /\ Marked' /\ Consent'
  <2>1. Saw' /\ Live' /\ Marked'
    BY <1>0, <1>2 DEF Create, TypeOK
  <2>2. Consent'
    <3>1. CASE rebuilt' = rebuilt
      BY <1>0, <3>1 DEF RebuildNeedsConsent
    <3>2. CASE db # "ready" /\ claimed # {}
      <4>1. Embedded = {} /\ Sqlite => sawMarker[i]
        BY <1>0, <1>2, <3>2 DEF Create
      <4>2. Embedded = {} /\ Sqlite => AllowBootstrap
        BY <1>2, <3>2, <4>1 DEF Create, MayCreate
      <4>3. Sqlite
        BY <1>0, <1>2 DEF Create
      <4>4. QED
        BY <4>2, <4>3 DEF RebuildNeedsConsent
    <3>3. QED
      BY <1>0, <1>2, <3>1, <3>2 DEF Create, Rebuilds, TypeOK
  <2>3. QED
    BY <2>1, <2>2
<1>3. ASSUME NEW i \in Instance, CreateRefused(i)
      PROVE  Saw' /\ Live' /\ Marked' /\ Consent'
  BY <1>0, <1>3 DEF CreateRefused, TypeOK, Connected, RebuildNeedsConsent
<1>4. ASSUME NEW i \in Instance, Mark(i)
      PROVE  Saw' /\ Live' /\ Marked' /\ Consent'
  BY <1>0, <1>4 DEF Mark, TypeOK, RebuildNeedsConsent
<1>5. ASSUME NEW i \in Instance, Connect(i) \/ Serve(i)
      PROVE  Saw' /\ Live' /\ Marked' /\ Consent'
  BY <1>0, <1>5 DEF Connect, Serve, TypeOK, Sqlite, RebuildNeedsConsent
<1>6. ASSUME NEW i \in Instance, Crash(i)
      PROVE  Saw' /\ Live' /\ Marked' /\ Consent'
  BY <1>0, <1>6 DEF Crash, TypeOK, RebuildNeedsConsent
<1>7. ASSUME NEW t \in Thread, NEW e \in Envelope, Receive(t, e)
      PROVE  Saw' /\ Live' /\ Marked' /\ Consent'
  BY <1>0, <1>7 DEF Receive, TypeOK, RebuildNeedsConsent
<1>8. ASSUME NEW t \in Thread,
             \/ LookupMiss(t) \/ LookupHit(t) \/ SqliteRefuse(t) \/ SqliteBusy(t)
             \/ RedisRefuse(t) \/ RedisFail(t) \/ Finish(t)
      PROVE  Saw' /\ Live' /\ Marked' /\ Consent'
  <2>1. UNCHANGED <<db, marker, phase, sawMarker, claimed, rebuilt>>
    BY <1>8 DEF LookupMiss, LookupHit, SqliteRefuse, SqliteBusy, RedisRefuse, RedisFail, Finish
  <2>2. phase[Home[t]] = "up" /\ \A u \in Thread \ {t} : pc'[u] = pc[u]
    BY <1>0, <1>8 DEF LookupMiss, LookupHit, SqliteRefuse, SqliteBusy, RedisRefuse, RedisFail,
                      Finish, Move, Leave, RetryOrRaise, TypeOK
  <2>3. QED
    BY <1>0, <2>1, <2>2 DEF RebuildNeedsConsent
<1>9. ASSUME NEW t \in Thread, SqliteClaim(t) \/ RedisClaim(t)
      PROVE  Saw' /\ Live' /\ Marked' /\ Consent'
  <2>1. UNCHANGED <<db, marker, phase, sawMarker, rebuilt>>
    BY <1>9 DEF SqliteClaim, RedisClaim
  <2>2. phase[Home[t]] = "up" /\ \A u \in Thread \ {t} : pc'[u] = pc[u]
    BY <1>0, <1>9 DEF SqliteClaim, RedisClaim, Move, Leave, TypeOK
  <2>3. QED
    BY <1>0, <2>1, <2>2 DEF RebuildNeedsConsent
<1>10. ASSUME NEW t \in Thread, SqliteNoTable(t)
       PROVE  Saw' /\ Live' /\ Marked' /\ Consent'
  <2>1. /\ UNCHANGED <<phase, sawMarker, claimed>> /\ Sqlite /\ db # "ready"
        /\ pc[t] = "claiming"
    BY <1>10 DEF SqliteNoTable
  <2>2. phase[Home[t]] = "up" /\ \A u \in Thread \ {t} : pc'[u] = pc[u]
    BY <1>0, <1>10 DEF SqliteNoTable, Move, Leave, RetryOrRaise, TypeOK
  <2>3. Embedded = {} => marker
    BY <1>0, <2>1, <2>2
  <2>4. marker => marker'
    BY <1>10 DEF SqliteNoTable
  <2>5. \/ UNCHANGED <<marker, rebuilt>> /\ db' # "ready"
        \/ db' = "ready" /\ (marker => AllowBootstrap)
    BY <1>10, <2>1 DEF SqliteNoTable, Connected, MayCreate
  <2>6. QED
    BY <1>0, <2>1, <2>2, <2>3, <2>4, <2>5 DEF RebuildNeedsConsent
<1>11. CASE Tick
  BY <1>0, <1>11 DEF Tick, RebuildNeedsConsent
<1>12. CASE LoseDb
  BY <1>0, <1>12 DEF LoseDb, RebuildNeedsConsent
<1>13. CASE UNCHANGED vars
  BY <1>0, <1>13 DEF vars, RebuildNeedsConsent
<1>14. QED
  BY <1>1, <1>2, <1>3, <1>4, <1>5, <1>6, <1>7, <1>8, <1>9, <1>10, <1>11, <1>12, <1>13
     DEF Next, ThreadStep

(* A store that lost its memory is not used again unless the operator says  *)
(* so, where every process starts through main().                           *)
THEOREM RebuildIsExplicit == Spec => []RebuildNeedsConsent
<1>1. Init => ConsentInv
  <2>1. Init => RebuildNeedsConsent
    BY DEF Init, RebuildNeedsConsent
  <2>2. QED
    BY <2>1, TypeInit, ShapeAssumption DEF Init, ConsentInv
<1>2. ConsentInv => RebuildNeedsConsent
  BY DEF ConsentInv
<1>3. QED
  BY <1>1, <1>2, ConsentStep, PTL DEF Spec
===============================================================================
