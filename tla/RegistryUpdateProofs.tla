------------------------- MODULE RegistryUpdateProofs -------------------------
(***************************************************************************)
(* Proofs about RegistryUpdate, for any adapters, tiers, files, dates and  *)
(* length of a request.                                                    *)
(***************************************************************************)
EXTENDS RegistryUpdate, Integers, TLAPS

-----------------------------------------------------------------------------
(* What an operation does to the copy and to the history.                  *)

LEMMA ApplyEffect ==
  ASSUME TypeOK, pc = "applying",
         NEW o \in OpId, NEW a \in Adapter, NEW at \in Time, NEW action \in Action,
         NEW e \in Entry, Apply(o, a, at, action, e)
  PROVE  \E dated \in Entry :
           /\ dated.adapterId = e.adapterId
           /\ dated.status = e.status
           /\ dated.certificationTier = e.certificationTier
           /\ dated.lastCertifiedAt = at
           /\ entries' = [entries EXCEPT ![a] = dated]
           /\ history' = [history EXCEPT ![o] =
                [adapterId |-> a, action |-> action,
                 pre_entry |-> entries[a], post_entry |-> dated]]
           /\ history[o] = None
           /\ latest' = IF at > latest THEN at ELSE latest
           /\ UNCHANGED <<file, pc, base, output>>
  <1> DEFINE dated == [e EXCEPT !.lastCertifiedAt = at]
  <1>1. /\ dated \in Entry
        /\ dated.adapterId = e.adapterId
        /\ dated.status = e.status
        /\ dated.certificationTier = e.certificationTier
        /\ dated.lastCertifiedAt = at
    BY DEF Entry
  <1>2. QED BY <1>1 DEF Apply

(* The history after an operation.                                         *)
LEMMA HistoryGrows ==
  ASSUME TypeOK, NEW o \in OpId, history[o] = None, NEW op \in Operation,
         history' = [history EXCEPT ![o] = op]
  PROVE  /\ history' \in [OpId -> Operation \cup {None}]
         /\ history'[o] = op
         /\ \A q \in OpId \ {o} : history'[q] = history[q]
         /\ o \notin Seen
         /\ Seen' = Seen \cup {o}
  <1>1. /\ history' \in [OpId -> Operation \cup {None}]
        /\ history'[o] = op
        /\ \A q \in OpId \ {o} : history'[q] = history[q]
    BY DEF TypeOK
  <1>2. op # None
    BY RegistryAssumption
  <1>3. QED BY <1>1, <1>2 DEF Seen

(* The entry an operation makes of the adapter's: by each of the actions.  *)
LEMMA OperationCases ==
  ASSUME TypeOK, NEW o \in OpId, NEW a \in Adapter, NEW at \in Time,
         Operate(o, a, at)
  PROVE  /\ pc = "applying"
         /\ \E action \in Action, e \in Entry :
              /\ Apply(o, a, at, action, e)
              /\ \/ /\ action = "UPSERT"
                    /\ e.adapterId = entries[a].adapterId
                 \/ /\ action # "UPSERT"
                    /\ e.adapterId = entries[a].adapterId
                    /\ \/ entries[a].status = "Active"
                       \/ entries[a].status = "Suspended" /\ e.status = "Revoked"
                 \/ /\ action # "UPSERT"
                    /\ \E target \in Seen : /\ history[target].adapterId = a
                                            /\ e = history[target].pre_entry
  <1>1. ASSUME Upsert(o, a, at) PROVE /\ pc = "applying"
          /\ \E e \in Entry : /\ Apply(o, a, at, "UPSERT", e)
                              /\ e.adapterId = entries[a].adapterId
    <2>1. pc = "applying" BY <1>1 DEF Upsert
    <2>2. PICK s \in Status, t \in Tier :
            Apply(o, a, at, "UPSERT", [entries[a] EXCEPT !.status = s, !.certificationTier = t])
      BY <1>1 DEF Upsert
    <2>3. entries[a] \in Entry BY <2>1 DEF TypeOK
    <2>4. /\ [entries[a] EXCEPT !.status = s, !.certificationTier = t] \in Entry
          /\ [entries[a] EXCEPT !.status = s, !.certificationTier = t].adapterId
               = entries[a].adapterId
      BY <2>3 DEF Entry
    <2>5. QED BY <2>1, <2>2, <2>4
  <1>2. ASSUME Suspend(o, a, at) PROVE /\ pc = "applying"
          /\ entries[a].status = "Active"
          /\ \E e \in Entry : /\ Apply(o, a, at, "SUSPEND", e)
                              /\ e.adapterId = entries[a].adapterId
    <2>1. /\ pc = "applying" /\ entries[a].status = "Active"
          /\ Apply(o, a, at, "SUSPEND", [entries[a] EXCEPT !.status = "Suspended"])
      BY <1>2 DEF Suspend
    <2>2. entries[a] \in Entry BY <2>1 DEF TypeOK
    <2>3. /\ [entries[a] EXCEPT !.status = "Suspended"] \in Entry
          /\ [entries[a] EXCEPT !.status = "Suspended"].adapterId = entries[a].adapterId
      BY <2>2 DEF Entry, Status
    <2>4. QED BY <2>1, <2>3
  <1>3. ASSUME Revoke(o, a, at) PROVE /\ pc = "applying"
          /\ entries[a].status \in {"Active", "Suspended"}
          /\ \E e \in Entry : /\ Apply(o, a, at, "REVOKE", e)
                              /\ e.adapterId = entries[a].adapterId
                              /\ e.status = "Revoked"
    <2>1. /\ pc = "applying" /\ entries[a].status \in {"Active", "Suspended"}
          /\ Apply(o, a, at, "REVOKE", [entries[a] EXCEPT !.status = "Revoked"])
      BY <1>3 DEF Revoke
    <2>2. entries[a] \in Entry BY <2>1 DEF TypeOK
    <2>3. /\ [entries[a] EXCEPT !.status = "Revoked"] \in Entry
          /\ [entries[a] EXCEPT !.status = "Revoked"].adapterId = entries[a].adapterId
          /\ [entries[a] EXCEPT !.status = "Revoked"].status = "Revoked"
      BY <2>2 DEF Entry, Status
    <2>4. QED BY <2>1, <2>3
  <1>4. ASSUME Rollback(o, a, at) PROVE /\ pc = "applying"
          /\ \E e \in Entry : /\ Apply(o, a, at, "ROLLBACK", e)
                              /\ \E target \in Seen : /\ history[target].adapterId = a
                                                      /\ e = history[target].pre_entry
    <2>1. pc = "applying" BY <1>4 DEF Rollback
    <2>2. PICK target \in Seen : /\ history[target].adapterId = a
                                 /\ Apply(o, a, at, "ROLLBACK", history[target].pre_entry)
      BY <1>4 DEF Rollback
    <2>3. history[target] \in Operation BY <2>2 DEF Seen, TypeOK
    <2>4. history[target].pre_entry \in Entry BY <2>3 DEF Operation
    <2>5. QED BY <2>1, <2>2, <2>4
  <1>5. {"UPSERT", "SUSPEND", "REVOKE", "ROLLBACK"} \subseteq Action
    BY DEF Action
  <1>6. CASE Upsert(o, a, at) BY <1>1, <1>5, <1>6
  <1>7. CASE Suspend(o, a, at) BY <1>2, <1>5, <1>7
  <1>8. CASE Revoke(o, a, at) BY <1>3, <1>5, <1>8
  <1>9. CASE Rollback(o, a, at) BY <1>4, <1>5, <1>9
  <1>10. QED BY <1>6, <1>7, <1>8, <1>9 DEF Operate

(* The same, put together: the operation op of the history, and the dated  *)
(* entry it leaves.                                                        *)
LEMMA Operated ==
  ASSUME TypeOK, NEW o \in OpId, NEW a \in Adapter, NEW at \in Time,
         Operate(o, a, at)
  PROVE  \E action \in Action, dated \in Entry, op \in Operation :
           /\ pc = "applying" /\ UNCHANGED <<file, pc, base, output>>
           /\ dated.lastCertifiedAt = at
           /\ op = [adapterId |-> a, action |-> action,
                    pre_entry |-> entries[a], post_entry |-> dated]
           /\ op.adapterId = a /\ op.action = action
           /\ op.pre_entry = entries[a] /\ op.post_entry = dated
           /\ entries' = [entries EXCEPT ![a] = dated]
           /\ history[o] = None
           /\ history' = [history EXCEPT ![o] = op]
           /\ latest' = IF at > latest THEN at ELSE latest
           /\ \/ /\ action = "UPSERT"
                 /\ dated.adapterId = entries[a].adapterId
              \/ /\ action # "UPSERT"
                 /\ dated.adapterId = entries[a].adapterId
                 /\ \/ entries[a].status = "Active"
                    \/ entries[a].status = "Suspended" /\ dated.status = "Revoked"
              \/ /\ action # "UPSERT"
                 /\ \E target \in Seen :
                      /\ history[target].adapterId = a
                      /\ dated.adapterId = history[target].pre_entry.adapterId
                      /\ dated.status = history[target].pre_entry.status
  <1>1. pc = "applying" BY OperationCases
  <1>2. PICK action \in Action, e \in Entry :
          /\ Apply(o, a, at, action, e)
          /\ \/ /\ action = "UPSERT"
                /\ e.adapterId = entries[a].adapterId
             \/ /\ action # "UPSERT"
                /\ e.adapterId = entries[a].adapterId
                /\ \/ entries[a].status = "Active"
                   \/ entries[a].status = "Suspended" /\ e.status = "Revoked"
             \/ /\ action # "UPSERT"
                /\ \E target \in Seen : /\ history[target].adapterId = a
                                        /\ e = history[target].pre_entry
    BY OperationCases
  <1>3. PICK dated \in Entry :
          /\ dated.adapterId = e.adapterId
          /\ dated.status = e.status
          /\ dated.certificationTier = e.certificationTier
          /\ dated.lastCertifiedAt = at
          /\ entries' = [entries EXCEPT ![a] = dated]
          /\ history' = [history EXCEPT ![o] =
                [adapterId |-> a, action |-> action,
                 pre_entry |-> entries[a], post_entry |-> dated]]
          /\ history[o] = None
          /\ latest' = IF at > latest THEN at ELSE latest
          /\ UNCHANGED <<file, pc, base, output>>
    BY <1>1, <1>2, ApplyEffect
  <1> DEFINE op == [adapterId |-> a, action |-> action,
                    pre_entry |-> entries[a], post_entry |-> dated]
  <1>4. entries[a] \in Entry BY <1>1 DEF TypeOK
  <1>5. /\ op \in Operation
        /\ op.adapterId = a /\ op.action = action
        /\ op.pre_entry = entries[a] /\ op.post_entry = dated
    BY <1>4 DEF Operation
  <1>6. \/ /\ action = "UPSERT"
           /\ dated.adapterId = entries[a].adapterId
        \/ /\ action # "UPSERT"
           /\ dated.adapterId = entries[a].adapterId
           /\ \/ entries[a].status = "Active"
              \/ entries[a].status = "Suspended" /\ dated.status = "Revoked"
        \/ /\ action # "UPSERT"
           /\ \E target \in Seen :
                /\ history[target].adapterId = a
                /\ dated.adapterId = history[target].pre_entry.adapterId
                /\ dated.status = history[target].pre_entry.status
    BY <1>2, <1>3
  <1>7. QED BY <1>1, <1>3, <1>5, <1>6

(* The result is a registry once an operation has dated it.                *)
LEMMA ResultTyped ==
  ASSUME TypeOK, pc = "writing", latest \in Time
  PROVE  Written \in Registry
  BY DEF TypeOK, Written, Registry

-----------------------------------------------------------------------------
(* Whole seconds keep the order of the dates.                              *)

LEMMA SecondsApart ==
  ASSUME NEW p \in Int, NEW q \in Int, p > q
  PROVE  /\ PerSecond * p \in Int /\ PerSecond * q \in Int
         /\ PerSecond * p >= PerSecond * q + PerSecond
  <1> USE RegistryAssumption
  <1>1. PICK d \in Nat : p = q + 1 + d
    BY p - q - 1 \in Nat, p = q + 1 + (p - q - 1)
  <1>2. PerSecond * d >= 0 OBVIOUS
  <1>3. PerSecond * p = PerSecond * q + PerSecond + PerSecond * d BY <1>1
  <1>4. QED BY <1>2, <1>3

LEMMA SecondOfDate ==
  ASSUME NEW t \in Time
  PROVE  /\ t \in Nat /\ WholeSecond(t) \in Int
         /\ WholeSecond(t) <= t /\ t < WholeSecond(t) + PerSecond
         /\ \E q \in Int : WholeSecond(t) = PerSecond * q
  <1> USE RegistryAssumption
  <1>1. t \in Nat OBVIOUS
  <1>2. t % PerSecond \in 0..(PerSecond - 1) BY <1>1
  <1>3. t - (t % PerSecond) = PerSecond * (t \div PerSecond) /\ t \div PerSecond \in Int
    BY <1>1
  <1>4. WholeSecond(t) = PerSecond * (t \div PerSecond)
    BY <1>3 DEF WholeSecond
  <1>5. WholeSecond(t) \in Int /\ WholeSecond(t) <= t /\ t < WholeSecond(t) + PerSecond
    BY <1>1, <1>2 DEF WholeSecond
  <1>6. QED BY <1>1, <1>3, <1>4, <1>5

LEMMA SecondsOrdered ==
  ASSUME NEW t \in Time, NEW u \in Time, t <= u
  PROVE  WholeSecond(t) <= WholeSecond(u)
  <1>1. PICK p \in Int : WholeSecond(t) = PerSecond * p BY SecondOfDate
  <1>2. PICK q \in Int : WholeSecond(u) = PerSecond * q BY SecondOfDate
  <1>3. CASE p > q
    <2>1. WholeSecond(t) >= WholeSecond(u) + PerSecond BY <1>1, <1>2, <1>3, SecondsApart
    <2>2. QED BY <2>1, SecondOfDate, RegistryAssumption
  <1>4. CASE q > p
    <2>1. WholeSecond(u) >= WholeSecond(t) + PerSecond BY <1>1, <1>2, <1>4, SecondsApart
    <2>2. QED BY <2>1, SecondOfDate, RegistryAssumption
  <1>5. CASE p = q BY <1>1, <1>2, <1>5, SecondOfDate
  <1>6. QED BY <1>3, <1>4, <1>5

-----------------------------------------------------------------------------
(* Types and dates: the latest date is an operation's, and after Finish    *)
(* the request has had an operation, so that the result it writes is dated.*)
DateOf(o) == history[o].post_entry.lastCertifiedAt

DatedInv ==
  /\ TypeOK
  /\ \A o \in Seen : DateOf(o) <= latest
  /\ IF Seen = {} THEN latest = 0 ELSE \E o \in Seen : DateOf(o) = latest
  /\ pc \in {"applied", "writing"} => Seen # {}

LEMMA DateTyped ==
  ASSUME TypeOK, NEW o \in Seen
  PROVE  DateOf(o) \in Time
  <1>1. history[o] \in Operation BY DEF TypeOK, Seen
  <1>2. QED BY <1>1 DEF DateOf, Operation, Entry

LEMMA LatestSet ==
  ASSUME DatedInv, pc = "writing"
  PROVE  latest \in Time
  BY DateTyped DEF DatedInv

LEMMA DatedInitially == Init => DatedInv
  <1> SUFFICES ASSUME Init PROVE DatedInv
    OBVIOUS
  <1>1. Seen = {} BY DEF Init, Seen, NoHistory
  <1>2. PICK t \in Tier, at \in Time :
          file = [p \in Path |-> IF p = BasePath THEN Sample(t, at) ELSE None]
    BY DEF Init
  <1>4. Sample(t, at) \in Registry
    BY DEF Sample, Registry, Entry, Status
  <1>5. file \in [Path -> Registry \cup {None, Torn}]
    BY <1>2, <1>4
  <1>6. history \in [OpId -> Operation \cup {None}]
    BY DEF Init, NoHistory
  <1>7. TypeOK
    BY <1>5, <1>6, RegistryAssumption DEF Init, TypeOK
  <1>8. QED BY <1>1, <1>7 DEF DatedInv, Init

LEMMA ExitTyped ==
  ASSUME Exit, file' \in [Path -> Registry \cup {None, Torn}]
  PROVE  DatedInv'
  <1>1. Seen' = {} BY DEF Exit, Seen, NoHistory
  <1>2. history' \in [OpId -> Operation \cup {None}]
    BY DEF Exit, NoHistory
  <1>3. TypeOK' BY <1>2, RegistryAssumption DEF Exit, TypeOK
  <1>4. QED BY <1>1, <1>3 DEF DatedInv, Exit

LEMMA DatedStep == DatedInv /\ [Next]_vars => DatedInv'
  <1> SUFFICES ASSUME DatedInv, [Next]_vars PROVE DatedInv'
    OBVIOUS
  <1>0. TypeOK BY DEF DatedInv
  <1>1. ASSUME NEW p \in Path, Load(p) PROVE DatedInv'
    <2>1. file[p] \in Registry BY <1>0, <1>1 DEF Load, TypeOK
    <2>2. file[p].entries \in [Adapter -> Entry] BY <2>1 DEF Registry
    <2>3. Seen' = {} BY <1>0, <1>1 DEF Load, TypeOK, Seen, NoHistory
    <2>4. TypeOK' BY <1>0, <1>1, <2>2 DEF Load, TypeOK
    <2>5. latest' = 0 BY <1>0, <1>1 DEF Load, TypeOK
    <2>6. QED BY <1>1, <2>3, <2>4, <2>5 DEF DatedInv, Load
  <1>2. ASSUME NEW p \in Path, OpenOutput(p) PROVE DatedInv'
    <2>1. file' \in [Path -> Registry \cup {None, Torn}]
      BY <1>0, <1>2 DEF OpenOutput, TypeOK
    <2>2. TypeOK' BY <1>0, <1>2, <2>1 DEF OpenOutput, TypeOK
    <2>3. Seen' = Seen BY <1>2 DEF OpenOutput, Seen
    <2>4. QED BY <1>2, <2>2, <2>3 DEF DatedInv, OpenOutput, DateOf
  <1>3. ASSUME NEW o \in OpId, NEW a \in Adapter, NEW at \in Time, Operate(o, a, at)
        PROVE  DatedInv'
    <2>1. PICK action \in Action, dated \in Entry, op \in Operation :
            /\ pc = "applying" /\ UNCHANGED <<file, pc, base, output>>
            /\ dated.lastCertifiedAt = at
            /\ op.post_entry = dated
            /\ entries' = [entries EXCEPT ![a] = dated]
            /\ history[o] = None
            /\ history' = [history EXCEPT ![o] = op]
            /\ latest' = IF at > latest THEN at ELSE latest
      BY <1>0, <1>3, Operated
    <2>2. /\ history' \in [OpId -> Operation \cup {None}]
          /\ history'[o] = op
          /\ \A q \in OpId \ {o} : history'[q] = history[q]
          /\ Seen' = Seen \cup {o}
      BY <1>0, <2>1, HistoryGrows
    <2>3. entries' \in [Adapter -> Entry] BY <1>0, <2>1 DEF TypeOK
    <2>4. /\ latest' \in Time /\ latest \in Nat /\ latest' \in Nat
          /\ latest <= latest' /\ at <= latest'
      BY <1>0, <2>1, RegistryAssumption DEF TypeOK
    <2>5. TypeOK' BY <1>0, <2>1, <2>2, <2>3, <2>4 DEF TypeOK
    <2>6. DateOf(o)' = at BY <2>1, <2>2 DEF DateOf
    <2>7. ASSUME NEW q \in Seen, q # o
          PROVE  DateOf(q)' = DateOf(q) /\ DateOf(q) <= latest /\ DateOf(q) \in Time
      <3>1. q \in OpId BY DEF Seen
      <3>2. QED BY <1>0, <2>2, <2>7, <3>1, DateTyped DEF DateOf, DatedInv
    <2>8. ASSUME NEW q \in Seen' PROVE DateOf(q)' <= latest'
      <3>1. CASE q = o BY <2>4, <2>6, <3>1
      <3>2. CASE q # o
        <4>1. q \in Seen BY <2>2, <3>2
        <4>2. /\ DateOf(q)' = DateOf(q) /\ DateOf(q) <= latest
              /\ DateOf(q) \in Nat
          BY <2>7, <3>2, <4>1, RegistryAssumption
        <4>3. DateOf(q) <= latest' BY <2>4, <4>2
        <4>4. QED BY <4>2, <4>3
      <3>3. QED BY <3>1, <3>2
    <2>9. \E q \in Seen' : DateOf(q)' = latest'
      <3>1. CASE at > latest
        <4>1. o \in Seen' /\ latest' = at BY <2>1, <2>2, <3>1
        <4>2. QED BY <2>6, <4>1
      <3>2. CASE ~(at > latest)
        <4>1. latest' = latest /\ latest # 0 BY <2>1, <3>2, RegistryAssumption
        <4>2. PICK q \in Seen : DateOf(q) = latest BY <4>1 DEF DatedInv
        <4>3. q # o BY <2>1 DEF Seen
        <4>4. QED BY <2>2, <2>7, <4>1, <4>2, <4>3
      <3>3. QED BY <3>1, <3>2
    <2>10. QED BY <2>1, <2>5, <2>8, <2>9 DEF DatedInv
  <1>4. CASE Abort BY <1>0, <1>4, ExitTyped DEF Abort, TypeOK
  <1>5. CASE Finish
    <2>1. TypeOK' BY <1>0, <1>5 DEF Finish, run, TypeOK
    <2>2. Seen' = Seen BY <1>5 DEF Finish, run, Seen
    <2>3. QED BY <1>5, <2>1, <2>2 DEF DatedInv, Finish, run, DateOf
  <1>6. CASE PrintResult BY <1>0, <1>6, ExitTyped DEF PrintResult, TypeOK
  <1>7. CASE WriteResult
    <2>1. Written \in Registry
      BY <1>0, <1>7, LatestSet, ResultTyped DEF WriteResult
    <2>2. file' \in [Path -> Registry \cup {None, Torn}]
      BY <1>0, <1>7, <2>1 DEF WriteResult, TypeOK
    <2>3. QED BY <1>7, <2>2, ExitTyped DEF WriteResult
  <1>8. CASE Die BY <1>0, <1>8, ExitTyped DEF Die, TypeOK
  <1>9. CASE UNCHANGED vars
    <2>1. Seen' = Seen BY <1>9 DEF vars, run, Seen
    <2>2. TypeOK' BY <1>0, <1>9 DEF vars, run, TypeOK
    <2>3. QED BY <1>9, <2>1, <2>2 DEF vars, run, DatedInv, DateOf
  <1>10. QED BY <1>1, <1>2, <1>3, <1>4, <1>5, <1>6, <1>7, <1>8, <1>9 DEF Next

LEMMA DatedAlways == Spec => []DatedInv
  BY DatedInitially, DatedStep, PTL DEF Spec

(* TypeOK: every reachable state is well typed, and no run leaves anything *)
(* of itself behind.                                                       *)
THEOREM TypeCorrect == Spec => []TypeOK
  <1>1. DatedInv => TypeOK BY DEF DatedInv
  <1>2. QED BY <1>1, DatedAlways, PTL

(* generatedAt of apply_registry_update.py is the whole second of one of   *)
(* the run's operations and no entry they certified is of a later second,  *)
(* for whatever dates, in whatever order and however finely dated.         *)
THEOREM ResultIsDated == Spec => []ResultDated
  <1>1. ASSUME DatedInv PROVE ResultDated
    <2>1. SUFFICES ASSUME Seen # {}
                   PROVE  /\ \A o \in Seen : WholeSecond(DateOf(o)) <= WholeSecond(latest)
                          /\ \E o \in Seen : WholeSecond(DateOf(o)) = WholeSecond(latest)
      BY DEF ResultDated, Written, DateOf
    <2>2. PICK o \in Seen : DateOf(o) = latest
      BY <1>1, <2>1 DEF DatedInv
    <2>3. latest \in Time
      BY <1>1, <2>2, DateTyped DEF DatedInv
    <2>4. \A q \in Seen : WholeSecond(DateOf(q)) <= WholeSecond(latest)
      BY <1>1, <2>3, DateTyped, SecondsOrdered DEF DatedInv
    <2>5. QED BY <2>2, <2>4
  <1>2. QED BY <1>1, DatedAlways, PTL

-----------------------------------------------------------------------------
(* The steps that leave a run's copy, base and history alone, or drop all. *)
LEMMA QuietSteps ==
  ASSUME TypeOK, [Next]_vars,
         ~ \E p \in Path : Load(p),
         ~ \E o \in OpId, a \in Adapter, at \in Time : Operate(o, a, at)
  PROVE  \/ Exit
         \/ /\ UNCHANGED <<base, entries, history, latest>>
            /\ (pc = "idle") <=> (pc' = "idle")
  <1>1. ASSUME NEW p \in Path, OpenOutput(p)
        PROVE  /\ UNCHANGED <<base, entries, history, latest>>
               /\ (pc = "idle") <=> (pc' = "idle")
    BY <1>1 DEF OpenOutput
  <1>2. CASE Finish BY <1>2 DEF Finish, run
  <1>3. CASE Abort \/ PrintResult \/ WriteResult \/ Die
    BY <1>3 DEF Abort, PrintResult, WriteResult, Die
  <1>4. CASE UNCHANGED vars BY <1>4 DEF vars, run
  <1>5. QED BY <1>1, <1>2, <1>3, <1>4 DEF Next

(* A run begins with an empty history.                                     *)
LEMMA FreshStart ==
  ASSUME TypeOK, NEW p \in Path, Load(p)
  PROVE  /\ entries' = base' /\ base' = file[p].entries
         /\ file[p] \in Registry
         /\ Seen' = {} /\ Named' = {}
         /\ pc' = "applying" /\ UNCHANGED file
  <1>1. Seen' = {} BY DEF Load, TypeOK, Seen, NoHistory
  <1>2. Named' = {} BY <1>1 DEF Named
  <1>3. QED BY <1>1, <1>2 DEF Load, TypeOK

LEMMA NothingLeft ==
  ASSUME Exit
  PROVE  Seen' = {} /\ Named' = {} /\ pc' = "idle"
  <1>1. Seen' = {} BY DEF Exit, Seen, NoHistory
  <1>2. Named' = {} BY <1>1 DEF Named
  <1>3. QED BY <1>1, <1>2 DEF Exit

-----------------------------------------------------------------------------
(* No operation raises trust: neither the copy nor any entry that a later  *)
(* ROLLBACK could restore is ranked above the base registry.               *)
TrustInv ==
  /\ TypeOK
  /\ pc # "idle" /\ NoRaise =>
       /\ \A a \in Adapter : Rank(entries[a].status) <= Rank(base[a].status)
       /\ \A o \in Seen : Rank(history[o].pre_entry.status)
                             <= Rank(base[history[o].adapterId].status)

LEMMA RankNatural ==
  ASSUME NEW s \in Status
  PROVE  Rank(s) \in Nat
  BY DEF Rank, Status

LEMMA TrustStep ==
  ASSUME TrustInv, TypeOK', [Next]_vars
  PROVE  TrustInv'
  <1>0. TypeOK BY DEF TrustInv
  <1>1. ASSUME NEW p \in Path, Load(p) PROVE TrustInv'
    <2>1. entries' = base' /\ base' \in [Adapter -> Entry] /\ Seen' = {}
      BY <1>0, <1>1, FreshStart DEF Registry
    <2>2. \A a \in Adapter : Rank(base'[a].status) \in Nat
      BY <2>1, RankNatural DEF Entry
    <2>3. QED BY <2>1, <2>2 DEF TrustInv
  <1>2. ASSUME NEW o \in OpId, NEW a \in Adapter, NEW at \in Time, Operate(o, a, at)
        PROVE  TrustInv'
    <2>1. PICK action \in Action, dated \in Entry, op \in Operation :
            /\ pc = "applying" /\ UNCHANGED <<file, pc, base, output>>
            /\ op.adapterId = a /\ op.action = action
            /\ op.pre_entry = entries[a] /\ op.post_entry = dated
            /\ entries' = [entries EXCEPT ![a] = dated]
            /\ history[o] = None
            /\ history' = [history EXCEPT ![o] = op]
            /\ \/ action = "UPSERT"
               \/ /\ action # "UPSERT"
                  /\ \/ entries[a].status = "Active"
                     \/ entries[a].status = "Suspended" /\ dated.status = "Revoked"
               \/ /\ action # "UPSERT"
                  /\ \E target \in Seen :
                       /\ history[target].adapterId = a
                       /\ dated.status = history[target].pre_entry.status
      BY <1>0, <1>2, Operated
    <2>2. /\ history'[o] = op
          /\ \A q \in OpId \ {o} : history'[q] = history[q]
          /\ o \notin Seen
          /\ Seen' = Seen \cup {o}
      BY <1>0, <2>1, HistoryGrows
    <2>3. Seen \subseteq OpId BY DEF Seen
    <2>4. entries \in [Adapter -> Entry] /\ base \in [Adapter -> Entry]
      BY <1>0, <2>1 DEF TypeOK
    <2> SUFFICES ASSUME NoRaise'
                 PROVE  /\ \A b \in Adapter : Rank(entries'[b].status) <= Rank(base[b].status)
                        /\ \A q \in Seen' : Rank(history'[q].pre_entry.status)
                                               <= Rank(base[history'[q].adapterId].status)
      BY <2>1 DEF TrustInv
    <2>5. NoRaise
      BY <2>2, <2>3 DEF NoRaise
    <2>6. /\ \A b \in Adapter : Rank(entries[b].status) <= Rank(base[b].status)
          /\ \A q \in Seen : Rank(history[q].pre_entry.status)
                                <= Rank(base[history[q].adapterId].status)
      BY <2>1, <2>5 DEF TrustInv
    <2>7. /\ entries[a].status \in Status /\ dated.status \in Status
          /\ base[a].status \in Status
      BY <2>4 DEF Entry
    <2>8. /\ Rank(entries[a].status) \in Nat /\ Rank(dated.status) \in Nat
          /\ Rank(base[a].status) \in Nat
      BY <2>7, RankNatural
    <2>9. Rank(dated.status) <= Rank(base[a].status)
      <3>1. CASE action = "UPSERT"
        <4>1. Rank(dated.status) <= Rank(entries[a].status)
          BY <2>1, <2>2, <3>1 DEF NoRaise
        <4>2. QED BY <2>6, <2>8, <4>1
      <3>2. CASE \/ entries[a].status = "Active"
                 \/ entries[a].status = "Suspended" /\ dated.status = "Revoked"
        <4>1. Rank(dated.status) <= Rank(entries[a].status)
          BY <2>7, <3>2 DEF Rank, Status
        <4>2. QED BY <2>6, <2>8, <4>1
      <3>3. CASE \E target \in Seen : /\ history[target].adapterId = a
                                      /\ dated.status = history[target].pre_entry.status
        BY <2>6, <3>3
      <3>4. QED BY <2>1, <3>1, <3>2, <3>3
    <2>10. \A b \in Adapter : Rank(entries'[b].status) <= Rank(base[b].status)
      BY <2>1, <2>4, <2>6, <2>9
    <2>11. ASSUME NEW q \in Seen'
           PROVE  Rank(history'[q].pre_entry.status) <= Rank(base[history'[q].adapterId].status)
      <3>1. CASE q = o BY <2>1, <2>2, <2>6, <3>1
      <3>2. CASE q # o
        <4>1. q \in Seen /\ history'[q] = history[q] BY <2>2, <2>3, <3>2
        <4>2. QED BY <2>6, <4>1
      <3>3. QED BY <3>1, <3>2
    <2>12. QED BY <2>10, <2>11
  <1>3. ASSUME Exit PROVE TrustInv'
    BY <1>3, NothingLeft DEF TrustInv
  <1>4. ASSUME UNCHANGED <<base, entries, history, latest>>, (pc = "idle") <=> (pc' = "idle")
        PROVE  TrustInv'
    <2>1. Seen' = Seen BY <1>4 DEF Seen
    <2>2. NoRaise' => NoRaise BY <1>4, <2>1 DEF NoRaise
    <2>3. QED BY <1>4, <2>1, <2>2 DEF TrustInv
  <1>5. QED BY <1>0, <1>1, <1>2, <1>3, <1>4, QuietSteps

(* TrustFalls: unless an UPSERT patches a status up, no run ends with an   *)
(* adapter trusted more than in the registry it started from: what one     *)
(* request has suspended or revoked, no ROLLBACK of another can restore.   *)
THEOREM TrustOnlyFalls == Spec => []TrustFalls
  <1>1. Init => TrustInv
    <2>1. Init => DatedInv BY DatedInitially
    <2>2. Init => pc = "idle" BY DEF Init
    <2>3. QED BY <2>1, <2>2 DEF TrustInv, DatedInv
  <1>2. TrustInv /\ TypeOK' /\ [Next]_vars => TrustInv'
    BY TrustStep
  <1>3. TrustInv => TrustFalls BY DEF TrustInv, TrustFalls
  <1>4. QED BY <1>1, <1>2, <1>3, TypeCorrect, PTL DEF Spec

-----------------------------------------------------------------------------
(* Entries keep their ids, in files, in the copy and in the history, and   *)
(* an adapter no operation has named keeps its entry.                      *)
ScopeInv ==
  /\ TypeOK
  /\ \A p \in Path : file[p] \notin {None, Torn} =>
       \A a \in Adapter : file[p].entries[a].adapterId = a
  /\ pc # "idle" => \A a \in Adapter : entries[a].adapterId = a
  /\ \A o \in Seen : history[o].pre_entry.adapterId = history[o].adapterId
  /\ pc # "idle" => \A a \in Adapter \ Named : entries[a] = base[a]

LEMMA ScopeInitially == Init => ScopeInv
  <1> SUFFICES ASSUME Init PROVE ScopeInv
    OBVIOUS
  <1>1. TypeOK BY DatedInitially DEF DatedInv
  <1>2. Seen = {} BY DEF Init, Seen, NoHistory
  <1>3. PICK t \in Tier, at \in Time :
          file = [p \in Path |-> IF p = BasePath THEN Sample(t, at) ELSE None]
    BY DEF Init
  <1>4. \A a \in Adapter : Sample(t, at).entries[a].adapterId = a
    BY DEF Sample
  <1>5. \A p \in Path : file[p] \notin {None, Torn} =>
          \A a \in Adapter : file[p].entries[a].adapterId = a
    BY <1>3, <1>4
  <1>6. QED BY <1>1, <1>2, <1>5 DEF Init, ScopeInv

LEMMA ScopeStep ==
  ASSUME ScopeInv, TypeOK', [Next]_vars
  PROVE  ScopeInv'
  <1>0. TypeOK BY DEF ScopeInv
  <1>1. ASSUME NEW p \in Path, Load(p) PROVE ScopeInv'
    <2>1. /\ entries' = base' /\ base' = file[p].entries
          /\ Seen' = {} /\ UNCHANGED file
      BY <1>0, <1>1, FreshStart
    <2>2. \A a \in Adapter : file[p].entries[a].adapterId = a
      BY <1>1 DEF ScopeInv, Load
    <2>3. QED BY <2>1, <2>2 DEF ScopeInv
  <1>2. ASSUME NEW o \in OpId, NEW a \in Adapter, NEW at \in Time, Operate(o, a, at)
        PROVE  ScopeInv'
    <2>1. PICK action \in Action, dated \in Entry, op \in Operation :
            /\ pc = "applying" /\ UNCHANGED <<file, pc, base, output>>
            /\ op.adapterId = a /\ op.pre_entry = entries[a]
            /\ entries' = [entries EXCEPT ![a] = dated]
            /\ history[o] = None
            /\ history' = [history EXCEPT ![o] = op]
            /\ \/ dated.adapterId = entries[a].adapterId
               \/ \E target \in Seen :
                    /\ history[target].adapterId = a
                    /\ dated.adapterId = history[target].pre_entry.adapterId
      BY <1>0, <1>2, Operated
    <2>2. /\ history'[o] = op
          /\ \A q \in OpId \ {o} : history'[q] = history[q]
          /\ o \notin Seen
          /\ Seen' = Seen \cup {o}
      BY <1>0, <2>1, HistoryGrows
    <2>3. Seen \subseteq OpId BY DEF Seen
    <2>4. entries \in [Adapter -> Entry] BY <1>0, <2>1 DEF TypeOK
    <2>5. dated.adapterId = a
      BY <2>1 DEF ScopeInv
    <2>6. \A b \in Adapter : entries'[b].adapterId = b
      BY <2>1, <2>4, <2>5 DEF ScopeInv
    <2>7. \A q \in Seen' : history'[q].pre_entry.adapterId = history'[q].adapterId
      <3> SUFFICES ASSUME NEW q \in Seen'
                   PROVE  history'[q].pre_entry.adapterId = history'[q].adapterId
        OBVIOUS
      <3>1. CASE q = o BY <2>1, <2>2, <3>1 DEF ScopeInv
      <3>2. CASE q # o
        <4>1. q \in Seen /\ history'[q] = history[q] BY <2>2, <2>3, <3>2
        <4>2. QED BY <4>1 DEF ScopeInv
      <3>3. QED BY <3>1, <3>2
    <2>8. Named' = Named \cup {a}
      BY <2>1, <2>2, <2>3 DEF Named
    <2>9. \A b \in Adapter \ Named' : entries'[b] = base[b]
      BY <2>1, <2>4, <2>8 DEF ScopeInv
    <2>10. QED BY <2>1, <2>6, <2>7, <2>9 DEF ScopeInv
  <1>3. ASSUME Exit,
               \A p \in Path : file'[p] \notin {None, Torn} =>
                 \A a \in Adapter : file'[p].entries[a].adapterId = a
        PROVE  ScopeInv'
    BY <1>3, NothingLeft DEF ScopeInv
  <1>4. CASE WriteResult
    <2>1. Exit /\ file' = [file EXCEPT ![output] = Written] /\ pc = "writing"
      BY <1>4 DEF WriteResult
    <2>2. \A a \in Adapter : Written.entries[a].adapterId = a
      BY <2>1 DEF ScopeInv, Written
    <2>3. \A p \in Path : file'[p] = Written \/ file'[p] = file[p]
      BY <1>0, <2>1 DEF TypeOK
    <2>4. QED BY <1>3, <2>1, <2>2, <2>3 DEF ScopeInv
  <1>5. CASE Abort \/ PrintResult \/ Die
    BY <1>3, <1>5 DEF Abort, PrintResult, Die, ScopeInv
  <1>6. ASSUME NEW p \in Path, OpenOutput(p) PROVE ScopeInv'
    <2>1. Seen' = Seen /\ Named' = Named BY <1>6 DEF OpenOutput, Seen, Named
    <2>2. \A q \in Path : file'[q] = Torn \/ file'[q] = file[q]
      BY <1>0, <1>6 DEF OpenOutput, TypeOK
    <2>3. QED BY <1>6, <2>1, <2>2 DEF OpenOutput, ScopeInv
  <1>7. CASE Finish \/ UNCHANGED vars
    <2>1. /\ UNCHANGED <<file, base, entries, history>>
          /\ pc # "idle" \/ pc' = pc
      BY <1>7 DEF Finish, run, vars
    <2>2. Seen' = Seen /\ Named' = Named BY <2>1 DEF Seen, Named
    <2>3. QED BY <2>1, <2>2 DEF ScopeInv
  <1>8. QED BY <1>1, <1>2, <1>4, <1>5, <1>6, <1>7 DEF Next

(* ScopeKept: a request changes only the entries of the adapters it names, *)
(* and no ROLLBACK puts one adapter's entry into another's place.          *)
THEOREM ScopeIsKept == Spec => []ScopeKept
  <1>1. ScopeInv /\ TypeOK' /\ [Next]_vars => ScopeInv'
    BY ScopeStep
  <1>2. ScopeInv => ScopeKept BY DEF ScopeInv, ScopeKept
  <1>3. QED BY <1>1, <1>2, ScopeInitially, TypeCorrect, PTL DEF Spec

-----------------------------------------------------------------------------
(* Every entry of the history and of the copy is the base's or was left by *)
(* an operation on the same adapter.                                       *)
ChainInv ==
  /\ TypeOK
  /\ HistoryChains
  /\ pc # "idle" => \A a \in Adapter \ Named : entries[a] = base[a]

LEMMA ChainStep ==
  ASSUME ChainInv, TypeOK', [Next]_vars
  PROVE  ChainInv'
  <1>0. TypeOK BY DEF ChainInv
  <1>1. ASSUME NEW p \in Path, Load(p) PROVE ChainInv'
    <2>1. entries' = base' /\ Seen' = {} /\ Named' = {}
      BY <1>0, <1>1, FreshStart
    <2>2. QED BY <2>1 DEF ChainInv, HistoryChains
  <1>2. ASSUME NEW o \in OpId, NEW a \in Adapter, NEW at \in Time, Operate(o, a, at)
        PROVE  ChainInv'
    <2>1. PICK action \in Action, dated \in Entry, op \in Operation :
            /\ pc = "applying" /\ UNCHANGED <<file, pc, base, output>>
            /\ op.adapterId = a /\ op.pre_entry = entries[a] /\ op.post_entry = dated
            /\ entries' = [entries EXCEPT ![a] = dated]
            /\ history[o] = None
            /\ history' = [history EXCEPT ![o] = op]
      BY <1>0, <1>2, Operated
    <2>2. /\ history'[o] = op
          /\ \A q \in OpId \ {o} : history'[q] = history[q]
          /\ o \notin Seen
          /\ Seen' = Seen \cup {o}
      BY <1>0, <2>1, HistoryGrows
    <2>3. Seen \subseteq OpId BY DEF Seen
    <2>4. \A q \in Seen : history'[q] = history[q] /\ q # o
      BY <2>2, <2>3
    <2>5. Named' = Named \cup {a}
      BY <2>1, <2>2, <2>3 DEF Named
    <2>6. entries \in [Adapter -> Entry] BY <1>0, <2>1 DEF TypeOK
    <2>7. \A b \in Adapter \ Named' : entries'[b] = base[b]
      BY <2>1, <2>5, <2>6 DEF ChainInv
    <2>8. ASSUME NEW b \in Named'
          PROVE  \E q \in Seen' : history'[q].adapterId = b
                                   /\ history'[q].post_entry = entries'[b]
      <3>1. CASE b = a BY <2>1, <2>2, <2>6, <3>1
      <3>2. CASE b # a
        <4>1. b \in Named BY <2>5, <3>2
        <4>2. PICK q \in Seen : history[q].adapterId = b /\ history[q].post_entry = entries[b]
          BY <2>1, <4>1 DEF ChainInv, HistoryChains
        <4>3. entries'[b] = entries[b] BY <2>1, <3>2
        <4>4. QED BY <2>2, <2>4, <4>2, <4>3
      <3>3. QED BY <3>1, <3>2
    <2>9. ASSUME NEW q \in Seen'
          PROVE  \/ history'[q].pre_entry = base[history'[q].adapterId]
                 \/ \E r \in Seen' \ {q} :
                      /\ history'[r].adapterId = history'[q].adapterId
                      /\ history'[r].post_entry = history'[q].pre_entry
      <3>1. CASE q = o
        <4>1. CASE a \notin Named BY <2>1, <2>2, <3>1, <4>1 DEF ChainInv
        <4>2. CASE a \in Named
          <5>1. PICK r \in Seen : history[r].adapterId = a /\ history[r].post_entry = entries[a]
            BY <2>1, <4>2 DEF ChainInv, HistoryChains
          <5>2. r \in Seen' \ {q} /\ history'[r] = history[r] BY <2>2, <2>4, <3>1
          <5>3. QED BY <2>1, <2>2, <3>1, <5>1, <5>2
        <4>3. QED BY <4>1, <4>2
      <3>2. CASE q # o
        <4>1. q \in Seen /\ history'[q] = history[q] BY <2>2, <2>4, <3>2
        <4>2. CASE history[q].pre_entry = base[history[q].adapterId]
          BY <4>1, <4>2
        <4>3. CASE history[q].pre_entry # base[history[q].adapterId]
          <5>1. PICK r \in Seen \ {q} : /\ history[r].adapterId = history[q].adapterId
                                        /\ history[r].post_entry = history[q].pre_entry
            BY <2>1, <4>1, <4>3 DEF ChainInv, HistoryChains
          <5>2. r \in Seen' \ {q} /\ history'[r] = history[r] BY <2>2, <2>4, <5>1
          <5>3. QED BY <4>1, <5>1, <5>2
        <4>4. QED BY <4>2, <4>3
      <3>3. QED BY <3>1, <3>2
    <2>10. HistoryChains'
      BY <2>1, <2>8, <2>9 DEF HistoryChains
    <2>11. QED BY <2>1, <2>7, <2>10 DEF ChainInv
  <1>3. ASSUME Exit PROVE ChainInv'
    BY <1>3, NothingLeft DEF ChainInv, HistoryChains
  <1>4. ASSUME UNCHANGED <<base, entries, history, latest>>, (pc = "idle") <=> (pc' = "idle")
        PROVE  ChainInv'
    <2>1. Seen' = Seen /\ Named' = Named BY <1>4 DEF Seen, Named
    <2>2. HistoryChains' BY <1>4, <2>1 DEF ChainInv, HistoryChains
    <2>3. QED BY <1>4, <2>1, <2>2 DEF ChainInv
  <1>5. QED BY <1>0, <1>1, <1>2, <1>3, <1>4, QuietSteps

(* HistoryChains: what the history records is a chain of the states each   *)
(* entry has gone through, from the base registry to the result.           *)
THEOREM HistoryIsTrue == Spec => []HistoryChains
  <1>1. Init => ChainInv
    <2>1. Init => DatedInv BY DatedInitially
    <2>2. Init => pc = "idle" BY DEF Init
    <2>3. QED BY <2>1, <2>2 DEF ChainInv, HistoryChains, DatedInv
  <1>2. ChainInv /\ TypeOK' /\ [Next]_vars => ChainInv'
    BY ChainStep
  <1>3. ChainInv => HistoryChains BY DEF ChainInv
  <1>4. QED BY <1>1, <1>2, <1>3, TypeCorrect, PTL DEF Spec

-----------------------------------------------------------------------------
(* Implementation of RegistryOps: each step of a run is, in status and     *)
(* tier, a step of the pre-merge check or none.                            *)

LEMMA StandingTyped ==
  ASSUME NEW e \in Entry
  PROVE  StandingOf(e) \in Standing
  BY DEF Entry, StandingOf, Standing

LEMMA SummaryIsNotNone ==
  ASSUME NEW op \in Operation
  PROVE  SummaryOf(op) # None
  <1>1. /\ op.adapterId \in Adapter /\ op.action \in Action
        /\ op.pre_entry \in Entry
    BY DEF Operation
  <1>2. StandingOf(op.pre_entry) \in Standing BY <1>1, StandingTyped
  <1>3. SummaryOf(op) \in [adapterId : Adapter, action : Action, pre : Standing]
    BY <1>1, <1>2 DEF SummaryOf
  <1>4. QED BY <1>3, RegistryAssumption

LEMMA ApplyReplays ==
  ASSUME TypeOK, pc = "applying",
         NEW o \in OpId, NEW a \in Adapter, NEW at \in Time, NEW action \in Action,
         NEW e \in Entry, Apply(o, a, at, action, e)
  PROVE  /\ PhaseBar = "checking"
         /\ Check!Replay(o, a, action, StandingOf(e))
  <1>1. PICK dated \in Entry :
          /\ dated.status = e.status
          /\ dated.certificationTier = e.certificationTier
          /\ entries' = [entries EXCEPT ![a] = dated]
          /\ history' = [history EXCEPT ![o] =
               [adapterId |-> a, action |-> action,
                pre_entry |-> entries[a], post_entry |-> dated]]
          /\ history[o] = None
          /\ UNCHANGED pc
    BY ApplyEffect
  <1> DEFINE op == [adapterId |-> a, action |-> action,
                    pre_entry |-> entries[a], post_entry |-> dated]
  <1>2. entries \in [Adapter -> Entry] BY DEF TypeOK
  <1>3. op \in Operation BY <1>2 DEF Operation
  <1>4. /\ history'[o] = op
        /\ \A q \in OpId \ {o} : history'[q] = history[q]
    BY <1>1, <1>3, HistoryGrows
  <1>5. op # None BY <1>3, RegistryAssumption
  <1>6. StandingOf(dated) = StandingOf(e) BY <1>1 DEF StandingOf
  <1>7. PhaseBar = "checking" /\ PhaseBar' = PhaseBar
    BY <1>1 DEF PhaseBar
  <1>8. StateBar' = [StateBar EXCEPT ![a] = StandingOf(e)]
    <2>1. \A b \in Adapter : StateBar'[b] = IF b = a THEN StandingOf(e) ELSE StateBar[b]
      BY <1>1, <1>2, <1>6 DEF StateBar
    <2>2. QED BY <2>1 DEF StateBar
  <1>9. SummaryOf(op) = [adapterId |-> a, action |-> action, pre |-> StateBar[a]]
    BY DEF SummaryOf, StateBar
  <1>10. HistoryBar' = [HistoryBar EXCEPT ![o] = SummaryOf(op)]
    <2> HIDE DEF op
    <2>1. \A q \in OpId : HistoryBar'[q] = IF q = o THEN SummaryOf(op) ELSE HistoryBar[q]
      BY <1>4, <1>5 DEF HistoryBar
    <2>2. QED BY <2>1 DEF HistoryBar
  <1>11. HistoryBar[o] = None BY <1>1 DEF HistoryBar
  <1>12. QED BY <1>7, <1>8, <1>9, <1>10, <1>11 DEF Check!Replay

LEMMA OperationChecks ==
  ASSUME TypeOK, NEW o \in OpId, NEW a \in Adapter, NEW at \in Time,
         Operate(o, a, at)
  PROVE  \/ Check!CheckUpsert(o, a) \/ Check!CheckSuspend(o, a)
         \/ Check!CheckRevoke(o, a) \/ Check!CheckRollback(o, a)
  <1>1. pc = "applying" BY OperationCases
  <1>2. entries[a] \in Entry BY <1>1 DEF TypeOK
  <1>3. {"UPSERT", "SUSPEND", "REVOKE", "ROLLBACK"} \subseteq Action
    BY DEF Action
  <1>4. /\ PhaseBar = "checking" /\ StateBar[a] = StandingOf(entries[a])
        /\ StandingOf(entries[a]).status = entries[a].status
    BY <1>1 DEF PhaseBar, StateBar, StandingOf
  <1>5. CASE Upsert(o, a, at)
    <2>1. PICK s \in Status, t \in Tier :
            Apply(o, a, at, "UPSERT", [entries[a] EXCEPT !.status = s, !.certificationTier = t])
      BY <1>5 DEF Upsert
    <2> DEFINE e == [entries[a] EXCEPT !.status = s, !.certificationTier = t]
    <2>2. e \in Entry BY <1>2 DEF Entry
    <2> HIDE DEF e
    <2>3. Check!Replay(o, a, "UPSERT", StandingOf(e))
      BY <1>1, <1>3, <2>1, <2>2, ApplyReplays DEF e
    <2>4. StandingOf(e) \in Check!Standing
      BY <2>2, StandingTyped DEF Standing, Status, Check!Standing, Check!Status
    <2>5. QED BY <1>4, <2>3, <2>4 DEF Check!CheckUpsert
  <1>6. CASE Suspend(o, a, at)
    <2> DEFINE e == [entries[a] EXCEPT !.status = "Suspended"]
    <2>1. entries[a].status = "Active" /\ Apply(o, a, at, "SUSPEND", e)
      BY <1>6 DEF Suspend
    <2>2. e \in Entry BY <1>2 DEF Entry, Status
    <2>3. StandingOf(e) = [StandingOf(entries[a]) EXCEPT !.status = "Suspended"]
      BY <1>2 DEF StandingOf, Entry
    <2> HIDE DEF e
    <2>4. Check!Replay(o, a, "SUSPEND", StandingOf(e))
      BY <1>1, <1>3, <2>1, <2>2, ApplyReplays
    <2>5. QED BY <1>4, <2>1, <2>3, <2>4 DEF Check!CheckSuspend
  <1>7. CASE Revoke(o, a, at)
    <2> DEFINE e == [entries[a] EXCEPT !.status = "Revoked"]
    <2>1. /\ entries[a].status \in {"Active", "Suspended"}
          /\ Apply(o, a, at, "REVOKE", e)
      BY <1>7 DEF Revoke
    <2>2. e \in Entry BY <1>2 DEF Entry, Status
    <2>3. StandingOf(e) = [StandingOf(entries[a]) EXCEPT !.status = "Revoked"]
      BY <1>2 DEF StandingOf, Entry
    <2> HIDE DEF e
    <2>4. Check!Replay(o, a, "REVOKE", StandingOf(e))
      BY <1>1, <1>3, <2>1, <2>2, ApplyReplays
    <2>5. QED BY <1>4, <2>1, <2>3, <2>4 DEF Check!CheckRevoke
  <1>8. CASE Rollback(o, a, at)
    <2>1. PICK target \in Seen :
            /\ history[target].adapterId = a
            /\ Apply(o, a, at, "ROLLBACK", history[target].pre_entry)
      BY <1>8 DEF Rollback
    <2>2. target \in OpId /\ history[target] \in Operation /\ history[target] # None
      BY <2>1 DEF Seen, TypeOK
    <2>3. history[target].pre_entry \in Entry BY <2>2 DEF Operation
    <2>4. Check!Replay(o, a, "ROLLBACK", StandingOf(history[target].pre_entry))
      BY <1>1, <1>3, <2>1, <2>3, ApplyReplays
    <2>5. HistoryBar[target] = SummaryOf(history[target]) /\ HistoryBar[target] # None
      BY <2>2, SummaryIsNotNone DEF HistoryBar
    <2>6. /\ HistoryBar[target].adapterId = a
          /\ HistoryBar[target].pre = StandingOf(history[target].pre_entry)
      BY <2>1, <2>5 DEF SummaryOf
    <2>7. QED BY <1>4, <2>2, <2>4, <2>5, <2>6 DEF Check!CheckRollback
  <1>9. QED BY <1>5, <1>6, <1>7, <1>8 DEF Operate

LEMMA ExitFails ==
  ASSUME pc # "idle", Exit
  PROVE  Check!Fail
  <1>1. PhaseBar # "idle" BY DEF PhaseBar
  <1>2. PhaseBar' = "idle" BY DEF PhaseBar, Exit
  <1>3. StateBar' = Check!NoStandings BY DEF StateBar, Exit, Check!NoStandings
  <1>4. HistoryBar' = Check!NoHistory BY DEF HistoryBar, Exit, NoHistory, Check!NoHistory
  <1>5. QED BY <1>1, <1>2, <1>3, <1>4 DEF Check!Fail

(* RefinesCheck: what is applied has status and tier as the check of       *)
(* tests/run_registry_ops_artifacts.py computed them before the merge.     *)
THEOREM ImplementsCheck == Spec => RefinesCheck
  <1>1. Init => Check!OpsInit
    BY DEF Init, Check!OpsInit, Check!NoStandings, Check!NoHistory, NoHistory,
           PhaseBar, StateBar, HistoryBar
  <1>2. DatedInv /\ [Next]_vars => [Check!OpsNext]_(Check!opsVars)
    <2> SUFFICES ASSUME DatedInv, [Next]_vars
                 PROVE  Check!OpsNext \/ UNCHANGED <<PhaseBar, StateBar, HistoryBar>>
      BY DEF Check!opsVars
    <2>0. TypeOK BY DEF DatedInv
    <2>1. ASSUME NEW p \in Path, Load(p) PROVE Check!OpsNext
      <3>1. /\ pc = "idle" /\ pc' = "applying" /\ entries' \in [Adapter -> Entry]
            /\ UNCHANGED history
        BY <2>0, <2>1, FreshStart DEF Load, Registry
      <3>2. PhaseBar = "idle" /\ PhaseBar' = "checking" BY <3>1 DEF PhaseBar
      <3>3. UNCHANGED HistoryBar BY <3>1 DEF HistoryBar
      <3>4. \A a \in Adapter : StandingOf(entries'[a]) \in Check!Standing
        BY <3>1, StandingTyped DEF Standing, Status, Check!Standing, Check!Status
      <3>5. StateBar' = [a \in Adapter |-> StandingOf(entries'[a])]
        BY <3>1 DEF StateBar
      <3>6. StateBar' \in [Adapter -> Check!Standing] BY <3>4, <3>5
      <3>7. QED BY <3>2, <3>3, <3>6 DEF Check!Load, Check!OpsNext
    <2>2. ASSUME NEW o \in OpId, NEW a \in Adapter, NEW at \in Time, Operate(o, a, at)
          PROVE  Check!OpsNext
      BY <2>0, <2>2, OperationChecks DEF Check!OpsNext
    <2>3. CASE Finish
      <3>1. /\ pc = "applying" /\ pc' = "applied" /\ UNCHANGED <<entries, history>>
        BY <2>3 DEF Finish, run
      <3>2. PhaseBar = "checking" /\ PhaseBar' = "passed" BY <3>1 DEF PhaseBar
      <3>3. UNCHANGED <<StateBar, HistoryBar>> BY <3>1 DEF StateBar, HistoryBar
      <3>4. PICK o \in Seen : TRUE BY <2>3 DEF Finish
      <3>5. o \in OpId /\ history[o] \in Operation /\ history[o] # None
        BY <2>0, <3>4 DEF Seen, TypeOK
      <3>6. HistoryBar[o] # None BY <3>5, SummaryIsNotNone DEF HistoryBar
      <3>7. HistoryBar # Check!NoHistory BY <3>5, <3>6 DEF Check!NoHistory
      <3>8. QED BY <3>2, <3>3, <3>7 DEF Check!Pass, Check!OpsNext
    <2>4. CASE Abort \/ PrintResult \/ WriteResult \/ Die
      <3>1. pc # "idle" /\ Exit
        BY <2>4 DEF Abort, PrintResult, WriteResult, Die
      <3>2. QED BY <3>1, ExitFails DEF Check!OpsNext
    <2>5. ASSUME NEW p \in Path, OpenOutput(p)
          PROVE  UNCHANGED <<PhaseBar, StateBar, HistoryBar>>
      BY <2>5 DEF OpenOutput, PhaseBar, StateBar, HistoryBar
    <2>6. CASE UNCHANGED vars
      BY <2>6 DEF vars, run, PhaseBar, StateBar, HistoryBar
    <2>7. QED BY <2>1, <2>2, <2>3, <2>4, <2>5, <2>6 DEF Next
  <1>3. QED BY <1>1, <1>2, DatedAlways, PTL DEF Spec, RefinesCheck, Check!OpsSpec
=============================================================================
