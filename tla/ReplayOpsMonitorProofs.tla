------------------------ MODULE ReplayOpsMonitorProofs ------------------------
(***************************************************************************)
(* Proofs about ReplayOpsMonitor, for any number of evaluations at a time, *)
(* any snapshots, thresholds, times and rounding.                          *)
(***************************************************************************)
EXTENDS ReplayOpsMonitor, TLAPS

-----------------------------------------------------------------------------
(* The inductive invariant.                                                *)

Content == {Absent, Torn} \cup StateRecord
Whole == 2 * Required

Held(p) == p \notin {Absent, Torn} /\ p.effective # "ok"
Lifted(p) == p # Torn /\ Effective(p) = "ok"

(* No report but "ok" is shown or about to be printed.                     *)
AllOk == shown = "ok" /\ \A e \in Evaluator : pc[e] = "print" => result[e] = "ok"

(* The time an alert has been held is a whole number of rounded parts and  *)
(* at most half a part over what would have lifted it.                     *)
Short(p) ==
  /\ \E k \in Nat : Stable(p) = k * Grain
  /\ Stable(p) <= Required + MaxWindow + Grain
  /\ Held(p) => 2 * Stable(p) <= Whole + Grain

(* What the clean samples since the last one that was not are worth, seen  *)
(* from a state file that no overlapping evaluation has disturbed: they    *)
(* cover the time held by the file, which covers what is certain of them.  *)
Accounted(p) ==
  /\ Held(p) => 2 * Stable(p) <= most \/ most = Whole
  /\ Held(p) /\ Required > 0 => least <= 2 * Stable(p) /\ least < Whole
  /\ Lifted(p) => most = Whole \/ AllOk

Typed ==
  /\ file \in Content
  /\ pc \in [Evaluator -> {"idle", "apply", "write", "print"}]
  /\ sample \in [Evaluator -> Snapshot]
  /\ prior \in [Evaluator -> Content]
  /\ result \in [Evaluator -> Status]
  /\ shown \in Status
  /\ alone \in [Evaluator -> BOOLEAN]
  /\ least \in 0 .. Whole /\ most \in 0 .. Whole

(* An evaluation answers what it read; by itself, it read what is in the   *)
(* file, until it empties it.                                              *)
UnderWay ==
  \A e \in Evaluator :
    /\ pc[e] # "idle" /\ alone[e] => Others(e) = {}
    /\ pc[e] \in {"apply", "write"} =>
         /\ result[e] = NextStatus(prior[e], sample[e])
         /\ Short(prior[e])
         /\ alone[e] => Accounted(prior[e])

IInv ==
  /\ Typed
  /\ Short(file)
  /\ Accounted(file)
  /\ UnderWay
  /\ \A e \in Evaluator : pc[e] = "print" /\ result[e] = "ok" => most = Whole \/ AllOk
-----------------------------------------------------------------------------
(* Rounding.                                                               *)

(* What is rounded becomes a whole number of parts, at most half a part    *)
(* away.                                                                   *)
LEMMA RoundedNear ==
  ASSUME NEW x \in Nat, NEW y \in Rounded(x)
  PROVE  /\ y \in Nat /\ 2 * y <= 2 * x + Grain /\ 2 * x <= 2 * y + Grain
         /\ \E k \in Nat : y = k * Grain
  <1> DEFINE q == x \div Grain
  <1>1. Grain \in Nat /\ Grain > 0
    BY MonitorAssumption
  <1>2. q \in Nat
    BY <1>1
  <1>3. /\ y = q * Grain \/ y = q * Grain + Grain
        /\ 2 * (x - y) <= Grain /\ 2 * (y - x) <= Grain
    BY DEF Rounded
  <1>4. q * Grain \in Nat /\ q * Grain + Grain = (q + 1) * Grain
    BY <1>1, <1>2
  <1>5. \E k \in Nat : y = k * Grain
    BY <1>2, <1>3, <1>4
  <1>6. QED BY <1>1, <1>3, <1>4, <1>5

(* A whole number of parts that is reached is not lost by rounding.        *)
LEMMA RoundedKeeps ==
  ASSUME NEW k \in Nat, NEW x \in Nat, k * Grain <= x, NEW y \in Rounded(x)
  PROVE  k * Grain <= y
  <1> DEFINE q == x \div Grain
  <1>1. Grain \in Nat /\ Grain > 0
    BY MonitorAssumption
  <1>2. q \in Nat /\ q * Grain <= x /\ x < q * Grain + Grain
    BY <1>1
  <1>3. y = q * Grain \/ y = q * Grain + Grain
    BY DEF Rounded
  <1>4. k <= q
    <2>1. SUFFICES ASSUME k >= q + 1 PROVE FALSE
      BY <1>2
    <2>2. k * Grain >= (q + 1) * Grain
      BY <1>1, <1>2, <2>1
    <2>3. QED BY <1>1, <1>2, <2>2
  <1>5. k * Grain <= q * Grain
    BY <1>1, <1>2, <1>4
  <1>6. QED BY <1>1, <1>2, <1>3, <1>5

LEMMA RoundedZero ==
  ASSUME NEW y \in Rounded(0)
  PROVE  y = 0
  <1>1. PICK k \in Nat : y = k * Grain
    BY RoundedNear
  <1>2. 2 * y <= Grain /\ Grain \in Nat /\ Grain > 0
    BY RoundedNear, MonitorAssumption
  <1>3. k >= 1 => k * Grain >= Grain
    BY <1>2
  <1>4. QED BY <1>1, <1>2, <1>3
-----------------------------------------------------------------------------
(* One decision.                                                           *)

Clean(p, s) == p # Torn /\ ~WindowInvalid(s) /\ Raw(s) = "ok"

LEMMA FileShape ==
  ASSUME NEW p \in Content
  PROVE  /\ Absent # Torn /\ Stable(p) \in Nat /\ Effective(p) \in Status
         /\ p \notin {Absent, Torn} => p \in StateRecord
         /\ p \in StateRecord => /\ p \notin {Absent, Torn}
                                 /\ Stable(p) = p.stable /\ Effective(p) = p.effective
         /\ Held(p) \/ Lifted(p) \/ p = Torn
         /\ ~(Held(p) /\ Lifted(p))
         /\ Held(p) \/ p = Torn <=> Effective(p) # "ok"
  BY FileAssumption DEF Content, StateRecord, Stable, Effective, Status, Held, Lifted

(* A sample that is not clean ends with an alert and no time held; a clean *)
(* one adds its window to the time an alert has been held, and lifts it    *)
(* when that covers what is required.                                      *)
LEMMA Decision ==
  ASSUME NEW p \in Content, NEW s \in Snapshot, Short(p)
  PROVE  LET st == NextStable(p, s)
             r == NextStatus(p, s)
         IN
         /\ st \in Nat /\ r \in Status
         /\ ~Clean(p, s) => st = 0 /\ r # "ok"
         /\ Clean(p, s) => s.window \in 1 .. MaxWindow
         /\ Clean(p, s) /\ Held(p) => /\ st = Stable(p) + s.window
                                      /\ r = IF st < Required THEN p.effective ELSE "ok"
         /\ Clean(p, s) /\ Lifted(p) => r = "ok" /\ st <= Required
         /\ 2 * st <= Whole + Grain + 2 * MaxWindow
  <1>1. /\ Required \in Nat /\ MaxWindow \in Nat /\ Grain \in Nat /\ Grain > 0
        /\ s.window \in Int \cup {Invalid}
    BY MonitorAssumption
  <1>2. ~WindowInvalid(s) => s.window \in 1 .. MaxWindow
    BY <1>1 DEF WindowInvalid
  <1>3. Raw(s) \in Status
    BY DEF Raw, Status
  <1>4. CASE ~Clean(p, s)
    <2>1. NextStable(p, s) = 0
      BY <1>4 DEF Clean, NextStable
    <2>2. NextStatus(p, s) \in Status \ {"ok"}
      BY <1>3, <1>4, FileShape DEF Clean, NextStatus, Status
    <2>3. QED BY <1>1, <1>4, <2>1, <2>2 DEF Whole
  <1>5. CASE Clean(p, s) /\ Held(p)
    <2>1. /\ Effective(p) = p.effective /\ Stable(p) \in Nat /\ p.effective \in Status
          /\ Effective(p) # "ok" /\ ~Lifted(p)
      BY <1>5, FileShape DEF Held
    <2>2. NextStable(p, s) = Stable(p) + s.window
      BY <1>5, <2>1 DEF Clean, NextStable
    <2>3. NextStatus(p, s) = IF NextStable(p, s) < Required THEN p.effective ELSE "ok"
      BY <1>5, <2>1 DEF Clean, NextStatus
    <2>4. 2 * Stable(p) <= Whole + Grain
      BY <1>5 DEF Short
    <2>5. 2 * (Stable(p) + s.window) <= Whole + Grain + 2 * MaxWindow
      BY <1>1, <1>2, <1>5, <2>1, <2>4 DEF Clean, Whole
    <2>6. QED BY <1>1, <1>2, <1>5, <2>1, <2>2, <2>3, <2>5 DEF Clean, Status
  <1>6. CASE Clean(p, s) /\ Lifted(p)
    <2>1. Effective(p) = "ok" /\ Stable(p) \in Nat /\ ~Held(p)
      BY <1>6, FileShape DEF Lifted
    <2>2. NextStable(p, s) = Smaller(Required, Larger(Stable(p), s.window))
      BY <1>6, <2>1 DEF Clean, NextStable
    <2>3. NextStable(p, s) \in Nat /\ NextStable(p, s) <= Required
      BY <1>1, <1>2, <1>6, <2>1, <2>2 DEF Clean, Smaller, Larger
    <2>4. NextStatus(p, s) = "ok"
      BY <1>6, <2>1 DEF Clean, NextStatus
    <2>5. QED BY <1>1, <1>2, <1>6, <2>1, <2>3, <2>4 DEF Clean, Whole, Status
  <1>7. QED BY <1>4, <1>5, <1>6, FileShape DEF Clean

(* What a decision writes is well formed and short, whichever way it is    *)
(* rounded.                                                                *)
LEMMA WrittenIsShort ==
  ASSUME NEW p \in Content, NEW s \in Snapshot, Short(p),
         NEW y \in Rounded(NextStable(p, s))
  PROVE  LET w == [effective |-> NextStatus(p, s), stable |-> y]
         IN  w \in StateRecord /\ Short(w)
  <1> DEFINE st == NextStable(p, s)
             w == [effective |-> NextStatus(p, s), stable |-> y]
  <1>1. /\ Required \in Nat /\ MaxWindow \in Nat /\ Grain \in Nat /\ Grain > 0
    BY MonitorAssumption
  <1>2. /\ st \in Nat /\ NextStatus(p, s) \in Status
        /\ 2 * st <= Whole + Grain + 2 * MaxWindow
        /\ NextStatus(p, s) # "ok" => st < Required \/ st = 0
    <2>1. /\ st \in Nat /\ NextStatus(p, s) \in Status
          /\ 2 * st <= Whole + Grain + 2 * MaxWindow
      BY Decision
    <2>2. CASE ~Clean(p, s)
      BY <2>1, <2>2, Decision
    <2>3. CASE Clean(p, s) /\ Held(p)
      BY <1>1, <2>1, <2>3, Decision
    <2>4. CASE Clean(p, s) /\ Lifted(p)
      BY <2>1, <2>4, Decision
    <2>5. QED BY <2>1, <2>2, <2>3, <2>4, FileShape DEF Clean
  <1>3. /\ y \in Nat /\ 2 * y <= 2 * st + Grain /\ \E k \in Nat : y = k * Grain
    BY <1>2, RoundedNear
  <1>4. w \in StateRecord
    BY <1>2, <1>3 DEF StateRecord
  <1>5. Stable(w) = y /\ w.effective = NextStatus(p, s)
    BY <1>4, FileShape DEF Content
  <1>6. y <= Required + MaxWindow + Grain
    BY <1>1, <1>2, <1>3 DEF Whole
  <1>7. NextStatus(p, s) # "ok" => 2 * y <= Whole + Grain
    BY <1>1, <1>2, <1>3 DEF Whole
  <1>8. QED BY <1>3, <1>4, <1>5, <1>6, <1>7 DEF Short, Held
-----------------------------------------------------------------------------
(* The steps.                                                              *)

LEMMA InitHolds == Init => IInv
  <1> SUFFICES ASSUME Init PROVE IInv
    OBVIOUS
  <1>1. /\ Required \in Nat /\ MaxWindow \in Nat /\ Grain \in Nat /\ Grain > 0
        /\ AnySample \in Snapshot
    BY MonitorAssumption DEF AnySample
  <1>2. Absent \in Content /\ Stable(Absent) = 0 /\ Effective(Absent) = "ok"
    BY DEF Content, Stable, Effective
  <1>3. Typed
    BY <1>1, <1>2 DEF Init, Typed, Status, Whole
  <1>4. Short(file)
    <2>1. 0 = 0 * Grain
      BY <1>1
    <2>2. QED BY <1>1, <1>2, <2>1 DEF Init, Short, Held
  <1>5. AllOk
    BY DEF Init, AllOk
  <1>6. Accounted(file)
    BY <1>5, FileAssumption DEF Init, Accounted, Held
  <1>7. UnderWay
    BY DEF Init, UnderWay
  <1>8. QED BY <1>3, <1>4, <1>5, <1>6, <1>7 DEF Init, IInv

LEMMA StartStep ==
  ASSUME IInv, NEW e \in Evaluator, NEW s \in Snapshot, Start(e, s)
  PROVE  IInv'
  <1> USE DEF IInv
  <1>1. Typed'
    <2>1. NextStatus(file, s) \in Status
      BY Decision DEF Typed
    <2>2. QED BY <2>1 DEF Typed, Start
  <1>2. /\ Short(file)' /\ (AllOk => AllOk')
        /\ \A p \in Content : Accounted(p) => Accounted(p)'
    <2>1. AllOk => AllOk'
      BY DEF AllOk, Start, Typed
    <2>2. QED BY <2>1 DEF Start, Short, Accounted
  <1>3. UnderWay'
    <2> SUFFICES ASSUME NEW f \in Evaluator
                 PROVE  /\ pc'[f] # "idle" /\ alone'[f] => Others(f)' = {}
                        /\ pc'[f] \in {"apply", "write"} =>
                             /\ result'[f] = NextStatus(prior'[f], sample'[f])
                             /\ Short(prior[f])'
                             /\ alone'[f] => Accounted(prior[f])'
      BY DEF UnderWay, Short, Stable, Held
    <2>1. CASE f = e
      <3>1. /\ pc'[f] = "apply" /\ prior'[f] = file /\ sample'[f] = s
            /\ result'[f] = NextStatus(file, s) /\ file' = file
            /\ alone'[f] = (Others(f) = {})
        BY <2>1 DEF Start, Typed
      <3>2. Others(f)' = Others(f)
        BY <2>1 DEF Start, Typed, Others
      <3>3. QED BY <1>2, <3>1, <3>2 DEF Typed
    <2>2. CASE f # e
      <3>1. /\ pc'[f] = pc[f] /\ prior'[f] = prior[f] /\ sample'[f] = sample[f]
            /\ result'[f] = result[f]
            /\ alone'[f] = (alone[f] /\ f \notin Others(e))
        BY <2>2 DEF Start, Typed
      <3>2. CASE pc[f] = "idle"
        BY <3>1, <3>2
      <3>3. CASE pc[f] # "idle"
        <4>1. f \in Others(e)
          BY <2>2, <3>3 DEF Others
        <4>2. QED BY <3>1, <4>1 DEF UnderWay
      <3>4. QED BY <3>2, <3>3
    <2>3. QED BY <2>1, <2>2
  <1>4. ASSUME NEW f \in Evaluator, pc'[f] = "print" /\ result'[f] = "ok"
        PROVE  most' = Whole \/ AllOk'
    <2>1. f # e /\ pc[f] = "print" /\ result[f] = "ok" /\ most' = most
      BY <1>4 DEF Start, Typed
    <2>2. QED BY <1>2, <2>1
  <1>5. file' = file /\ file \in Content
    BY DEF Start, Typed
  <1>6. QED BY <1>1, <1>2, <1>3, <1>4, <1>5

LEMMA TruncateStep ==
  ASSUME IInv, NEW e \in Evaluator, Truncate(e)
  PROVE  IInv'
  <1> USE DEF IInv
  <1>1. Typed'
    BY DEF Typed, Truncate, Content
  <1>2. AllOk => AllOk'
    BY DEF AllOk, Truncate, Typed
  <1>3. Short(file)' /\ Accounted(file)'
    <2>1. /\ Required \in Nat /\ MaxWindow \in Nat /\ Grain \in Nat
          /\ file' = Torn /\ Stable(Torn) = 0 /\ 0 = 0 * Grain
      BY MonitorAssumption DEF Truncate, Stable
    <2>2. QED BY <2>1 DEF Short, Accounted, Held, Lifted
  <1>4. UnderWay'
    <2> SUFFICES ASSUME NEW f \in Evaluator
                 PROVE  /\ pc'[f] # "idle" /\ alone'[f] => Others(f)' = {}
                        /\ pc'[f] \in {"apply", "write"} =>
                             /\ result'[f] = NextStatus(prior'[f], sample'[f])
                             /\ Short(prior[f])'
                             /\ alone'[f] => Accounted(prior[f])'
      BY DEF UnderWay, Short, Stable, Held
    <2>1. /\ pc'[f] # "idle" <=> pc[f] # "idle"
          /\ pc'[f] \in {"apply", "write"} <=> pc[f] \in {"apply", "write"}
          /\ prior'[f] = prior[f] /\ sample'[f] = sample[f]
          /\ result'[f] = result[f] /\ alone'[f] = alone[f]
          /\ most' = most /\ least' = least
      BY DEF Truncate, Typed
    <2>2. Others(f)' = Others(f)
      BY DEF Truncate, Typed, Others
    <2>3. Accounted(prior[f]) => Accounted(prior[f])'
      BY <1>2, <2>1 DEF Accounted
    <2>4. QED BY <2>1, <2>2, <2>3 DEF UnderWay
  <1>5. ASSUME NEW f \in Evaluator, pc'[f] = "print" /\ result'[f] = "ok"
        PROVE  most' = Whole \/ AllOk'
    <2>1. pc[f] = "print" /\ result[f] = "ok" /\ most' = most
      BY <1>5 DEF Truncate, Typed
    <2>2. QED BY <1>2, <2>1
  <1>6. QED BY <1>1, <1>3, <1>4, <1>5

(* What an evaluation by itself writes is accounted for.                   *)
LEMMA AloneWrites ==
  ASSUME IInv, NEW e \in Evaluator, pc[e] = "write", alone[e], Credit(e),
         NEW y \in Rounded(NextStable(prior[e], sample[e])),
         file' = [effective |-> result[e], stable |-> y],
         shown' = shown, result' = result, pc' = [pc EXCEPT ![e] = "print"]
  PROVE  /\ Accounted(file)'
         /\ result[e] = "ok" => most' = Whole \/ AllOk'
         /\ least' \in 0 .. Whole /\ most' \in 0 .. Whole
  <1> USE DEF IInv
  <1> DEFINE p == prior[e]
             s == sample[e]
             st == NextStable(p, s)
  <1>1. /\ Required \in Nat /\ MaxWindow \in Nat /\ Grain \in Nat /\ Grain > 0
    BY MonitorAssumption
  <1>2. /\ p \in Content /\ s \in Snapshot /\ result[e] = NextStatus(p, s)
        /\ Short(p) /\ Accounted(p) /\ Others(e) = {}
        /\ least \in 0 .. Whole /\ most \in 0 .. Whole
    BY DEF UnderWay, Typed
  <1>3. /\ file' \in StateRecord /\ Stable(file)' = y /\ file'.effective = result[e]
        /\ Effective(file)' = result[e]
        /\ Held(file)' <=> result[e] # "ok"
        /\ Lifted(file)' <=> result[e] = "ok"
    BY <1>2, WrittenIsShort, FileShape DEF Content, Held, Lifted, Effective, Stable
  <1>4. st \in Nat
    BY <1>2, Decision
  <1>5. y \in Nat /\ 2 * y <= 2 * st + Grain /\ 2 * st <= 2 * y + Grain
    BY <1>4, RoundedNear
  <1>6. CASE ~Clean(p, s)
    <2>1. least' = 0 /\ most' = 0 /\ st = 0 /\ result[e] # "ok"
      BY <1>2, <1>6, Decision DEF Credit, Clean
    <2>2. y = 0
      BY <2>1, RoundedZero
    <2>3. QED BY <1>1, <1>3, <2>1, <2>2 DEF Accounted, Whole
  <1>7. CASE Clean(p, s) /\ Held(p)
    <2>1. /\ st = Stable(p) + s.window /\ s.window \in 1 .. MaxWindow
          /\ result[e] = IF st < Required THEN p.effective ELSE "ok"
      BY <1>2, <1>7, Decision
    <2>2. /\ Stable(p) \in Nat /\ Effective(p) # "ok" /\ p.effective # "ok"
      BY <1>2, <1>7, FileShape DEF Held
    <2>3. /\ least' = Smaller(Whole, least + Larger(0, 2 * s.window - Grain))
          /\ most' = Smaller(Whole, most + 2 * s.window + Grain)
      BY <1>7, <2>2 DEF Credit, Clean, Whole
    <2>4. least' \in 0 .. Whole /\ most' \in 0 .. Whole
      BY <1>1, <1>2, <2>1, <2>3 DEF Smaller, Larger, Whole
    <2>5. 2 * Stable(p) <= most \/ most = Whole
      BY <1>2, <1>7 DEF Accounted
    <2>6. CASE st < Required
      <3>1. result[e] # "ok"
        BY <2>1, <2>2, <2>6
      <3>2. 2 * y <= most' \/ most' = Whole
        BY <1>1, <1>2, <1>5, <2>1, <2>2, <2>3, <2>5 DEF Smaller, Whole
      <3>3. Required > 0 => least <= 2 * Stable(p) /\ least < Whole
        BY <1>2, <1>7 DEF Accounted
      <3>4. Stable(p) <= y
        <4>1. PICK k \in Nat : Stable(p) = k * Grain
          BY <1>2 DEF Short
        <4>2. k * Grain <= st
          BY <2>1, <2>2, <4>1
        <4>3. QED BY <1>4, <4>1, <4>2, RoundedKeeps
      <3>5. Required > 0 => least' <= 2 * y /\ least' < Whole
        BY <1>1, <1>2, <1>5, <2>1, <2>2, <2>3, <2>6, <3>3, <3>4 DEF Smaller, Larger, Whole
      <3>6. QED BY <1>3, <2>4, <3>1, <3>2, <3>5 DEF Accounted
    <2>7. CASE ~(st < Required)
      <3>1. result[e] = "ok"
        BY <2>1, <2>7
      <3>2. most' = Whole
        BY <1>1, <1>2, <2>1, <2>2, <2>3, <2>5, <2>7 DEF Smaller, Whole
      <3>3. QED BY <1>3, <2>4, <3>1, <3>2 DEF Accounted
    <2>8. QED BY <2>6, <2>7
  <1>8. CASE Clean(p, s) /\ Lifted(p)
    <2>1. result[e] = "ok" /\ s.window \in 1 .. MaxWindow
      BY <1>2, <1>8, Decision
    <2>2. /\ least' = 0
          /\ most' = Smaller(Whole, most + 2 * s.window + Grain)
      BY <1>8 DEF Credit, Clean, Lifted, Whole
    <2>3. least' \in 0 .. Whole /\ most' \in 0 .. Whole
      BY <1>1, <1>2, <2>1, <2>2 DEF Smaller, Whole
    <2>4. most = Whole => most' = Whole
      BY <1>1, <2>1, <2>2 DEF Smaller, Whole
    <2>5. AllOk => AllOk'
      BY <2>1 DEF AllOk, Typed
    <2>6. most' = Whole \/ AllOk'
      BY <1>2, <1>8, <2>4, <2>5 DEF Accounted
    <2>7. QED BY <1>3, <2>1, <2>3, <2>6 DEF Accounted
  <1>9. QED BY <1>2, <1>6, <1>7, <1>8, FileShape DEF Clean

LEMMA WriteStep ==
  ASSUME IInv, NEW e \in Evaluator, Write(e)
  PROVE  IInv'
  <1> USE DEF IInv
  <1>1. /\ pc[e] = "write" /\ pc' = [pc EXCEPT ![e] = "print"] /\ Credit(e)
        /\ sample' = [sample EXCEPT ![e] = AnySample]
        /\ prior' = [prior EXCEPT ![e] = Absent]
        /\ result' = result /\ shown' = shown /\ alone' = alone
    BY DEF Write
  <1>2. /\ prior[e] \in Content /\ sample[e] \in Snapshot /\ Short(prior[e])
        /\ result[e] = NextStatus(prior[e], sample[e])
        /\ alone[e] \in BOOLEAN
    BY <1>1 DEF UnderWay, Typed
  <1>3. Required \in Nat /\ MaxWindow \in Nat /\ Grain \in Nat /\ AnySample \in Snapshot
    BY MonitorAssumption DEF AnySample
  <1>4. file' \in Content /\ Short(file)'
    <2>1. CASE ~alone[e] /\ file' = Torn
      <3>1. Stable(Torn) = 0 /\ 0 = 0 * Grain /\ ~Held(Torn)
        BY <1>3 DEF Stable, Held
      <3>2. QED BY <1>3, <2>1, <3>1 DEF Content, Short
    <2>2. ASSUME NEW y \in Rounded(NextStable(prior[e], sample[e])),
                 file' = [effective |-> result[e], stable |-> y]
          PROVE  file' \in Content /\ Short(file)'
      <3>1. file' \in StateRecord /\ Short(file')
        BY <1>2, <2>2, WrittenIsShort
      <3>2. QED BY <3>1 DEF Content, Short, Stable, Held
    <2>3. QED BY <2>1, <2>2 DEF Write
  <1>5. /\ Accounted(file)'
        /\ result[e] = "ok" => most' = Whole \/ AllOk'
        /\ least' \in 0 .. Whole /\ most' \in 0 .. Whole
        /\ ~alone[e] => most' = Whole
    <2>1. CASE alone[e]
      <3>1. PICK y \in Rounded(NextStable(prior[e], sample[e])) :
              file' = [effective |-> result[e], stable |-> y]
        BY <2>1 DEF Write
      <3>2. QED BY <1>1, <2>1, <3>1, AloneWrites
    <2>2. CASE ~alone[e]
      <3>1. least' = 0 /\ most' = Whole
        BY <1>1, <2>2 DEF Credit, Whole
      <3>2. Stable(file)' \in Nat
        BY <1>4, FileShape DEF Stable
      <3>3. QED BY <1>3, <2>2, <3>1, <3>2 DEF Accounted, Whole
    <2>3. QED BY <2>1, <2>2
  <1>6. Typed'
    BY <1>1, <1>3, <1>4, <1>5 DEF Typed, Content
  <1>7. UnderWay'
    <2> SUFFICES ASSUME NEW f \in Evaluator
                 PROVE  /\ pc'[f] # "idle" /\ alone'[f] => Others(f)' = {}
                        /\ pc'[f] \in {"apply", "write"} =>
                             /\ result'[f] = NextStatus(prior'[f], sample'[f])
                             /\ Short(prior[f])'
                             /\ alone'[f] => Accounted(prior[f])'
      BY DEF UnderWay, Short, Stable, Held
    <2>1. pc'[f] # "idle" /\ alone'[f] => Others(f)' = {}
      <3>1. /\ pc'[f] # "idle" <=> pc[f] # "idle"
            /\ Others(f)' = Others(f)
        BY <1>1 DEF Typed, Others
      <3>2. QED BY <1>1, <3>1 DEF UnderWay
    <2>2. ASSUME pc'[f] \in {"apply", "write"}
          PROVE  /\ result'[f] = NextStatus(prior'[f], sample'[f])
                 /\ Short(prior[f])'
                 /\ ~alone'[f]
      <3>1. /\ f # e /\ pc'[f] = pc[f] /\ prior'[f] = prior[f] /\ sample'[f] = sample[f]
        BY <1>1, <2>2 DEF Typed
      <3>2. e \in Others(f)
        BY <1>1, <3>1 DEF Others
      <3>3. QED BY <1>1, <2>2, <3>1, <3>2 DEF UnderWay, Short, Stable, Held
    <2>3. QED BY <2>1, <2>2
  <1>8. ASSUME NEW f \in Evaluator, pc'[f] = "print" /\ result'[f] = "ok"
        PROVE  most' = Whole \/ AllOk'
    <2>1. CASE f = e
      BY <1>1, <1>5, <1>8, <2>1
    <2>2. CASE f # e
      <3>1. pc[f] = "print"
        BY <1>1, <1>8, <2>2 DEF Typed
      <3>2. f \in Others(e)
        BY <2>2, <3>1 DEF Others
      <3>3. QED BY <1>1, <1>5, <3>2 DEF UnderWay
    <2>3. QED BY <2>1, <2>2
  <1>9. QED BY <1>4, <1>5, <1>6, <1>7, <1>8

LEMMA LeaveStep ==
  ASSUME IInv, NEW e \in Evaluator, Report(e) \/ Crash(e)
  PROVE  IInv'
  <1> USE DEF IInv
  <1>1. /\ pc' = [pc EXCEPT ![e] = "idle"]
        /\ result' = [result EXCEPT ![e] = "ok"]
        /\ alone' = [alone EXCEPT ![e] = TRUE]
        /\ file' = file /\ least' = least /\ most' = most
        /\ \/ shown' = result[e] /\ pc[e] = "print" /\ sample' = sample /\ prior' = prior
           \/ /\ shown' = shown
              /\ sample' = [sample EXCEPT ![e] = AnySample]
              /\ prior' = [prior EXCEPT ![e] = Absent]
    BY DEF Report, Crash
  <1>2. AnySample \in Snapshot
    BY MonitorAssumption DEF AnySample
  <1>3. Typed'
    BY <1>1, <1>2 DEF Typed, Status, Content
  <1>4. AllOk => AllOk'
    BY <1>1 DEF AllOk, Typed
  <1>5. /\ Short(file)' /\ (Accounted(file) => Accounted(file)')
        /\ \A p \in Content : Accounted(p) => Accounted(p)'
    BY <1>1, <1>4 DEF Short, Accounted, Held, Lifted, Stable, Effective
  <1>6. UnderWay'
    <2> SUFFICES ASSUME NEW f \in Evaluator, pc'[f] # "idle"
                 PROVE  /\ alone'[f] => Others(f)' = {}
                        /\ pc'[f] \in {"apply", "write"} =>
                             /\ result'[f] = NextStatus(prior'[f], sample'[f])
                             /\ Short(prior[f])'
                             /\ alone'[f] => Accounted(prior[f])'
      BY DEF UnderWay, Short, Stable, Held
    <2>1. /\ f # e /\ pc'[f] = pc[f] /\ alone'[f] = alone[f] /\ result'[f] = result[f]
          /\ prior'[f] = prior[f] /\ sample'[f] = sample[f]
      BY <1>1 DEF Typed
    <2>2. Others(f)' \subseteq Others(f)
      BY <1>1 DEF Typed, Others
    <2>3. Accounted(prior[f]) => Accounted(prior[f])'
      BY <1>1, <1>4, <2>1 DEF Accounted, Held, Lifted, Stable, Effective
    <2>4. QED BY <2>1, <2>2, <2>3 DEF UnderWay, Short, Stable, Held
  <1>7. ASSUME NEW f \in Evaluator, pc'[f] = "print" /\ result'[f] = "ok"
        PROVE  most' = Whole \/ AllOk'
    <2>1. pc[f] = "print" /\ result[f] = "ok"
      BY <1>1, <1>7 DEF Typed
    <2>2. QED BY <1>1, <1>4, <2>1
  <1>8. QED BY <1>3, <1>5, <1>6, <1>7

LEMMA StepHolds == IInv /\ [Next]_vars => IInv'
  <1> SUFFICES ASSUME IInv, [Next]_vars PROVE IInv'
    OBVIOUS
  <1>1. CASE UNCHANGED vars
    BY <1>1 DEF vars, IInv, Typed, Short, Accounted, UnderWay, AllOk, Others,
                Held, Lifted, Stable, Effective
  <1>2. ASSUME NEW e \in Evaluator, NEW s \in Snapshot, Start(e, s) PROVE IInv'
    BY <1>2, StartStep
  <1>3. ASSUME NEW e \in Evaluator, Proceed(e) PROVE IInv'
    BY <1>3, TruncateStep, WriteStep, LeaveStep DEF Proceed
  <1>4. ASSUME NEW e \in Evaluator, Crash(e) PROVE IInv'
    BY <1>4, LeaveStep
  <1>5. QED BY <1>1, <1>2, <1>3, <1>4 DEF Next

(* The inductive invariant holds in every reachable state of the monitor:  *)
(* what the state file and the evaluations under way know of the past is   *)
(* accounted for, however evaluate_replay_ops.py is started and killed.    *)
THEOREM Invariance == Spec => []IInv
  <1>1. QED BY InitHolds, StepHolds, PTL DEF Spec

(* Every reachable state is well typed; the time held in the state file    *)
(* stays within what is required, one more sample and the rounding.        *)
THEOREM TypeCorrect == Spec => []TypeOK
  <1>1. IInv => TypeOK
    BY DEF IInv, Typed, Short, TypeOK, Content, Whole
  <1>2. QED BY <1>1, Invariance, PTL

(* An alert that _apply_clear_conditions lifts, and main prints as lifted, *)
(* was followed by clean samples over the time required, whichever         *)
(* evaluations were killed or tore the state file before. Nothing is said  *)
(* where evaluations have overlapped: one of them may write back what the  *)
(* others have counted anew, and the history counts from the most there is. *)
THEOREM ClearIsEarned == Spec => NoEarlyClear
  <1>1. IInv /\ [Next]_vars => [shown # "ok" /\ shown' = "ok" => most = 2 * Required]_vars
    <2> SUFFICES ASSUME IInv, [Next]_vars, shown # "ok", shown' = "ok"
                 PROVE  most = 2 * Required
      OBVIOUS
    <2>1. PICK e \in Evaluator : Report(e)
      BY DEF Next, vars, Start, Proceed, Truncate, Write, Crash
    <2>2. pc[e] = "print" /\ result[e] = "ok"
      BY <2>1 DEF Report
    <2>3. QED BY <2>2 DEF IInv, AllOk, Whole
  <1>2. QED BY <1>1, Invariance, PTL DEF Spec, NoEarlyClear

(* While the state file holds an alert, the clean time since is short of   *)
(* what _apply_clear_conditions requires.                                  *)
THEOREM WaitIsBounded == Spec => []NotHeldLonger
  <1>1. IInv => NotHeldLonger
    <2> SUFFICES ASSUME IInv, file \notin {Absent, Torn}, Effective(file) # "ok", Required > 0
                 PROVE  least < 2 * Required
      BY DEF NotHeldLonger
    <2>1. Held(file)
      BY FileShape DEF IInv, Typed, Held
    <2>2. QED BY <2>1 DEF IInv, Accounted, Whole
  <1>2. QED BY <1>1, Invariance, PTL
-----------------------------------------------------------------------------
(* Severity.                                                               *)

LEMMA Values ==
  ASSUME NEW s \in Snapshot, NEW k \in Field
  PROVE  Value(s, k) \in Int
  BY MonitorAssumption DEF Value

LEMMA Thresholds ==
  ASSUME NEW t \in Threshold
  PROVE  Profile[t] \in Int
  BY MonitorAssumption

(* _evaluate answers a worse snapshot at least as severely.                *)
LEMMA RawIsMonotone ==
  ASSUME NEW s \in Snapshot, NEW t \in Snapshot, ~Unusable(s), Worse(t, s)
  PROVE  /\ Raw(s) = "critical" => Raw(t) = "critical"
         /\ Raw(s) = "warn" => Raw(t) # "ok"
  <1>1. CASE Unusable(t)
    BY <1>1 DEF Raw, Breached
  <1>2. CASE ~Unusable(t)
    <2>1. \A k \in Field : AsBad(k, Value(t, k), Value(s, k))
      BY <1>2 DEF Worse, Unusable, Unread
    <2>2. /\ Value(t, "availability") <= Value(s, "availability")
          /\ \A k \in Field \ {"availability"} : Value(t, k) >= Value(s, k)
      BY <2>1 DEF AsBad, Field, Percentage
    <2>3. /\ \A k \in Field : Value(s, k) \in Int /\ Value(t, k) \in Int
          /\ \A h \in Threshold : Profile[h] \in Int
      BY Values, Thresholds
    <2>4. Breached(s) => Breached(t)
      BY <2>2, <2>3 DEF Breached, Field, Percentage, Threshold
    <2>5. CriticalAlert(s) => CriticalAlert(t)
      BY <2>2, <2>3 DEF CriticalAlert, Field, Percentage, Threshold
    <2>6. WarnAlert(s) => WarnAlert(t) \/ CriticalAlert(t)
      BY <2>2, <2>3 DEF WarnAlert, CriticalAlert, Field, Percentage, Threshold
    <2>7. QED BY <2>4, <2>5, <2>6 DEF Raw
  <1>3. QED BY <1>1, <1>2

(* So does _apply_clear_conditions, where the profile has a warning not    *)
(* end a critical, as the shipped one has.                                 *)
LEMMA StatusIsMonotone ==
  ASSUME Strict, NEW p \in Content,
         NEW s \in Snapshot, NEW t \in Snapshot, ~Unusable(s), Worse(t, s)
  PROVE  Rank[NextStatus(p, t)] >= Rank[NextStatus(p, s)]
  <1> DEFINE Lower(a, b) == a = b \/ a = "critical" \/ b = "ok" \/ (a = "warn" /\ b # "critical")
  <1>1. t.window = s.window
    BY DEF Worse
  <1>2. Raw(s) \in Status /\ Raw(t) \in Status /\ Effective(p) \in Status
    BY FileShape DEF Raw, Status
  <1>3. Lower(NextStatus(p, t), NextStatus(p, s)) 
        /\ NextStatus(p, t) \in Status /\ NextStatus(p, s) \in Status
    <2>1. CASE p = Torn \/ WindowInvalid(s)
      BY <1>1, <1>2, <2>1 DEF NextStatus, WindowInvalid, Status
    <2>2. CASE p # Torn /\ ~WindowInvalid(s) /\ Raw(s) = "critical"
      BY <1>1, <1>2, <2>2, RawIsMonotone DEF NextStatus, WindowInvalid, Status
    <2>3. CASE p # Torn /\ ~WindowInvalid(s) /\ Raw(s) = "warn"
      BY <1>1, <1>2, <2>3, RawIsMonotone DEF NextStatus, WindowInvalid, Status
    <2>4. CASE p # Torn /\ ~WindowInvalid(s) /\ Raw(s) = "ok" /\ Raw(t) # "ok"
      BY <1>1, <1>2, <2>4 DEF NextStatus, WindowInvalid, Status
    <2>5. CASE p # Torn /\ ~WindowInvalid(s) /\ Raw(s) = "ok" /\ Raw(t) = "ok"
      BY <1>1, <1>2, <2>5 DEF NextStatus, NextStable, WindowInvalid, Status
    <2>6. QED BY <1>2, <2>1, <2>2, <2>3, <2>4, <2>5 DEF Status
  <1>4. QED BY <1>3 DEF Rank, Status

(* A worse snapshot is never answered more mildly than the one at hand,    *)
(* where critical_to_warn_requires_below_warn_thresholds is set. (Where it *)
(* is not, a warning ends a critical that a clean sample would prolong.)   *)
THEOREM SeverityIsMonotone ==
  ASSUME Strict
  PROVE  Spec => []WorseNeverMilder
  <1>1. IInv => WorseNeverMilder
    <2> SUFFICES ASSUME IInv, NEW e \in Evaluator, NEW t \in Snapshot,
                        pc[e] = "apply", ~Unusable(sample[e]), Worse(t, sample[e])
                 PROVE  Rank[NextStatus(prior[e], t)] >= Rank[result[e]]
      BY DEF WorseNeverMilder
    <2>1. /\ result[e] = NextStatus(prior[e], sample[e])
          /\ prior[e] \in Content /\ sample[e] \in Snapshot
      BY DEF IInv, UnderWay, Typed
    <2>2. QED BY <2>1, StatusIsMonotone
  <1>2. QED BY <1>1, Invariance, PTL
===============================================================================
