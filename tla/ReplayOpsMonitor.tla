-------------------------- MODULE ReplayOpsMonitor ----------------------------
(***************************************************************************)
(* scripts/evaluate_replay_ops.py in its state mode: each evaluation reads *)
(* a snapshot of the replay metrics and the state file the evaluation      *)
(* before it left, decides the status to report, writes the file and       *)
(* prints the report. The scheduler may start an evaluation before the     *)
(* last one ended, and an evaluation may die anywhere.                     *)
(*                                                                         *)
(* Rates are counted in tenths of a percent, latencies in milliseconds.    *)
(* Minutes are counted in a unit of which Grain make up the thousandth of  *)
(* a minute to which the state file rounds.                                *)
(***************************************************************************)
EXTENDS Integers

CONSTANTS
  Evaluator,         \* evaluations that may be under way at one time
  Snapshot,          \* the metrics files: [metric : Field -> value, window]
  Missing, Invalid,  \* a field that is absent, or not a finite number
  Profile,           \* docs/governance/REPLAY_OPS_MONITORING_PROFILE.json
  Required,          \* clearConditions.stable_minutes_required
  MaxWindow,         \* clearConditions.max_sample_window_minutes
  Strict,            \* critical_to_warn_requires_below_warn_thresholds
  Grain,
  Absent, Torn       \* no state file; one _load_state cannot use

Percentage == {"availability", "failure", "reject"}
Field == Percentage \cup {"p95", "p99", "backend"}
Threshold == {"availability", "budget", "p95_max", "p99_max", "reject_warn",
              "reject_critical", "failure_critical", "p95_warn",
              "p99_critical", "backend_critical"}

ASSUME MonitorAssumption ==
  /\ Missing \notin Int /\ Invalid \notin Int /\ Missing # Invalid
  /\ Snapshot \subseteq [metric : [Field -> Int \cup {Missing, Invalid}],
                         window : Int \cup {Invalid}]
  /\ Snapshot # {}
  /\ Profile \in [Threshold -> Int]
  /\ Required \in Nat /\ MaxWindow \in Nat /\ Grain \in Nat \ {0}
  /\ Strict \in BOOLEAN

Status == {"ok", "warn", "critical"}
StateRecord == [effective : Status, stable : Nat]

ASSUME FileAssumption ==
  Absent # Torn /\ Absent \notin StateRecord /\ Torn \notin StateRecord

VARIABLES
  file,    \* the state file
  pc,      \* where each evaluation is
  sample,  \* the snapshot it evaluates
  prior,   \* the state file as it read it
  result,  \* the status it is about to print
  shown,   \* history: the status printed last
  alone,   \* history: no other evaluation has been under way beside it
  least,   \* history: twice the time that is clean for certain since the
           \* last sample that was not
  most     \* history: twice the time that may have been rounded up to

vars == <<file, pc, sample, prior, result, shown, alone, least, most>>
-------------------------------------------------------------------------------
(* _evaluate.                                                              *)

Unread(s) == {k \in Field : s.metric[k] \in {Missing, Invalid}}
Value(s, k) == IF s.metric[k] \in {Missing, Invalid} THEN 0 ELSE s.metric[k]
OutOfDomain(s, k) == Value(s, k) < 0 \/ (k \in Percentage /\ Value(s, k) > 1000)
Unusable(s) == Unread(s) # {} \/ \E k \in Field : OutOfDomain(s, k)

Breached(s) ==
  \/ Unusable(s)
  \/ Value(s, "availability") < Profile["availability"]
  \/ Value(s, "failure") > Profile["budget"]
  \/ Value(s, "p95") > Profile["p95_max"]
  \/ Value(s, "p99") > Profile["p99_max"]

CriticalAlert(s) ==
  \/ Unusable(s)
  \/ Value(s, "reject") >= Profile["reject_critical"]
  \/ Value(s, "failure") >= Profile["failure_critical"]
  \/ Value(s, "p99") >= Profile["p99_critical"]
  \/ Value(s, "backend") >= Profile["backend_critical"]

WarnAlert(s) ==
  \/ /\ Value(s, "reject") >= Profile["reject_warn"]
     /\ Value(s, "reject") < Profile["reject_critical"]
  \/ Value(s, "p95") >= Profile["p95_warn"]

Raw(s) ==
  IF Breached(s) \/ CriticalAlert(s) THEN "critical"
  ELSE IF WarnAlert(s) THEN "warn" ELSE "ok"
-------------------------------------------------------------------------------
(* _apply_clear_conditions.                                                *)

Larger(a, b) == IF a >= b THEN a ELSE b
Smaller(a, b) == IF a <= b THEN a ELSE b

WindowInvalid(s) == s.window = Invalid \/ s.window <= 0 \/ s.window > MaxWindow

Effective(p) == IF p = Absent THEN "ok" ELSE IF p = Torn THEN "critical" ELSE p.effective
Stable(p) == IF p \in {Absent, Torn} THEN 0 ELSE p.stable

(* Mutant: a warning leaves the time held as it is.                        *)
KeepsCredit(p, s) ==
  IF p = Torn \/ WindowInvalid(s) \/ Raw(s) = "critical" THEN 0
  ELSE IF Raw(s) = "warn" THEN Stable(p)
  ELSE IF Effective(p) # "ok" THEN Stable(p) + s.window
  ELSE Smaller(Required, Larger(Stable(p), s.window))

(* Mutant: the time is counted on while no alert stands.                   *)
CountsOn(p, s) ==
  IF p = Torn \/ WindowInvalid(s) \/ Raw(s) # "ok" THEN 0 ELSE Stable(p) + s.window

(* Mutant: under recovery too the longer of the two is taken, not the sum. *)
TakesLonger(p, s) ==
  IF p = Torn \/ WindowInvalid(s) \/ Raw(s) # "ok" THEN 0
  ELSE Smaller(Required, Larger(Stable(p), s.window))

(* The stable time an evaluation ends with.                                *)
NextStable(p, s) ==
  IF p = Torn \/ WindowInvalid(s) \/ Raw(s) # "ok" THEN 0
  ELSE IF Effective(p) # "ok" THEN Stable(p) + s.window
  ELSE Smaller(Required, Larger(Stable(p), s.window))

(* Mutant: a warning ends a critical whatever the profile asks for.        *)
WarningEndsCritical(p, s) ==
  IF p = Torn THEN "critical"
  ELSE IF WindowInvalid(s)
    THEN IF Effective(p) \in {"critical", "warn"} THEN Effective(p) ELSE "critical"
  ELSE IF Raw(s) # "ok" THEN Raw(s)
  ELSE IF NextStable(p, s) < Required THEN Effective(p) ELSE "ok"

(* Mutant: the time is compared before the sample is added to it.          *)
ComparesFirst(p, s) ==
  IF p = Torn THEN "critical"
  ELSE IF WindowInvalid(s)
    THEN IF Effective(p) \in {"critical", "warn"} THEN Effective(p) ELSE "critical"
  ELSE IF Raw(s) = "critical" THEN "critical"
  ELSE IF Raw(s) = "warn"
    THEN IF Strict /\ Effective(p) = "critical" THEN "critical" ELSE "warn"
  ELSE IF Stable(p) < Required THEN Effective(p) ELSE "ok"

(* The status an evaluation reports and writes. A status is held until the *)
(* samples have been below every threshold for the time required.          *)
NextStatus(p, s) ==
  IF p = Torn THEN "critical"
  ELSE IF WindowInvalid(s)
    THEN IF Effective(p) \in {"critical", "warn"} THEN Effective(p) ELSE "critical"
  ELSE IF Raw(s) = "critical" THEN "critical"
  ELSE IF Raw(s) = "warn"
    THEN IF Strict /\ Effective(p) = "critical" THEN "critical" ELSE "warn"
  ELSE IF NextStable(p, s) < Required THEN Effective(p) ELSE "ok"

(* round(_, 3): to the nearest, and either way from half way between, where *)
(* the binary fraction decides.                                            *)
Rounded(x) == {y \in {(x \div Grain) * Grain, (x \div Grain) * Grain + Grain} :
                 2 * (x - y) <= Grain /\ 2 * (y - x) <= Grain}
-------------------------------------------------------------------------------
AnySample == CHOOSE s \in Snapshot : TRUE

Init ==
  /\ file = Absent
  /\ pc = [e \in Evaluator |-> "idle"]
  /\ sample = [e \in Evaluator |-> AnySample]
  /\ prior = [e \in Evaluator |-> Absent]
  /\ result = [e \in Evaluator |-> "ok"]
  /\ shown = "ok"
  /\ alone = [e \in Evaluator |-> TRUE]
  /\ least = 0 /\ most = 0

Others(e) == {f \in Evaluator \ {e} : pc[f] # "idle"}

(* main: the snapshot is read and evaluated, then the state file is read.  *)
Start(e, s) ==
  /\ pc[e] = "idle"
  /\ pc' = [pc EXCEPT ![e] = "apply"]
  /\ sample' = [sample EXCEPT ![e] = s]
  /\ prior' = [prior EXCEPT ![e] = file]
  /\ result' = [result EXCEPT ![e] = NextStatus(file, s)]
  /\ alone' = [f \in Evaluator |->
                 IF f = e THEN Others(e) = {} ELSE alone[f] /\ f \notin Others(e)]
  /\ UNCHANGED <<file, shown, least, most>>

(* write_text opens the file, which empties it ...                         *)
Truncate(e) ==
  /\ pc[e] = "apply"
  /\ pc' = [pc EXCEPT ![e] = "write"]
  /\ file' = Torn
  /\ UNCHANGED <<sample, prior, result, shown, alone, least, most>>

(* What the samples up to this one are worth, whatever the file says: a    *)
(* sample that is not clean is worth nothing, and nothing is known of      *)
(* evaluations that overlapped.                                            *)
Credit(e) ==
  LET s == sample[e]
      clean == prior[e] # Torn /\ ~WindowInvalid(s) /\ Raw(s) = "ok"
  IN
  /\ least' = IF alone[e] /\ clean /\ Effective(prior[e]) # "ok"
              THEN Smaller(2 * Required, least + Larger(0, 2 * s.window - Grain))
              ELSE 0
  /\ most' = IF ~alone[e] THEN 2 * Required
             ELSE IF clean THEN Smaller(2 * Required, most + 2 * s.window + Grain)
             ELSE 0

(* ... and writes it. What another evaluation wrote in between is written  *)
(* over from the start: if it was longer, its tail makes the file useless. *)
Write(e) ==
  /\ pc[e] = "write"
  /\ pc' = [pc EXCEPT ![e] = "print"]
  /\ \/ \E y \in Rounded(NextStable(prior[e], sample[e])) :
          file' = [effective |-> result[e], stable |-> y]
     \/ ~alone[e] /\ file' = Torn
  /\ Credit(e)
  /\ sample' = [sample EXCEPT ![e] = AnySample]
  /\ prior' = [prior EXCEPT ![e] = Absent]
  /\ UNCHANGED <<result, shown, alone>>

(* The report is printed and the evaluation exits.                         *)
Report(e) ==
  /\ pc[e] = "print"
  /\ pc' = [pc EXCEPT ![e] = "idle"]
  /\ shown' = result[e]
  /\ result' = [result EXCEPT ![e] = "ok"]
  /\ alone' = [alone EXCEPT ![e] = TRUE]
  /\ UNCHANGED <<file, sample, prior, least, most>>

(* The evaluation dies where it is.                                        *)
Crash(e) ==
  /\ pc[e] # "idle"
  /\ pc' = [pc EXCEPT ![e] = "idle"]
  /\ sample' = [sample EXCEPT ![e] = AnySample]
  /\ prior' = [prior EXCEPT ![e] = Absent]
  /\ result' = [result EXCEPT ![e] = "ok"]
  /\ alone' = [alone EXCEPT ![e] = TRUE]
  /\ UNCHANGED <<file, shown, least, most>>

Proceed(e) == Truncate(e) \/ Write(e) \/ Report(e)

Next ==
  \E e \in Evaluator :
    (\E s \in Snapshot : Start(e, s)) \/ Proceed(e) \/ Crash(e)

(* An evaluation that has started runs to its end, unless it crashes, and  *)
(* the scheduler starts another one again and again.                       *)
Spec ==
  /\ Init /\ [][Next]_vars
  /\ \A e \in Evaluator : WF_vars(Proceed(e))
  /\ WF_vars(\E e \in Evaluator, s \in Snapshot : Start(e, s))
-------------------------------------------------------------------------------
(* The type of the state. The time held stays within what is required, one *)
(* more sample and the rounding, however long the monitor runs.            *)
TypeOK ==
  /\ file \in {Absent, Torn} \cup StateRecord
  /\ Stable(file) <= Required + MaxWindow + Grain
  /\ pc \in [Evaluator -> {"idle", "apply", "write", "print"}]
  /\ sample \in [Evaluator -> Snapshot]
  /\ prior \in [Evaluator -> {Absent, Torn} \cup StateRecord]
  /\ result \in [Evaluator -> Status]
  /\ shown \in Status
  /\ alone \in [Evaluator -> BOOLEAN]
  /\ least \in 0 .. 2 * Required /\ most \in 0 .. 2 * Required

(* Severity.                                                               *)
Rank == [ok |-> 0, warn |-> 1, critical |-> 2]

(* An alert that was shown is taken back only after the samples since the  *)
(* last one that was not clean cover the time required, up to what each    *)
(* rounding may have added: no crash, no torn file and no earlier calm     *)
(* shortens the wait, as long as no two evaluations overlapped since.      *)
NoEarlyClear == [][shown # "ok" /\ shown' = "ok" => most = 2 * Required]_vars

(* And the wait is not longer either: while the file still holds an alert, *)
(* the clean time since is short of what is required, up to what each      *)
(* rounding may have taken away.                                           *)
NotHeldLonger ==
  file \notin {Absent, Torn} /\ Effective(file) # "ok" /\ Required > 0 =>
    least < 2 * Required

(* A snapshot that is worse in some fields and better in none, or that     *)
(* lacks some, is never answered more mildly than the one at hand.         *)
AsBad(k, v, w) == IF k = "availability" THEN v <= w ELSE v >= w
Worse(t, s) ==
  /\ t.window = s.window
  /\ \A k \in Field : k \notin Unread(t) => k \notin Unread(s) /\ AsBad(k, Value(t, k), Value(s, k))
WorseNeverMilder ==
  \A e \in Evaluator, t \in Snapshot :
    pc[e] = "apply" /\ ~Unusable(sample[e]) /\ Worse(t, sample[e]) =>
      Rank[NextStatus(prior[e], t)] >= Rank[result[e]]

(* docs/governance/REPLAY_SLO_ALERTING.md, "Evaluator hardening notes":    *)
(* "Treats missing/invalid metric snapshots as `critical`".                *)
UnusableIsCritical ==
  \A e \in Evaluator : pc[e] = "apply" /\ Unusable(sample[e]) => result[e] = "critical"

(* Once every snapshot is clean and long enough not to be rounded away,    *)
(* one evaluation at a time and none of them dying, the alert is lifted    *)
(* for good, whatever the file held.                                       *)
Calm(s) == ~WindowInvalid(s) /\ Raw(s) = "ok" /\ 2 * s.window > Grain
CalmStep ==
  \E e \in Evaluator :
    \/ pc[e] = "idle" /\ pc'[e] = "apply" /\ Others(e) = {} /\ Calm(sample'[e])
    \/ Proceed(e)
Recovers == <>[][CalmStep]_vars => <>[](shown = "ok")
===============================================================================
