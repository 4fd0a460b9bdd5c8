---------------------------- MODULE RegistryUpdate ----------------------------
(***************************************************************************)
(* Applying registry update requests (conformance/apply_registry_update.py *)
(* run once per request): the script reads the base registry, applies the  *)
(* operations in order to a copy, dates the result and writes it to the    *)
(* output path or prints it. The history that ROLLBACK looks into is a     *)
(* variable of the run: it starts empty with every request.                *)
(*                                                                         *)
(* The rest of an entry (profiles, expiry, notes, attestation) is patched  *)
(* and restored as certificationTier is, which stands for it.              *)
(***************************************************************************)
EXTENDS Naturals

CONSTANTS Adapter, OpId, Tier, None,
  Path,      \* registry files a request can name
  BasePath,  \* the one that exists at first
  Torn,      \* content of a file whose writing was cut short
  Time,      \* dates an operation can bear
  PerSecond  \* dates there are in a second: effectiveAt may have a fraction

Status == {"Active", "Suspended", "Revoked"}

(* datetime.replace(microsecond=0)                                         *)
WholeSecond(t) == t - (t % PerSecond)

Entry == [adapterId : Adapter, status : Status, certificationTier : Tier,
          lastCertifiedAt : Time]
Registry == [generatedAt : {WholeSecond(t) : t \in Time}, entries : [Adapter -> Entry]]
Action == {"UPSERT", "SUSPEND", "REVOKE", "ROLLBACK"}
Operation == [adapterId : Adapter, action : Action, pre_entry : Entry, post_entry : Entry]
Standing == [status : Status, certificationTier : Tier]

ASSUME RegistryAssumption ==
  /\ None \notin Operation
  /\ None \notin [adapterId : Adapter, action : Action, pre : Standing]
  /\ PerSecond \in Nat \ {0}
  /\ Time \subseteq Nat \ {0}
  /\ BasePath \in Path

VARIABLES
  file,     \* registry files
  pc,       \* "idle", "applying", "applied" or "writing"
  base,     \* base_registry's entries
  entries,  \* result_registry's entries
  history,  \* op_history
  latest,   \* latest_effective; 0 stands for Python's None
  output    \* the path being written

run == <<base, entries, history, latest, output>>
vars == <<file, pc, run>>

NoEntries == [a \in Adapter |-> None]
NoHistory == [o \in OpId |-> None]
Seen == {o \in OpId : history[o] # None}
Named == {history[o].adapterId : o \in Seen}

(* A registry of active adapters, each listed under its own id.            *)
Sample(t, at) ==
  [generatedAt |-> WholeSecond(at),
   entries |-> [a \in Adapter |-> [adapterId |-> a, status |-> "Active",
                                   certificationTier |-> t, lastCertifiedAt |-> at]]]

Init ==
  /\ \E t \in Tier, at \in Time :
       file = [p \in Path |-> IF p = BasePath THEN Sample(t, at) ELSE None]
  /\ pc = "idle"
  /\ base = NoEntries /\ entries = NoEntries
  /\ history = NoHistory
  /\ latest = 0
  /\ output = None

(* A request that fails its schema, approval or signature check, or names  *)
(* a file that is missing or cannot be parsed, ends here with no effect.   *)
Load(p) ==
  /\ pc = "idle"
  /\ file[p] \notin {None, Torn}
  /\ pc' = "applying"
  /\ base' = file[p].entries
  /\ entries' = file[p].entries
  /\ UNCHANGED <<file, history, latest, output>>

(* Mutant: pre_entry taken without a copy, after the operation.            *)
ApplyAliased(o, a, at, action, e) ==
  LET dated == [e EXCEPT !.lastCertifiedAt = at]
  IN /\ history[o] = None
     /\ entries' = [entries EXCEPT ![a] = dated]
     /\ history' = [history EXCEPT ![o] =
          [adapterId |-> a, action |-> action, pre_entry |-> dated, post_entry |-> dated]]
     /\ latest' = IF at > latest THEN at ELSE latest
     /\ UNCHANGED <<file, pc, base, output>>

(* Mutant: the last operation's date instead of the latest.                *)
ApplyLastDate(o, a, at, action, e) ==
  LET dated == [e EXCEPT !.lastCertifiedAt = at]
  IN /\ history[o] = None
     /\ entries' = [entries EXCEPT ![a] = dated]
     /\ history' = [history EXCEPT ![o] =
          [adapterId |-> a, action |-> action,
           pre_entry |-> entries[a], post_entry |-> dated]]
     /\ latest' = at
     /\ UNCHANGED <<file, pc, base, output>>

(* What the loop does for every operation, whose action makes e of a's     *)
(* entry: the entry is dated, the operation remembered with the entry as   *)
(* it was before.                                                          *)
Apply(o, a, at, action, e) ==
  LET dated == [e EXCEPT !.lastCertifiedAt = at]
  IN /\ history[o] = None
     /\ entries' = [entries EXCEPT ![a] = dated]
     /\ history' = [history EXCEPT ![o] =
          [adapterId |-> a, action |-> action,
           pre_entry |-> entries[a], post_entry |-> dated]]
     /\ latest' = IF at > latest THEN at ELSE latest
     /\ UNCHANGED <<file, pc, base, output>>

(* The patch sets the status, the tier, both or neither.                   *)
Upsert(o, a, at) ==
  /\ pc = "applying"
  /\ \E s \in Status, t \in Tier :
       Apply(o, a, at, "UPSERT", [entries[a] EXCEPT !.status = s, !.certificationTier = t])

Suspend(o, a, at) ==
  /\ pc = "applying"
  /\ entries[a].status = "Active"
  /\ Apply(o, a, at, "SUSPEND", [entries[a] EXCEPT !.status = "Suspended"])

(* Mutant: no condition on the current status.                             *)
RevokeAgain(o, a, at) ==
  /\ pc = "applying"
  /\ Apply(o, a, at, "REVOKE", [entries[a] EXCEPT !.status = "Revoked"])

Revoke(o, a, at) ==
  /\ pc = "applying"
  /\ entries[a].status \in {"Active", "Suspended"}
  /\ Apply(o, a, at, "REVOKE", [entries[a] EXCEPT !.status = "Revoked"])

(* Mutant: the target may be an operation on another adapter.              *)
RollbackAnywhere(o, a, at) ==
  /\ pc = "applying"
  /\ \E target \in Seen : Apply(o, a, at, "ROLLBACK", history[target].pre_entry)

Rollback(o, a, at) ==
  /\ pc = "applying"
  /\ \E target \in Seen :
       /\ history[target].adapterId = a
       /\ Apply(o, a, at, "ROLLBACK", history[target].pre_entry)

(* Mutant: what a run leaves behind when its memory outlives it.           *)
ExitKeepsHistory ==
  /\ pc' = "idle"
  /\ base' = NoEntries /\ entries' = NoEntries
  /\ history' = history
  /\ latest' = 0
  /\ output' = None

ExitKeepsOutput ==
  /\ pc' = "idle"
  /\ base' = NoEntries /\ entries' = NoEntries
  /\ history' = NoHistory
  /\ latest' = 0
  /\ output' = output

Exit ==
  /\ pc' = "idle"
  /\ base' = NoEntries /\ entries' = NoEntries
  /\ history' = NoHistory
  /\ latest' = 0
  /\ output' = None

(* An operation is refused (opId used twice, unknown adapter, unexpected   *)
(* or unsuitable status, unknown target) and the run ends, or the process  *)
(* dies: the copy is lost.                                                 *)
Abort ==
  /\ pc \in {"applying", "applied"}
  /\ Exit
  /\ UNCHANGED file

Finish ==
  /\ pc = "applying"
  /\ Seen # {}
  /\ pc' = "applied"
  /\ UNCHANGED <<file, run>>

(* Without --output the result is printed.                                 *)
PrintResult ==
  /\ pc = "applied"
  /\ Exit
  /\ UNCHANGED file

(* write_text empties the file before it writes.                           *)
OpenOutput(p) ==
  /\ pc = "applied"
  /\ pc' = "writing"
  /\ output' = p
  /\ file' = [file EXCEPT ![p] = Torn]
  /\ UNCHANGED <<base, entries, history, latest>>

(* The date of the result is cut to the second; lastCertifiedAt is not.    *)
Written == [generatedAt |-> WholeSecond(latest), entries |-> entries]

WriteResult ==
  /\ pc = "writing"
  /\ file' = [file EXCEPT ![output] = Written]
  /\ Exit

Die ==
  /\ pc = "writing"
  /\ Exit
  /\ UNCHANGED file

Operate(o, a, at) ==
  Upsert(o, a, at) \/ Suspend(o, a, at) \/ Revoke(o, a, at) \/ Rollback(o, a, at)

Next ==
  \/ \E p \in Path : Load(p) \/ OpenOutput(p)
  \/ \E o \in OpId, a \in Adapter, at \in Time : Operate(o, a, at)
  \/ Abort \/ Finish \/ PrintResult \/ WriteResult \/ Die

Spec == Init /\ [][Next]_vars

-----------------------------------------------------------------------------
(* Types of the files and of a run in progress; between runs nothing of it *)
(* is left.                                                                *)
TypeOK ==
  /\ file \in [Path -> Registry \cup {None, Torn}]
  /\ pc \in {"idle", "applying", "applied", "writing"}
  /\ IF pc = "idle"
       THEN base = NoEntries /\ entries = NoEntries /\ history = NoHistory /\ latest = 0
       ELSE base \in [Adapter -> Entry] /\ entries \in [Adapter -> Entry]
  /\ history \in [OpId -> Operation \cup {None}]
  /\ latest \in Time \cup {0}
  /\ IF pc = "writing" THEN output \in Path ELSE output = None

(* Whatever a request rolls back, every registry file lists each adapter   *)
(* under its own id, and a run changes only the entries of the adapters    *)
(* its operations name.                                                    *)
ScopeKept ==
  /\ \A p \in Path : file[p] \notin {None, Torn} =>
       \A a \in Adapter : file[p].entries[a].adapterId = a
  /\ pc # "idle" => \A a \in Adapter \ Named : entries[a] = base[a]

Rank(s) == CASE s = "Active" -> 2 [] s = "Suspended" -> 1 [] s = "Revoked" -> 0

(* No UPSERT of the run has raised an adapter's status.                    *)
NoRaise == \A o \in Seen : history[o].action = "UPSERT" =>
             Rank(history[o].post_entry.status) <= Rank(history[o].pre_entry.status)

(* ROLLBACK reaches only operations of the same request: unless an UPSERT  *)
(* patches a status up, no sequence of operations ends with an adapter     *)
(* trusted more than in the base registry, and one that request base calls *)
(* Revoked stays so.                                                       *)
TrustFalls ==
  pc # "idle" /\ NoRaise =>
    \A a \in Adapter : Rank(entries[a].status) <= Rank(base[a].status)

(* The before and after of a run's operations form chains, as the          *)
(* changelog check demands: each starts from the base entry or from what   *)
(* another operation left, and so does the result.                         *)
HistoryChains ==
  pc # "idle" =>
    /\ \A o \in Seen : LET a == history[o].adapterId IN
         \/ history[o].pre_entry = base[a]
         \/ \E q \in Seen \ {o} : history[q].adapterId = a
                                  /\ history[q].post_entry = history[o].pre_entry
    /\ \A a \in Named : \E q \in Seen :
         history[q].adapterId = a /\ history[q].post_entry = entries[a]

(* Whatever the order of the operations' dates, the result is dated to the *)
(* second of one of them, and no entry the run has certified bears a later *)
(* second. Within its second an entry may well be later than the result.   *)
ResultDated ==
  Seen # {} =>
    LET Second(o) == WholeSecond(history[o].post_entry.lastCertifiedAt) IN
    /\ \A o \in Seen : Second(o) <= Written.generatedAt
    /\ \E o \in Seen : Second(o) = Written.generatedAt

(* What the pre-merge check keeps of a run: status and tier.               *)
StandingOf(e) == [status |-> e.status, certificationTier |-> e.certificationTier]
SummaryOf(op) == [adapterId |-> op.adapterId, action |-> op.action, pre |-> StandingOf(op.pre_entry)]

PhaseBar == CASE pc = "idle" -> "idle" [] pc = "applying" -> "checking" [] OTHER -> "passed"
StateBar == [a \in Adapter |-> IF pc = "idle" THEN None ELSE StandingOf(entries[a])]
HistoryBar == [o \in OpId |-> IF history[o] = None THEN None ELSE SummaryOf(history[o])]

Check == INSTANCE RegistryOps WITH
  phase <- PhaseBar, registry_state <- StateBar, op_history <- HistoryBar

(* A request is applied only as the pre-merge check has replayed it.       *)
RefinesCheck == Check!OpsSpec

(* REGISTRY_OPERATIONS_RUNBOOK.md section 4: an adapter becomes Active     *)
(* after Revoked only by an explicit ROLLBACK.                             *)
RevokedNeedsRollback ==
  [][\A a \in Adapter :
       /\ pc = "applying" /\ pc' = "applying"
       /\ entries[a].status = "Revoked" /\ entries'[a].status = "Active"
       => \E o \in OpId : /\ history[o] = None
                       /\ history'[o] # None
                       /\ history'[o].action = "ROLLBACK"]_vars
=============================================================================
