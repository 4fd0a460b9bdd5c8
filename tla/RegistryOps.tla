----------------------------- MODULE RegistryOps ------------------------------
(***************************************************************************)
(* The check of a registry update request that must pass before the        *)
(* request is merged (tests/run_registry_ops_artifacts.py): it replays the *)
(* operations on the status and the tier of every adapter, and nothing     *)
(* else of an entry. RegistryUpdate, which applies the request, implements *)
(* this specification.                                                     *)
(*                                                                         *)
(* The request is the environment's: each step is one of its operations.   *)
(* expectedCurrentStatus, an unknown adapterId, a malformed date and a bad *)
(* signature only ever make the check fail, which Fail may do at any       *)
(* operation.                                                              *)
(***************************************************************************)

CONSTANTS
  Adapter,  \* adapterIds of the base registry
  OpId,     \* opIds a request can use: bounds the operations of a request
  Tier,     \* certificationTier
  None      \* no value

Status == {"Active", "Suspended", "Revoked"}
Standing == [status : Status, certificationTier : Tier]

VARIABLES
  phase,           \* "idle", "checking" or "passed"
  registry_state,  \* status and tier of every adapter
  op_history       \* operations of this request, by opId

opsVars == <<phase, registry_state, op_history>>

NoStandings == [a \in Adapter |-> None]
NoHistory == [o \in OpId |-> None]

OpsInit ==
  /\ phase = "idle"
  /\ registry_state = NoStandings
  /\ op_history = NoHistory

Load ==
  /\ phase = "idle"
  /\ phase' = "checking"
  /\ registry_state' \in [Adapter -> Standing]
  /\ UNCHANGED op_history

(* Operation o leaves adapter a with the standing post.                    *)
Replay(o, a, action, post) ==
  /\ op_history[o] = None
  /\ registry_state' = [registry_state EXCEPT ![a] = post]
  /\ op_history' = [op_history EXCEPT ![o] =
       [adapterId |-> a, action |-> action, pre |-> registry_state[a]]]
  /\ UNCHANGED phase

CheckUpsert(o, a) ==
  /\ phase = "checking"
  /\ \E post \in Standing : Replay(o, a, "UPSERT", post)

CheckSuspend(o, a) ==
  /\ phase = "checking"
  /\ registry_state[a].status = "Active"
  /\ Replay(o, a, "SUSPEND", [registry_state[a] EXCEPT !.status = "Suspended"])

CheckRevoke(o, a) ==
  /\ phase = "checking"
  /\ registry_state[a].status \in {"Active", "Suspended"}
  /\ Replay(o, a, "REVOKE", [registry_state[a] EXCEPT !.status = "Revoked"])

CheckRollback(o, a) ==
  /\ phase = "checking"
  /\ \E target \in OpId :
       /\ op_history[target] # None
       /\ op_history[target].adapterId = a
       /\ Replay(o, a, "ROLLBACK", op_history[target].pre)

Pass ==
  /\ phase = "checking"
  /\ op_history # NoHistory
  /\ phase' = "passed"
  /\ UNCHANGED <<registry_state, op_history>>

(* The script ends: an operation was refused, or all have passed.          *)
Fail ==
  /\ phase # "idle"
  /\ phase' = "idle"
  /\ registry_state' = NoStandings
  /\ op_history' = NoHistory

OpsNext ==
  \/ Load \/ Pass \/ Fail
  \/ \E o \in OpId, a \in Adapter :
       CheckUpsert(o, a) \/ CheckSuspend(o, a) \/ CheckRevoke(o, a) \/ CheckRollback(o, a)

OpsSpec == OpsInit /\ [][OpsNext]_opsVars
=============================================================================
