# Verification of the FAXP reference runtime

TLA+ specifications of the FAXP reference runtime (`faxp_mvp_simulation.py`,
`streamlit_app.py`, `conformance/`, `scripts/`), the TLC runs that check them on
small instances, and proofs, checked by TLAPS, of the properties that matter
most for every value of the constants.
`SIM` below is `src/faxp_mvp_simulation.py`.

## 1. The system

FAXP is a message protocol for booking freight. The runtime builds, signs,
validates and audits envelopes, keeps a protocol state machine, and contains
agents (broker, carrier, shipper) that run three booking flows. It is run in two
ways: `main()` of SIM (one process, one thread, start-up checks first), and
`streamlit_app.py`, a multi-session host that imports SIM and never calls its
start-up checks. Around it are operator tools.

| Component | State it keeps | Operations | What is hard |
|---|---|---|---|
| Replay protection (SIM 1270-1745, 4942-4953) | in-memory caches `SEEN_MESSAGE_IDS`, `SEEN_NONCES`; a shared sqlite file with a `.marker` beside it, or a Redis server | start-up (`_init_replay_db`), TTL check, claim of a MessageID/Nonce pair, cleanup | several threads and processes claim at once; crash between claim and cache, between table and marker; lock timeouts and lost replies; retention against TTL, skew and drift |
| Envelope validation (SIM 4956-5083) | none of its own; calls the replay guard, then the state machine | `validate_envelope`, `log_message` | the order of the checks: a message refused by the state machine has already been claimed |
| Protocol state machine, run context (SIM 1842-1947) | `FLOW_STATE`, `CURRENT_RUN_ID`, `RUNTIME_MILEAGE_POLICY`, one of each per process | transition, reset, set | one machine shared by all sessions of a host |
| Agents and flows (SIM 5624-7011) | `loads`, `trucks`, `completed_bookings` | post, search, bid, respond, report, mark complete; `run_load_flow`, `run_shipper_load_flow`, `run_truck_flow` | the broker books before the report is validated, the carrier after; terms pass through six messages, each validated and compared by code of its own |
| Streamlit host (`streamlit_app.py`) | session state per session, the module state of SIM shared | run, reset, submit and resolve accessorials, rate limit | sessions interleave; a session's run is cut by a rerun |
| Verification and policy (SIM 3894-3966, 4196-4627, 5140-5621) | none beyond the attempt: result, badge, decision | mileage decision, capability negotiation, hosted verifier calls, policy decision, the receiver's check of the verifier | decision tables written in several places that must agree, numeric edges, failure of the remote verifier |
| Verifier registry updates (`conformance/apply_registry_update.py`, `tests/run_registry_ops_artifacts.py`) | a registry file: status, tier, dates of each adapter; the history of the request being applied | UPSERT, SUSPEND, REVOKE, ROLLBACK; check before the merge | sequences of operations that undo each other, dates out of order, a file torn while it is written |
| Replay operations monitor (`scripts/evaluate_replay_ops.py`) | a state file with the status and the stable time held | evaluate one snapshot | long sequences of samples, several defects in one snapshot, evaluations that overlap or die while they write the state file |
| Key rotation (`scripts/generate_faxp_keys.sh`, `rotate_faxp_keys.sh`, `run_secure_demo.sh`) | key files, key registry, environment file; what a running process has read of them | rotate, prune, start a process | death between the replacements of two files that name the same keys, a clock that is set back, processes that hold paths of keys deleted later |
| Audit log (SIM 2877-2915, 1360-1376) | a hash-chained file, `LAST_AUDIT_HASH` | append, cut to a maximum | two writers of one chain, without a lock |
| Start-up policy (SIM 1379-1567, 1621-1674, 3127-3190) | none | `enforce_security_baseline` and its overrides | expiry of overrides, combinations of modes |
| Translators (`conformance/a2a_bridge_translator.py`, `verifier_translator.py`) | none | mapping of payloads | round trips that lose fields |
| Signing, schemas, governance checks, CI, UI rendering | | | not modelled: cryptography and document comparison |

What would make each correct: the replay guard accepts an envelope at most once,
wherever and however often it arrives; a refused message leaves no trace that
blocks another; both parties agree on what is booked; a booking needs an
accepted bid and a policy decision that allows it; what is
booked is what was posted and bid, term by term, and approved claims stay within
the load's maximum; a revoked verifier comes back only the way the runbook says;
an alert clears after enough good samples, neither earlier nor later; a key that
a process may still need is not pruned.

## 2. Plan

Most important behaviour first. Each module is written so that it can be proved
about: parameters are constants with named assumptions, one action per
operation, invariants as conjunctions of named parts, no recursive operators.

| # | Module | State | Abstract specification | Theorems |
|---|---|---|---|---|
| 1 | `ReplayGuard` | store, caches, threads, start-up | `ReplayContract` | done: every safety property and the refinement |
| 2 | `ProtocolState`, `BookingSessions` | protocol state machine, run id, sessions, agents' books | none | done: every safety property |
| 3 | `PolicyDecision` | one attempt to verify and decide | none | done: every safety property |
| 4 | `RegistryUpdate` | registry files, a request being applied | `RegistryOps`, the check before the merge | done: every safety property and the refinement |
| 5 | `ReplayOpsMonitor` | state file, evaluations under way | none: the properties say what the hysteresis is for | done: every safety property |
| 6 | `BookingTerms`, `TermsNegotiation` | one flow's messages, load book, claims | none | done: every safety property |
| 7 | `KeyRotation` | key files, registry, environment file, processes | none | done: every safety property |

Composition: `TermsNegotiation` extends `BookingTerms`, and `BookingSessions`
extends `ProtocolState`. Three modules follow the same flow at different grains:
`BookingSessions` has its order and the state sessions share, with the terms, the
replay guard's answer and the policy decision free; `TermsNegotiation` has the terms,
`PolicyDecision` the decision, `ReplayGuard` the guard. What one of them leaves free
the other decides, so `BookingSessions` allows every order of events the others can
produce, and some they cannot: it lets the shipper flow be searched for, which
`TermsNegotiation` shows to fail for the tender the shipper makes. What is left of the
plan is in section 7.

## 3. Modules

### ReplayContract, ReplayGuard (sources: SIM 1270-1745, 4942-5036)

`ReplayContract` is the promise: an envelope is accepted at most once, and two
envelopes that share an identifier only if their timestamps lie more than
`Reach` apart. `ReplayGuard` is the code.

| Variable | In the code |
|---|---|
| `db`, `marker`, `store` | the sqlite file and whether it has the table, the `.marker` file beside it, the rows (key -> `seen_at`); for `redis_shared` only `store`, the keys on the server |
| `phase`, `sawMarker` | how far a process is in `_init_replay_db`, and what it read of the marker |
| `seen` | `SEEN_MESSAGE_IDS` and `SEEN_NONCES` |
| `pc`, `env`, `began`, `epoch`, `tries` | a thread inside `validate_envelope`: the envelope, when its age was checked, `now_epoch`, the attempts |
| `claimed`, `refused`, `accepted`, `rebuilt` | history, read by no guard except through the contract |

Actions: `Probe`, `Create`, `CreateRefused`, `Mark` are the steps of
`_init_replay_db` between which a process can die; `Connect` and `Serve` are the
start of a Redis process and of a host that imports SIM. `Receive` is the TTL
check, `LookupMiss` / `LookupHit` the caches, `SqliteClaim`, `SqliteRefuse`,
`SqliteBusy`, `SqliteNoTable`, `RedisClaim`, `RedisRefuse`, `RedisFail` one
attempt at the store with each of its outcomes, `Finish` the update of the
caches with their cap. `Tick`, `Crash` and `LoseDb` are the environment.

Abstractions. Time is whole seconds, the unit of the store. A claim is one step
because it is one sqlite transaction or one Lua script; `_init_replay_db` called
from a claim is one step too. `now_epoch` is read together with the cache
lookup. The file is not deleted while a process is inside `_init_replay_db`. Rows
older than the retention are deleted when a claim is granted, as in the code,
not by time. A Redis server keeps what it acknowledged: durability and eviction
belong to the start-up policy (section 7).

### ProtocolState, BookingSessions (sources: SIM 1748-1912, 4956-5083, 5785-7075, streamlit_app.py 138-565, 737-763)

`ProtocolState` has no state: message types, route policy (`RouteAllowed`), the
transition table (`AllowedPrevious`, `NextState`) and who sends what in which
flow (`Sender`, `Receiver`). `New` and `Search` stand for NewLoad / LoadSearch or
NewTruck / TruckSearch, by the flow's domain.

`BookingSessions` runs the flows. A session is a Streamlit session, or the single
thread of `main()`.

| Variable | In the code |
|---|---|
| `host` | how the process is hosted, fixed for good: by `main()` or by Streamlit, with which sessions, and whether reruns cut them |
| `flow`, `runId` | `FLOW_STATE`, `CURRENT_RUN_ID`: one of each, shared by all sessions |
| `pc`, `kind`, `left`, `msg`, `named`, `stamp`, `answer`, `verdict`, `dispatch` | the locals of `run_flow`, `run_load_flow`, `run_shipper_load_flow`, `run_truck_flow` and `main` |
| `broker`, `carrier` | `completed_bookings` of the session's agents, a booking named by its flow |
| `status` | `status_line` in classes: Ready, refused (a message did not validate), stopped (any other early return), completed |

A step is a stretch of code between two accesses to the shared state. `Press`,
`NewBroker`, `NewCarrier`, `Ready` are `reset_state`; `SetRunId` and `ReadRunId`
the two halves of `set_protocol_run_id`, which returns the global outside the
lock; `Compose` and `Stamp` the two reads of `get_protocol_run_id` inside
`build_envelope`; `Accept` and `Refuse` `validate_envelope` as seen by
`append_message` and `log_message`; `Match`, `Respond`, `Settle`, `Verify`,
`VerifierRaises`, `Report`, `MarkComplete`, `Announce` the flow itself; `Unsigned` an
envelope that cannot be signed (openssl fails or takes too long, a key file is gone);
`Cut` a Streamlit rerun, which stops the running script anywhere.

What the code does when an envelope cannot be signed. `append_message` calls
`build_envelope` outside its `try` (streamlit_app.py:176). When this happens to the
ExecutionReport, the broker has booked already and the carrier has not: the run dies
there, and its status line stays at Ready. `StatusHonest` therefore lets Ready stand
before a booking the broker has and the carrier lacks, as it does `refused`; that a
flow which returns leaves the books equal, that a completed one is in both and that the
carrier never has more than the broker, it asks of every run. `main()` dies with its
agents.

Abstractions. A flow finds the load or truck it has just posted, so a booking is
named by its flow. Every answer to a bid is possible; what decides it is in
`TermsNegotiation`. `ingest_shipper_tender` cannot fail (its
tender is the one just posted). Any message may be refused: for its form, body,
signature, TTL, or by the replay store. Capability mismatch and rate limit are a
free early return in `Settle`. A session's run id is represented by the session
itself, an id minted by a bare `get_protocol_run_id` by `FreshId`. Profile and
risk tier come from select boxes, so the policy decision itself does not raise.
`_trim_flow_state` is left out: the map never has more than its two keys.
AmendRequest is defined by the code and sent by no flow.

### RegistryOps, RegistryUpdate (sources: tests/run_registry_ops_artifacts.py, conformance/apply_registry_update.py)

`RegistryOps` is the check a request must pass before it is merged: it replays
the operations on status and tier alone. `RegistryUpdate` is the script that
applies the request to whole entries and implements that check
(`RefinesCheck`), so a request is never applied otherwise than it was checked.

| Variable | In the code |
|---|---|
| `file` | the registry files, named on the command line; `Torn` is one whose writing was cut short |
| `pc` | how far the script is; `idle` between two runs of it |
| `base`, `entries` | the entries of `base_registry` and of its copy `result_registry` |
| `history`, `latest` | `op_history`, `latest_effective` |
| `output` | the path being written |

One action per kind of operation (`Upsert`, `Suspend`, `Revoke`, `Rollback`,
which share `Apply`, the end of the loop's body), `Load`, `Abort` (an operation
is refused or the process dies), `Finish`, `PrintResult`, and `OpenOutput`,
`WriteResult`, `Die` for `write_text`, which empties the file before it writes.

Dates are numbers, `PerSecond` of them in a second. `generatedAt` is the latest
`effectiveAt` cut to the second (`WholeSecond`), `lastCertifiedAt` keeps its fraction, so
within its second an entry may bear a later date than the registry it is in.
`ResultDated` speaks of seconds.

Abstractions. `certificationTier` stands for the fields that are patched and
restored without being looked at. The registry first on disk lists active
adapters, each under its own id. Requests are chosen by the environment, one
operation at a time: a request whose operation is refused leaves the file as it
was, so nothing is lost by choosing late. Schema, approval and signature checks
precede every effect and are part of "the request does not load".

### PolicyDecision (source: SIM 3711-3747, 4312-4627, 5140-5621)

One attempt after an accepted bid: the two agents' capabilities are negotiated,
the verifier is asked, the policy profile decides, the receiver validates the
report. `BookingSessions` has the flow around it and treats the outcome as free.

| Variable | In the code |
|---|---|
| `config` | `NON_LOCAL_MODE`, `ENFORCE_TRUSTED_VERIFIER_REGISTRY`, the requirement of signed wrappers, `TRUSTED_VERIFIER_REGISTRY` |
| `capabilities` | `verification_capabilities` of broker and carrier |
| `pc` | how far the flow is |
| `provider` | the normalized provider |
| `reply` | history: what the hosted adapter returned |
| `result`, `badge`, `decision` | `verification_result`, `verified_badge`, `policy_decision` |

Actions: `Negotiate` is `negotiate_verification_capability`; `Enforce`,
`AskAdapter`, `RefuseSource`, `Simulate` are the four ways through
`run_verification`, in its order of precedence; `Decide` is
`evaluate_verification_policy_decision`, whose table is the operator `Dispatch`;
`AcceptReport` is the receiver's `_validate_verification_result` with
`_enforce_trusted_verifier_registry_result`; `End` every way out.

Abstractions. An adapter's reply is one of five kinds (unreachable, without a
valid signed wrapper, `ok: false`, malformed, a verdict). Assurance levels are
ranks, a misspelt one -1 as in the code. Labels that `_normalize_verifier_source`
maps but `run_verification` never writes are left out, and so are attestation key
ids: they, the signature of an attestation and the report's other fields can only
refuse a report more often, which is `End`. A profile has a row for every tier, as
its check in `tests/run_verification_policy_profile.py` requires. `None` for a
badge is the string "None". The reason code, `ReverifyBy` and evidence references
are recorded by the code and read by none of it.

### ReplayOpsMonitor (source: scripts/evaluate_replay_ops.py)

The evaluator as the scheduler runs it with `--state`: each evaluation reads a
metrics snapshot and the state file, decides the status, writes the file, prints.

| Variable | In the code |
|---|---|
| `file` | the state file; `Torn` is one that was emptied and not written, or is otherwise of no use |
| `pc`, `sample`, `prior`, `result` | an evaluation: its snapshot, the state it read, the status it is about to report |
| `shown` | history: the status printed last |
| `alone`, `least`, `most` | history: has no other evaluation been under way beside this one; how long the samples have been clean, at least and at most |

`Raw` is `_evaluate`, `NextStatus` and `NextStable` are
`_apply_clear_conditions`. `Start`, `Truncate`, `Write`, `Report` are `main()`, cut
where another evaluation or a kill can come between; `Crash` is the kill.
`round(_, 3)` of the stable minutes is modelled (`Rounded`), either way from half way
between two values, where the code depends on the binary fraction.

Abstractions. Rates are exact (the last digit of a float is left out). Fields that
only reach the printed report are left out. Nothing in the repository deletes the
state file. Evaluations may overlap, since nothing locks the file; `NoEarlyClear` and
`NotHeldLonger` claim nothing across an overlap: the history `most` is then at its
maximum and `least` at zero, because an evaluation may write back what it read before
the others wrote. `WorseNeverMilder` and `Recovers` hold across overlaps too.

### BookingTerms, TermsNegotiation (sources: SIM 1915-1936, 2013-2663, 3200-4105, 4637-5083, 5624-6567, streamlit_app.py 241-407)

`BookingTerms` has no state: rates, equipment, driver, stops, schedule and
accessorial policy of a posting; which messages `validate_message_body` lets pass
(`ValidPosting`, `ValidSearch`, `ValidBid`, `ValidAnswer`, `ValidReport`); what a
search finds (`Found`, and `Matching` for a whole book); what disputes a bid (`Disputed`, with the mileage decision
`MilesDisputed`) and how it is answered (`Answer`). `TermsNegotiation` is a flow that
exchanges these messages, and the claims on the load it has booked.

| Variable | In the code |
|---|---|
| `signed` | are envelopes signed (the body is normalised before the signature is verified) |
| `mileage` | `RUNTIME_MILEAGE_POLICY`, which another session may set (`Configure`) |
| `stage`, `kind` | how far the flow is, and which it is |
| `loads`, `trucks` | the broker's load book, the carrier's trucks |
| `own`, `search`, `found`, `chosen`, `bid`, `answer`, `report` | the messages of the flow and what it takes from them; `report.claims` is `AccessorialClaims` |
| `inForce`, `refused` | history: the mileage policy of the answer; the message that was refused |

Actions: `Post`, `Search`, `Bid`, `Respond`, `Decline`, `Report` are the flow, each
with the receiver's validation; `Continue` is the next flow of `main()`, `Renew` a new
run with new agents; `Submit` and `Resolve` the two accessorial handlers of the
Streamlit host, which find a claim by an id that is a time in milliseconds.

Bids. An agent's own bid copies the posting (`BidFor`). Since bids come over the wire
from other implementations, `Variants` adds bids with other miles and bids in which one term
is left out, declined, or names something else or less than the posting does: another
class, subclass, list of tags, length, range of lengths or count of the equipment,
another driver, other stops, exceptions, other time windows (`OtherNames`, in what
`ValidBid` lets pass and what it refuses).

What the code does with the answers. `respond_to_bid` looks at what is there:
a term of the equipment that is not named is not disputed, and stops that are not
answered at all are not either, while a missing answer on equipment, driver, special
instructions or schedule is. The answer on the accessorial policy
(`AccessorialPolicyAcceptance`) is validated and never read. `BookedAsAgreed` says
exactly that much.

Abstractions. Reasons and the order in which disputes are looked for are left out: the
answer is the same. Of a rate the unit basis, line haul and fuel are left out, of a
posting ids, places and texts, of a booking the operational handoff and the reference
numbers: no decision reads them. Of the accessorial answer only `Accepted` is kept;
`CapAmount` of a term is enforced by nothing and left out. As in the code, a counter drops the bid's quantity, a search may find a load
that is booked already, a report that is refused stays in the broker's
`completed_bookings`, and a load without accessorial policy ends in a KeyError.
Streamlit's presets put a provider into the select box that is not among its options;
no term depends on it.

### KeyRotation (sources: scripts/generate_faxp_keys.sh, rotate_faxp_keys.sh, run_secure_demo.sh, SIM 520-602, 3074-3124)

| Variable | In the code |
|---|---|
| `keyDir` | the generations whose files are in `KEY_DIR` |
| `registry`, `env` | the two files that name keys; `Emptied` is one that was opened to be written and not written |
| `pc`, `draft`, `stamp` | the script: how far it is, what it is about to write, its `STAMP` |
| `host` | a process: the verifier's and the agents' active key it has read |
| `latest`, `behind`, `age`, `clean` | history: latest stamp; generations registered since `env` was written, and since the one a process has read was; rotations in a row that wrote both files in the order of the clock |
| `lost`, `bereft` | history: has a rotation found the registry empty since `env` was written, and since the one a process has read was |

`Start`, `Generate`, `OpenRegistry`, `WriteRegistry`, `OpenEnv`, `WriteEnv`, `Prune`,
`End` are the script in its order, `Crash` its death anywhere. `Source` is
`run_secure_demo.sh` up to `check_ring_paths`, `Import` the import of SIM and its check
of the registry, `Stop` the end of the process.

What the code does with generations. The registry keeps the newest by date, the ring of
the environment file the newest by order of entry, and files are deleted by what the
registry names. If a rotation dies between the two files, or the clock was set back,
they differ, and later rotations delete files the ring still names:
`check_ring_paths` then refuses every start. `StartsWhenClean` shows that `Keep`
rotations that run to their end heal this, and in no fewer. An environment file
that was emptied comes back without the settings the script does not write
(`FAXP_APP_MODE` among them): no process starts until the backup is restored by hand.
`StartsWhenClean` is about the files the ring names, which one of the checks of a start
looks at, and promises nothing there.

A rotation that dies with the registry emptied (line 214) leaves it to the next one,
which takes it for a registry without keys (lines 80-82), registers its own generation
and deletes all other key files, those of a running process included. No generation has
been counted by the death itself; `bereft` marks a process from the moment a rotation
has read the empty file, and `HostSigns` promises its keys up to then.

Abstractions. A generation is three key pairs, entered, kept and deleted alike, and is
on hand while all its files are. One rotation runs at a time, no two in the same
second. A write is complete or leaves the file empty (a file cut in the middle would
stop every later rotation). The HMAC rings hold no files, the backups are read by
nothing. Processes are those of the modes `sim` and `check`, which enforce the
baseline.

## 4. Runs

| Run | Instance | Checks | Shows |
|---|---|---|---|
| `sqlite` | two processes started through `main()`, a thread each, one file, two envelopes that share a Nonce, clock to 2 | `TypeOK`, `RebuildNeedsConsent`, `ClaimsArePairs`, `ValidationEnds` | crash and restart at every point of start-up and claim, loss of the file, no half pairs, no endless retry |
| `sqlite_retention` | two threads (symmetric) of one process, four envelopes, clock to 3 | `AcceptedOnce`, `ReuseSpaced`, `RefusalHonest` | the claim decides between threads; the retention with `Reach = 0`, where a second less would break both; no blame across senders |
| `redis` | a process of `main()` and a host that imports SIM, clocks that differ by one second, clock to 5 | `RefinesContract` | expiry at the second, lost replies, skew and drift together implement the contract |
| `bookings` | one Streamlit session whose runs are cut anywhere, messages that cannot be signed; `main()` with all three flows; two sessions of one host | `TypeOK`, `RunUndisturbed`, `StatusHonest`, `BookingIsVetted`, `RunEnds` | nothing an earlier run left behind reaches the next; sessions do spoil each other's runs, and yet each ends with a status true of its agents' books |
| `registry` | one file, two adapters, requests of up to three operations with dates to half a second, any number of requests | `TypeOK`, `ScopeKept`, `TrustFalls`, `HistoryChains`, `ResultDated`, `RefinesCheck` | rollbacks of rollbacks, of operations since overtaken, with dates in any order |
| `registry_revoked` | one adapter, two tiers | `RevokedNeedsRollback` (violated) | finding 1 |
| `policy` | the three shipped profiles and one that escalates by tier alone; four capability records for each agent; eight settings; tiers -1 to 4 | `TypeOK`, `DeliveredAsNegotiated`, `NegativeIsFinal`, `OnlyAdaptersTrusted`, `ApprovalNeverOpens`, `EscalationReachesHuman`, `RiskNeverLoosens` | tables written in four places agree; an outage, and only an outage, is negotiable, and only as far as profile and tier say |
| `monitor` | the shipped thresholds, six snapshots, two evaluations at a time | `TypeOK`, `NotHeldLonger`, `WorseNeverMilder`, `NoEarlyClear`, `Recovers` | an alert is held as long as it must be and no longer, through crashes, torn files and rounding, and is lifted once samples stay clean |
| `monitor_unusable` | the same | `UnusableIsCritical` (violated) | finding 2 |
| `terms` | four rate models, eighteen tenders, two mileage policies, two claims; every term of a bid left out, declined or named otherwise | `TypeOK`, `BookedAsAgreed`, `CounterIsAcceptable`, `OwnSearchFinds`, `CompleteIsHeard`, `ApprovedWithinCap`, `ClaimsSettleOnce` | six messages, each made, validated and compared by code of its own, agree on the terms |
| `terms_tender` | the same | `TenderIsHeard` (violated) | finding 3 |
| `key_rotation` | three generations kept, five seconds in any order, one process | `StartsWhenClean`, `HostSigns` | files that name the same keys and are replaced one after the other, under crashes and a clock set back |

Finding 1 (`registry_revoked`). docs/governance/REGISTRY_OPERATIONS_RUNBOOK.md:77
says "`Revoked -> Active` only via explicit `ROLLBACK` of a known prior op with
documented approval". The code lets an UPSERT patch the status of a revoked adapter to `Active`
(`apply_registry_update.py`:192 and the check before the merge alike), in two
operations. This is why `TrustFalls` sets aside runs in which an UPSERT raised a
status.

Finding 2 (`monitor_unusable`). docs/governance/REPLAY_SLO_ALERTING.md:36 says
"Treats missing/invalid metric snapshots as `critical` with explicit input-validation
breaches." A snapshot without usable metrics whose window is invalid too meets the
branch for the window first (`evaluate_replay_ops.py`:267), which repeats the previous
status: after a warning it is reported as a warning.

Finding 3 (`terms_tender`). docs/rfc/RFC-v0.3-shipper-orchestration-minimal.md:68 says
"Optional shipper-initiated flow reaches booked execution report." The tender of
`post_tender` names no subclass and no tags, the carrier's search for it
(SIM:6245) sends both as empty, and the receiver refuses empty ones: the flow ends at
its second message.

Two more places where the code does less than a reader may expect are not runs of their
own; the properties name them as what they leave out. A bid that declines the
accessorial policy is accepted and booked with it (SIM:5823, `BookedAsAgreed`), where
docs/rfc/RFC-v0.3-accessorial-lifecycle-booking-plane.md:54 says "Carrier can accept terms
as-is, counter specific accessorial terms, or reject." And after a rotation that died
with the registry emptied, the next one retains a single generation whatever
`KEEP_GENERATIONS` is (rotate_faxp_keys.sh:214 and 80-82, `HostSigns`).

Bounds, and why they are enough. `MaxNow` bounds the clock of `ReplayGuard`: with
a TTL of 1 and a retention of 2 (sqlite) or 5 (Redis) it leaves time for an
envelope to be claimed, forgotten and reused. `CacheCap = 1` makes the caches
overflow on the second envelope. `Stall = 1` lets a validation straddle a second.
Deletion of a row needs a granted claim, so the retention run has an envelope of
another sender to trigger it. The booking run needs no bound: its state is
finite. Two sessions suffice for every pairwise interference; the theorems cover
any number. In the registry runs three operations are what it takes to roll back a
rollback, a second adapter is what a rollback could be misdirected to, and two
dates can be out of order, one of them with a fraction of a second (`Time = {3, 4}`,
`PerSecond = 2`); one file is read and written in place, the harshest
case; a second tier adds nothing that a status does not show, except in the finding.
The policy run has no unbounded data: tiers just outside 0..3 stand for all
that are coerced; the fourth profile has an escalation tier below rows that ask for no
human, which `tests/run_verification_policy_profile.py` forbids to the shipped profiles
and the runtime, which loads any, does not; the capability records are the
default, the mismatch `main()` can force, a floor above what FMCSA offers and a
misspelt one; the registries are empty, one adapter by its legacy label, the same
beside a simulated verifier, and a suspended adapter. In the monitor runs `Required = 4`,
`MaxWindow = 3` and `Grain = 2` make a clear take two samples or more and a sample
round either way; the time held is bounded by the code itself. In the terms runs each
tender misses or distorts one thing, so that every refusal and every dispute has a
cause; the flows' own rate models are one that counts nothing and the one with miles, two
tenders have a quantity; the miles of a bid are other than posted within the absolute
tolerance, beyond both, and within the relative one only; strict and balanced are the
two modes of the policy; the policy changes only between bid and answer (`Configure`), the
only place where it is read; two claims of 100 or 250 against a maximum of 300 exceed
it together. In the rotation run five seconds in any order leave room for a rotation
that dies or goes back in time and three that heal it; `Keep = 3` because with two
nothing is deleted that a process started behind the registry could still count on. Deadlock checking is off where the system
may rest: `main()` ends, a bounded clock stops, sessions without a user stay idle, a
registry whose only file is torn cannot be loaded, agents whose capabilities do not
match never verify, the seconds in which keys can be made are used up while the
environment file is no longer whole.

Symmetry is used in `sqlite_retention`, where the two threads live in the same
process, and in `registry`, over opIds and adapters; neither checks liveness.

Fairness. `WF(ThreadStep)` for a thread inside `validate_envelope` and `WF(Step)`
for a session inside a flow: neither blocks on anything but sqlite's 5 s timeout,
an HTTP timeout or a lock held for a few assignments, and the operating system
schedules the thread. Another session can refuse a flow's message but cannot block
it, so a run ends because every step of a flow has an exit. `WF(Proceed)` for an
evaluation of the monitor that has started, and `WF` for the start of some evaluation:
the scheduler calls the script again and again; which snapshot it finds is free.
No fairness for what users, the network, the clock or a crash do.

## 5. Proofs

All proofs are checked by TLAPS and hold for every value of the constants that
satisfies the named assumptions.

`ReplayGuardProofs`:
`TypeCorrect`, `Invariance` (`IInv`), `AtMostOnce`, `ReuseIsSpaced`,
`ImplementsContract`, `RefusalsAreHonest`, `PairsAreWhole`, `RebuildIsExplicit`.
Assumptions: `ClockAssumption` (a validation takes at most `Stall` seconds from
TTL check to claim, clocks run at most `Drift` ahead of the store's),
`ShapeAssumption`, `EnvelopeAssumption`, and `RetentionAssumption`, that
`Retention` exceeds TTL + skew + stall + drift. The code does not enforce the
last one: `enforce_security_baseline` bounds TTL and skew and not the retention.
The shipped defaults satisfy it by a wide margin.

Why the invariant is needed: that an envelope is accepted once says nothing of
the store. `IInv` adds that every granted claim is still in the store with a
stamp no older than its `Horizon`, or is so old that its envelope would fail the
TTL check in any process (`ClaimsCovered`), that a validation in flight passed
the check recently (`InFlightFresh`), that granted claims sharing a key lie apart
(`ClaimsApart`) and that each is held by one thread or accepted (`OneWinner`).

`BookingSessionsProofs`:
`TypeCorrect`; `Undisturbed` from `RunInv`: at each place of a flow the machine is
where the flow left it and the run id is its own, which one session with the
runtime to itself keeps; `VettedBookings` from `VetInv`: each place has its
evidence in the session's own locals; `HonestStatus` from `BooksInv`: the books
differ only while a report is under way or behind a status that claims no booking. The last two are about any number of
sessions: `Frame` shows that a step of one session leaves the locals and books of
the others alone, so only a session's own steps matter although they share the
machine. Assumption: `SessionAssumption` (the shape of the constants; `main()` is one
thread; only a hosted run can be cut). The theorems hold for every way of hosting
that `Host` may contain.

`RegistryUpdateProofs`: `TypeCorrect`, `ResultIsDated`, `TrustOnlyFalls`,
`ScopeIsKept`, `HistoryIsTrue`, `ImplementsCheck`, for any number of adapters,
operations, tiers, files and dates, however many of them in a second. Assumption:
`RegistryAssumption` (`None` is no record, dates are positive). `DatedInv` bounds the
dates of both ends of every operation, and `WholeSecond` is monotone; `TrustInv` adds to `TrustFalls` that every entry a rollback could
restore is itself no more trusted than the base; `ScopeInv` that each entry
remembered belongs to the adapter it is remembered under; `ChainInv` that the
links of a chain survive the next operation.

`PolicyDecisionProofs`: `TypeCorrect`, `Delivered`, `RejectionIsFinal`,
`AdaptersTrusted`, `ApprovalLiftsHoldsOnly`, `EscalationIsHuman`, `RiskIsMonotone`, for
every set of profiles, capabilities and settings (`PolicyAssumption`: they have the
shape the code reads). The invariant `IInv` follows the attempt: `ResultInv` ties the
result to the negotiated provider and the reply, `DecisionInv` says that a decision
that stands is `Dispatch` of its own inputs and not Blocked, `ReportInv` that a
reported result passed `Trusted`. The properties of the table are then lemmas about
`Dispatch` for an arbitrary profile; `RiskIsMonotone` needs the profile's rows to be
graduated, and the shipped ones are.

`ReplayOpsMonitorProofs`: `TypeCorrect`, `ClearIsEarned`, `WaitIsBounded`,
`SeverityIsMonotone`, for any number of overlapping evaluations, any snapshots,
thresholds, required times and rounding (the first two claim nothing across an
overlap). Assumptions: `MonitorAssumption` (the shape of
the constants; there is a snapshot), `FileAssumption`. `NoEarlyClear` and
`NotHeldLonger` speak of the time the samples have been clean, which the file does not
hold; `IInv` ties the two together: seen from a file no overlapping evaluation has
disturbed, the time held is covered by what the clean samples can be worth and covers
what they are worth for certain (`Accounted`), it is a whole number of rounded parts
(`Short`), and an evaluation under way answers what it read (`UnderWay`).
`SeverityIsMonotone` has `Strict` as a hypothesis, the setting
`critical_to_warn_requires_below_warn_thresholds` of the shipped profile. Without it
the property is false, and rightly so in the code: a sample with a warning ends a
critical that a clean sample, whose stable time is too short, would prolong.

`KeyRotationProofs`: `TypeCorrect`, `RingIsOnHand`, `HostsCanSign`, for any number of
generations kept, seconds in any order and any number of processes. Assumption:
`RotationAssumption`. Prune deletes by rank in the registry, so that a key is on hand
follows from how many registered keys are newer than it (`Ranked`). `KeysInv` says that
a key in use since which n < `Keep` generations were registered has at most n newer
ones, `RingInv` the same of the ring's entries by their position, as far as rotations
in a row have written them, and `FilesInv` what the two files are at each step between
which the script can die. Both count with what is about to be written where the
registry is already emptied; where a death has left it empty, `KeysInv` says that the
keys stay on hand, which is so until a rotation has read it and sets `lost` and `bereft`.

`TermsNegotiationProofs`: `TypeCorrect`, `BookedWasAgreed`, `CounterCanBeTaken`,
`TenderIsFound`, `CapIsKept`, `ClaimsAreSettledOnce`, `CompletePostingsAreHeard`, for
any tenders, tables of equipment, bids, mileage policies, amounts and number of claims.
Assumptions: `TermsAssumption` (the shape of the tables of SIM; the canonical name of
a class is its own spelling, SIM 3538-3562), `NegotiationAssumption` (the shape of
what is posted and bid), `AbsentAssumption` and `PolicyAssumption` (nothing that is
there equals `Absent`). `IInv` follows the messages: the books hold validated and
normalised postings (`BooksInv`), a bid is one made for the chosen posting, and a report
is of a bid that was agreed on under the policy in force (`DealInv`), the approved
claims are within the cap (`ClaimsInv`). From there each property is a lemma about the
operators of `BookingTerms`: `AgreedMeans` turns "not disputed" into the terms of
`BookedAsAgreed`, `CounterTaken` computes the answer to a bid at the countered rate,
`OwnIsFound` the search for a normalised tender, `TotalSettled` the effect of one
decision on the sum. `CompletePostingsAreHeard` has its own invariant, `HeardInv`
(which postings can be in which book, so that what is bid for is complete if the flow's
own posting is), and the hypothesis `Sensible`: tenders use the protocol's words for
class, subclass and driver and have a size, bids are not negative. Without it the
property is false, as a tender with an unknown subclass is refused for that alone.
`MCTermsNegotiation` assumes `Sensible` too, so TLC evaluates it on every run.

`InductionLemmas`: induction over data, as far as it is needed. The library's induction
theorems take an operator as a parameter, which the provers cannot instantiate;
these lemmas state induction and recursion over `0 .. n` about sets and functions,
which can be passed (`IntervalInduction`, `RecursionOnInterval`). With them what the
recursive functions `Without` (`prepend_ring`), `Matching` (`search_loads`,
`search_trucks`) and `Total` (`accessorial_total`) compute is proved for sequences of
any length (`WithoutFacts`, `MatchingFacts`, `TotalFacts`).

Only model-checked: `ValidationEnds`, `RunEnds` and `Recovers`, since they rest on
fairness and ENABLED and are out of the prover's reach. Every invariant and action
property of a passing run is proved. The three properties of the runs that expect a
violation are false of the code.

## 6. What the properties are for

PROJECT.json lists the hazards, line by line, with the property that would catch
each. Those no property covers yet:

- a host that imports SIM re-creates a lost sqlite file silently
  (`RebuildNeedsConsent` is stated for processes that start through `main()`);
- a rerun that stops `reset_state` between the agents leaves a fresh broker
  beside an old carrier until the next reset (`StatusHonest` is stated for runs
  that are not cut);
- with several sessions, an envelope may carry another session's run id, or an
  empty one (`RunUndisturbed` is stated for a session by itself);
- a registry file may be left torn, when the process dies inside `write_text`; no
  property asks for more than that such a file is not loaded;
- the Streamlit rate limiter keeps its list in the script, which every rerun
  executes anew, so it never limits;
- an accessorial policy that a bid declines is booked, and a registry that a dead
  rotation has emptied takes the retention with it: `BookedAsAgreed` and `HostSigns` say
  what holds beside that;
- the constants a verification writes in five places are one definition in the model
  (`Built`), so `DeliveredAsNegotiated` does not see a single one of them drift;
- two sessions may fork the audit chain or lose records of it (not modelled).

## 7. Not modelled

- Cryptography (a signature is assumed to verify exactly what was signed), parsing
  of command lines and environment, JSON schemas and document comparison, CI,
  rendering, the demo's access gate: no state, or none of the runtime's decisions.
- The audit log's chain: `_append_audit_event` has no lock, so with several sessions
  the chain forks; no document says what it promises and nothing reads it back, so
  there is no property to check a model against.
- The start-up policy: one pass of conditions over the environment, without a step
  that could fail in between. `ReplayGuard` has what depends on its outcome.
- The A2A and MCP translators and the verifier translator: mappings from field to
  field; a model would repeat their tables, and the repository's fixtures compare them
  field by field.
- The Streamlit rate limiter: its refusal is free in `BookingSessions`.
- `AmendRequest`, which the runtime defines and no flow sends.

## 8. Running

`tlc -config <file>.cfg <module>` for each run of PROJECT.json (the longest takes
about two minutes with two workers); `tlapm` on each module whose name ends in
`Proofs`, and on `InductionLemmas.tla`, for the proofs, a few minutes at most each.
