--------------------------- MODULE BookingSessions ----------------------------
(***************************************************************************)
(* The booking flows as they are run: by sessions of one Streamlit host    *)
(* (run_flow of streamlit_app.py), which share the runtime's FLOW_STATE    *)
(* and CURRENT_RUN_ID, or by main(), which runs a plan of flows in one     *)
(* thread. A step of this model is a stretch of code between two accesses  *)
(* to shared state; STATE_LOCK makes reset, set and transition atomic.     *)
(*                                                                         *)
(* Every flow works on the load or truck it has just posted, so a booking  *)
(* is named by its flow. Amounts, terms and wording are left out.          *)
(***************************************************************************)
EXTENDS ProtocolState, Sequences

CONSTANTS
  Session,       \* browser sessions; or the one thread of main()
  Host,          \* the ways in which the runtime may be hosted
  Plan,          \* the flows main() runs, in order
  NoId, FreshId  \* "" and an id minted by get_protocol_run_id

(* hosted: by streamlit_app.py, or else by main(), which is one thread;    *)
(* reruns: a session's run may be cut by a rerun of its script;            *)
(* kinds: the flows a session may choose; sessions: those there are.       *)
HostRecord ==
  [hosted : BOOLEAN, reruns : BOOLEAN, kinds : SUBSET {"load", "shipper"},
   sessions : SUBSET Session]

(* A session name also names the run id its latest run asked for.          *)
ASSUME SessionAssumption ==
  /\ Host \subseteq HostRecord
  /\ \A h \in Host : h.reruns => h.hosted
  /\ \A h \in Host : ~h.hosted => \A s, t \in h.sessions : s = t
  /\ Plan \in Seq(Kind) /\ Plan # <<>>
  /\ NoId \notin Session /\ FreshId \notin Session /\ NoId # FreshId

VARIABLES
  host,      \* how this process is hosted
  flow,      \* FLOW_STATE
  runId,     \* CURRENT_RUN_ID
  pc,        \* where each session's code is
  kind,      \* the flow it runs
  left,      \* the flows of the plan still to run
  msg,       \* the message it is about to send
  named,     \* the run id it was given
  stamp,     \* RunID of the envelope being sent
  answer,    \* ResponseType of the BidResponse
  verdict,   \* what verification found
  dispatch,  \* DispatchAuthorization of the policy decision
  broker, carrier,  \* completed_bookings of the session's two agents
  status     \* the status line

machine == <<flow, runId>>
locals == <<kind, left, msg, named, stamp, answer, verdict, dispatch>>
books == <<broker, carrier>>
vars == <<host, machine, pc, locals, books, status>>

Hosted == host.hosted
Reruns == host.reruns
HostedKind == host.kinds
Users == host.sessions

Init ==
  /\ host \in Host
  /\ flow = InitialFlow
  /\ runId = NoId
  /\ pc = [s \in Session |-> "idle"]
  /\ kind = [s \in Session |-> "none"]
  /\ left = [s \in Session |-> IF Hosted THEN <<>> ELSE Plan]
  /\ msg = [s \in Session |-> "New"]
  /\ named = [s \in Session |-> NoId]
  /\ stamp = [s \in Session |-> NoId]
  /\ answer = [s \in Session |-> "none"]
  /\ verdict = [s \in Session |-> "none"]
  /\ dispatch = [s \in Session |-> "none"]
  /\ broker = [s \in Session |-> {}]
  /\ carrier = [s \in Session |-> {}]
  /\ status = [s \in Session |-> "Ready"]

Goto(s, to) == pc' = [pc EXCEPT ![s] = to]

(* Build message m next.                                                   *)
Send(s, m) ==
  /\ Goto(s, "compose")
  /\ msg' = [msg EXCEPT ![s] = m]

(* What a flow leaves behind is gone when it ends.                         *)
Forget(s) ==
  /\ msg' = [msg EXCEPT ![s] = "New"]
  /\ stamp' = [stamp EXCEPT ![s] = NoId]
  /\ answer' = [answer EXCEPT ![s] = "none"]
  /\ verdict' = [verdict EXCEPT ![s] = "none"]
  /\ dispatch' = [dispatch EXCEPT ![s] = "none"]

(* The script run is over.                                                 *)
Rest(s) ==
  /\ Goto(s, "idle")
  /\ kind' = [kind EXCEPT ![s] = "none"]
  /\ named' = [named EXCEPT ![s] = NoId]
  /\ Forget(s)
  /\ UNCHANGED left

(* Mutant of Continue: the plan is started over.                           *)
StartOver(s) ==
  /\ Goto(s, "compose")
  /\ kind' = [kind EXCEPT ![s] = Head(Plan)]
  /\ left' = [left EXCEPT ![s] = Tail(Plan)]
  /\ Forget(s)
  /\ UNCHANGED named

(* main() goes on to the next flow, or ends.                               *)
Continue(s) ==
  /\ IF left[s] = <<>>
     THEN Goto(s, "over") /\ UNCHANGED <<kind, left>>
     ELSE /\ Goto(s, "compose")
          /\ kind' = [kind EXCEPT ![s] = Head(left[s])]
          /\ left' = [left EXCEPT ![s] = Tail(left[s])]
  /\ Forget(s)
  /\ UNCHANGED named

(* The flow returns.                                                       *)
Return(s, line) ==
  /\ IF Hosted THEN Rest(s) ELSE Continue(s)
  /\ status' = [status EXCEPT ![s] = line]

(* The flow fails: a session shows it, main() dies with its agents.        *)
Fail(s, line) ==
  IF Hosted
  THEN Return(s, line) /\ UNCHANGED books
  ELSE /\ Goto(s, "over")
       /\ Forget(s)
       /\ broker' = [broker EXCEPT ![s] = {}]
       /\ carrier' = [carrier EXCEPT ![s] = {}]
       /\ status' = [status EXCEPT ![s] = line]
       /\ UNCHANGED <<kind, left, named>>
-------------------------------------------------------------------------------
(* reset_state, for a page opened, Reset pressed (k = "none") or a run     *)
(* started; the session's agents and status are replaced one by one.       *)

Press(s, k) ==
  /\ Hosted
  /\ pc[s] = "idle"
  /\ flow' = InitialFlow
  /\ runId' = NoId
  /\ Goto(s, "new_broker")
  /\ kind' = [kind EXCEPT ![s] = k]
  /\ UNCHANGED <<left, msg, named, stamp, answer, verdict, dispatch, books, status>>

NewBroker(s) ==
  /\ pc[s] = "new_broker"
  /\ broker' = [broker EXCEPT ![s] = {}]
  /\ Goto(s, "new_carrier")
  /\ UNCHANGED <<machine, locals, carrier, status>>

(* Mutant of NewCarrier: the old agent is kept.                            *)
KeepCarrier(s) ==
  /\ pc[s] = "new_carrier"
  /\ Goto(s, "ready")
  /\ UNCHANGED <<machine, locals, books, status>>

NewCarrier(s) ==
  /\ pc[s] = "new_carrier"
  /\ carrier' = [carrier EXCEPT ![s] = {}]
  /\ Goto(s, "ready")
  /\ UNCHANGED <<machine, locals, broker, status>>

Ready(s) ==
  /\ pc[s] = "ready"
  /\ status' = [status EXCEPT ![s] = "Ready"]
  /\ Goto(s, IF kind[s] = "none" THEN "idle" ELSE "naming")
  /\ UNCHANGED <<machine, locals, books>>

(* main() up to set_protocol_run_id.                                       *)
Launch(s) ==
  /\ ~Hosted
  /\ pc[s] = "idle"
  /\ flow' = InitialFlow
  /\ runId' = NoId
  /\ Goto(s, "naming")
  /\ kind' = [kind EXCEPT ![s] = Head(Plan)]
  /\ left' = [left EXCEPT ![s] = Tail(Plan)]
  /\ UNCHANGED <<msg, named, stamp, answer, verdict, dispatch, books, status>>

(* set_protocol_run_id sets the id under the lock and reads it back        *)
(* outside.                                                                *)
SetRunId(s) ==
  /\ pc[s] = "naming"
  /\ runId' = s
  /\ Goto(s, "named")
  /\ UNCHANGED <<flow, locals, books, status>>

ReadRunId(s) ==
  /\ pc[s] = "named"
  /\ named' = [named EXCEPT ![s] = runId]
  /\ Send(s, "New")
  /\ UNCHANGED <<machine, kind, left, stamp, answer, verdict, dispatch, books, status>>
-------------------------------------------------------------------------------
(* Sending a message: build_envelope, validate_envelope.                   *)

(* get_protocol_run_id mints an id if there is none.                       *)
IdAtHand == IF runId = NoId THEN FreshId ELSE runId

(* Mutant of Compose: every envelope gets an id of its own.                *)
ComposeFresh(s) ==
  /\ pc[s] = "compose"
  /\ runId' = FreshId
  /\ Goto(s, "stamp")
  /\ UNCHANGED <<flow, locals, books, status>>

(* get_protocol_run_id makes sure that there is an id ...                  *)
Compose(s) ==
  /\ pc[s] = "compose"
  /\ runId' = IdAtHand
  /\ Goto(s, "stamp")
  /\ UNCHANGED <<flow, locals, books, status>>

(* ... and returns what is there by then.                                  *)
Stamp(s) ==
  /\ pc[s] = "stamp"
  /\ stamp' = [stamp EXCEPT ![s] = runId]
  /\ Goto(s, "validate")
  /\ UNCHANGED <<machine, kind, left, msg, named, answer, verdict, dispatch, books, status>>

(* The envelope cannot be signed: openssl fails or takes too long, the key *)
(* file is gone. append_message builds it outside its try: a session's run *)
(* dies there and its status line stays as it is; main() dies.             *)
Unsigned(s) ==
  /\ pc[s] = "stamp"
  /\ IF Hosted THEN Rest(s) /\ UNCHANGED <<books, status>> ELSE Fail(s, "stopped")
  /\ UNCHANGED machine

(* Where the flow goes on once message m is valid.                         *)
Proceed(s) ==
  \/ msg[s] = "New" /\ Send(s, "Search")
  \/ /\ UNCHANGED msg
     /\ \/ msg[s] = "Search" /\ Goto(s, "match")
        \/ msg[s] = "BidRequest" /\ Goto(s, "respond")
        \/ msg[s] = "BidResponse" /\ Goto(s, "settle")
        \/ msg[s] = "ExecutionReport" /\ Goto(s, "complete")

Accept(s) ==
  /\ pc[s] = "validate"
  /\ Permitted(flow, kind[s], msg[s])
  /\ flow' = Advanced(flow, kind[s], msg[s])
  /\ Proceed(s)
  /\ UNCHANGED <<runId, kind, left, named, stamp, answer, verdict, dispatch, books, status>>

(* Route or state forbid it; or the envelope is not valid, or the replay   *)
(* store does not answer, which may happen to any message.                 *)
Refuse(s) ==
  /\ pc[s] = "validate"
  /\ Fail(s, "refused")
  /\ UNCHANGED machine
-------------------------------------------------------------------------------
(* The agents.                                                             *)

(* search_loads, search_trucks.                                            *)
Match(s) ==
  /\ pc[s] = "match"
  /\ \/ /\ Send(s, "BidRequest")
        /\ UNCHANGED <<kind, left, named, stamp, answer, verdict, dispatch, status>>
     \/ Return(s, "stopped")
  /\ UNCHANGED <<machine, books>>

(* respond_to_bid, with the response asked for. A bid takes over the terms *)
(* of the posting, so no term is in dispute; the amount may be too low.    *)
Answer(forced, enough) == IF forced = "Accept" /\ ~enough THEN "Reject" ELSE forced

(* The truck flow asks for no other response.                              *)
Forced(k) == IF k = "truck" THEN {"Accept"} ELSE {"Accept", "Counter", "Reject"}

Respond(s) ==
  /\ pc[s] = "respond"
  /\ \E forced \in Forced(kind[s]), enough \in BOOLEAN :
       answer' = [answer EXCEPT ![s] = Answer(forced, enough)]
  /\ Send(s, "BidResponse")
  /\ UNCHANGED <<machine, kind, left, named, stamp, verdict, dispatch, books, status>>

(* Mutant of Settle: a counter offer is taken for an agreement.            *)
SettleUnlessRejected(s) ==
  /\ pc[s] = "settle"
  /\ \/ /\ answer[s] # "Reject"
        /\ Goto(s, "verify")
        /\ UNCHANGED <<locals, status>>
     \/ Return(s, "stopped")
  /\ UNCHANGED <<machine, books>>

(* The bid was accepted, the agents' capabilities match and the session's  *)
(* rate limit allows a verification; or the flow ends here.                *)
Settle(s) ==
  /\ pc[s] = "settle"
  /\ \/ /\ answer[s] = "Accept"
        /\ Goto(s, "verify")
        /\ UNCHANGED <<locals, status>>
     \/ Return(s, "stopped")
  /\ UNCHANGED <<machine, books>>

(* evaluate_verification_policy_decision: a compliance failure blocks; for *)
(* an outage, profile and risk tier decide.                                *)
Decisions ==
  [ success  |-> {"Allowed"},
    negative |-> {"Blocked"},
    degraded |-> {"Allowed", "Hold", "Blocked"} ]

(* Mutant of Verify: ShouldBook is not asked.                              *)
VerifyAndBook(s) ==
  /\ pc[s] = "verify"
  /\ \E found \in {"success", "negative", "degraded"} :
       \E decision \in Decisions[found] :
         /\ verdict' = [verdict EXCEPT ![s] = found]
         /\ dispatch' = [dispatch EXCEPT ![s] = decision]
         /\ Goto(s, "book")
  /\ UNCHANGED <<machine, books, kind, left, msg, named, stamp, answer, status>>

(* run_verification returns or raises, the policy decides.                 *)
Verify(s) ==
  /\ pc[s] = "verify"
  /\ \E found \in {"success", "negative", "degraded"} :
       \E decision \in Decisions[found] :
         IF decision = "Blocked"
         THEN Return(s, "stopped")
         ELSE /\ verdict' = [verdict EXCEPT ![s] = found]
              /\ dispatch' = [dispatch EXCEPT ![s] = decision]
              /\ Goto(s, "book")
              /\ UNCHANGED <<kind, left, msg, named, stamp, answer, status>>
  /\ UNCHANGED <<machine, books>>

VerifierRaises(s) ==
  /\ pc[s] = "verify"
  /\ Fail(s, "stopped")
  /\ UNCHANGED machine

(* create_execution_report: the broker books before the report is sent.    *)
Report(s) ==
  /\ pc[s] = "book"
  /\ broker' = [broker EXCEPT ![s] = @ \cup {kind[s]}]
  /\ Send(s, "ExecutionReport")
  /\ UNCHANGED <<machine, kind, left, named, stamp, answer, verdict, dispatch, carrier, status>>

(* mark_booking_complete, mark_truck_booking_complete.                     *)
MarkComplete(s) ==
  /\ pc[s] = "complete"
  /\ carrier' = [carrier EXCEPT ![s] = @ \cup {kind[s]}]
  /\ Goto(s, "announce")
  /\ UNCHANGED <<machine, locals, broker, status>>

(* The summary asks for the run id once more.                              *)
Announce(s) ==
  /\ pc[s] = "announce"
  /\ runId' = IdAtHand
  /\ Return(s, "completed")
  /\ UNCHANGED <<flow, books>>

(* The user touches the page: Streamlit stops the script where it is.      *)
Cut(s) ==
  /\ Reruns
  /\ pc[s] # "idle"
  /\ Rest(s)
  /\ UNCHANGED <<machine, books, status>>

Step(s) ==
  \/ NewBroker(s) \/ NewCarrier(s) \/ Ready(s) \/ SetRunId(s) \/ ReadRunId(s)
  \/ Compose(s) \/ Stamp(s) \/ Unsigned(s) \/ Accept(s) \/ Refuse(s)
  \/ Match(s) \/ Respond(s) \/ Settle(s) \/ Verify(s) \/ VerifierRaises(s)
  \/ Report(s) \/ MarkComplete(s) \/ Announce(s)

Next ==
  /\ UNCHANGED host
  /\ \E s \in Users :
       \/ \E k \in HostedKind \cup {"none"} : Press(s, k)
       \/ Launch(s) \/ Step(s) \/ Cut(s)

Spec == Init /\ [][Next]_vars /\ \A s \in Session : WF_vars(UNCHANGED host /\ Step(s))
-------------------------------------------------------------------------------
RunIds == Session \cup {NoId, FreshId}

Places == {"idle", "new_broker", "new_carrier", "ready", "naming", "named",
           "compose", "stamp", "validate", "match", "respond", "settle",
           "verify", "book", "complete", "announce", "over"}

Answers == {"none", "Accept", "Counter", "Reject"}
Verdicts == {"none", "success", "degraded"}
Dispatches == {"none", "Allowed", "Hold"}
StatusLine == {"Ready", "refused", "stopped", "completed"}

TypeOK ==
  /\ host \in Host
  /\ flow \in [{"load", "truck"} -> State]
  /\ runId \in RunIds
  /\ pc \in [Session -> Places]
  /\ kind \in [Session -> Kind \cup {"none"}]
  /\ left \in [Session -> Seq(Kind)]
  /\ msg \in [Session -> MessageType]
  /\ named \in [Session -> RunIds]
  /\ stamp \in [Session -> RunIds]
  /\ answer \in [Session -> Answers]
  /\ verdict \in [Session -> Verdicts]
  /\ dispatch \in [Session -> Dispatches]
  /\ broker \in [Session -> SUBSET (Kind \cup {"none"})]
  /\ carrier \in [Session -> SUBSET (Kind \cup {"none"})]
  /\ status \in [Session -> StatusLine]

(* Where one session has the runtime to itself, neither the routes nor the *)
(* state machine ever refuse a message of its flows, and every message     *)
(* carries the id of its run: however earlier flows ended, wherever an     *)
(* earlier run was cut, in whatever order main() runs its flows.           *)
RunUndisturbed ==
  (\A s, t \in Users : s = t) =>
    \A s \in Users :
      pc[s] = "validate" => Permitted(flow, kind[s], msg[s]) /\ stamp[s] = named[s]

(* As long as no run is cut, what a session shows when it is at rest is    *)
(* true of both agents' books: a completed booking is in both, the carrier *)
(* has none the broker lacks, a flow that stopped left them equal, and a   *)
(* session that shows Ready has a carrier with no booking. The broker has  *)
(* one the carrier lacks only where the report was refused, or could not   *)
(* be signed: that run dies after the broker has booked and still shows    *)
(* Ready.                                                                  *)
StatusHonest ==
  ~Reruns => \A s \in Session : pc[s] \in {"idle", "over"} =>
    /\ status[s] = "completed" => carrier[s] # {}
    /\ carrier[s] \subseteq broker[s]
    /\ status[s] \in {"stopped", "completed"} => broker[s] = carrier[s]
    /\ status[s] = "Ready" => carrier[s] = {}

(* The broker books a flow only after its own bid was accepted, after its  *)
(* own verification did not come out negative, and after a policy decision *)
(* that does not block: no cut run, other session or earlier flow lends    *)
(* it theirs.                                                              *)
BookingIsVetted ==
  [][\A s \in Session : broker'[s] \ broker[s] # {} =>
       /\ broker'[s] \ broker[s] = {kind[s]}
       /\ answer[s] = "Accept"
       /\ verdict[s] \in {"success", "degraded"}
       /\ dispatch[s] \in {"Allowed", "Hold"}]_vars

(* A run that was started ends.                                            *)
RunEnds == \A s \in Session : pc[s] \notin {"idle", "over"} ~> pc[s] \in {"idle", "over"}
-------------------------------------------------------------------------------
(* Inductive invariants.                                                   *)

Sending(s) == pc[s] \in {"compose", "stamp", "validate"}
InFlow(s) ==
  Sending(s) \/ pc[s] \in {"match", "respond", "settle", "verify", "book", "complete", "announce"}

(* Why RunUndisturbed holds: the machine stands where the flow has left it *)
(* and the run id is the flow's own.                                       *)
InStep(s) ==
  LET at == flow[Domain(kind[s])] IN
  /\ pc[s] \in {"naming", "named"} \/ InFlow(s) => kind[s] \in Kind
  /\ pc[s] = "named" => runId = s
  /\ InFlow(s) => runId = s /\ named[s] = s
  /\ pc[s] = "validate" => stamp[s] = s
  /\ Sending(s) => at \in AllowedPrevious[msg[s]]
  /\ pc[s] = "match" => at = "SEARCH"
  /\ pc[s] = "respond" => at = "BIDREQUEST"
  /\ pc[s] \in {"settle", "verify", "book"} => at = "BIDRESPONSE"

RunInv ==
  /\ TypeOK
  /\ (\A s, t \in Users : s = t) => \A s \in Users : InStep(s)

(* Why BookingIsVetted holds: each place a flow reaches has its evidence.  *)
Vetted(s) ==
  /\ pc[s] \in {"naming", "named"} \/ InFlow(s) => kind[s] \in Kind
  /\ pc[s] \in {"verify", "book"} => answer[s] = "Accept"
  /\ pc[s] = "book" => verdict[s] # "none" /\ dispatch[s] # "none"

VetInv == TypeOK /\ \A s \in Session : Vetted(s)

(* Why StatusHonest holds: the books differ only while a report is under   *)
(* way, and the carrier's is the shorter one; a session shows Ready for as *)
(* long as its flow runs, and its carrier books last.                      *)
Balanced(s) ==
  /\ pc[s] = "announce" => carrier[s] # {}
  /\ pc[s] = "complete" \/ (Sending(s) /\ msg[s] = "ExecutionReport") =>
       broker[s] = carrier[s] \cup {kind[s]}
  /\ pc[s] \in {"naming", "named", "match", "respond", "settle", "verify", "book", "announce"}
       \/ (Sending(s) /\ msg[s] # "ExecutionReport") => broker[s] = carrier[s]
  /\ ~Hosted /\ pc[s] = "idle" => broker[s] = carrier[s] /\ carrier[s] = {}
  /\ Hosted /\ (pc[s] \in {"naming", "named"} \/ InFlow(s)) =>
       status[s] = "Ready" /\ (pc[s] # "announce" => carrier[s] = {})
  /\ pc[s] = "new_carrier" => broker[s] = {}
  /\ pc[s] = "ready" => broker[s] = {} /\ carrier[s] = {}

BooksInv ==
  /\ TypeOK
  /\ ~Reruns => \A s \in Session : Balanced(s)
  /\ StatusHonest
===============================================================================
