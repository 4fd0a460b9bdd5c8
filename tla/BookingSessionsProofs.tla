------------------------ MODULE BookingSessionsProofs -------------------------
(***************************************************************************)
(* Proofs about BookingSessions: type correctness, and that a session that *)
(* has the runtime to itself is never disturbed by what other flows and    *)
(* runs left in it, for any plan of flows and any cut of a run.            *)
(***************************************************************************)
EXTENDS BookingSessions, SequenceTheorems, TLAPS

(* The plan goes on with a flow and a shorter plan.                        *)
LEMMA PlanParts ==
  ASSUME NEW p \in Seq(Kind), p # <<>>
  PROVE  Head(p) \in Kind /\ Tail(p) \in Seq(Kind)
  OBVIOUS

(* A process stays hosted as it is, and its sessions are sessions.         *)
LEMMA HostKept ==
  ASSUME host' = host
  PROVE  Hosted' = Hosted /\ Reruns' = Reruns /\ Users' = Users
  BY DEF Hosted, Reruns, Users

LEMMA HostShape ==
  ASSUME TypeOK
  PROVE  HostedKind \subseteq Kind /\ Users \subseteq Session
  BY SessionAssumption DEF TypeOK, HostRecord, HostedKind, Users, Kind

LEMMA ForgetTyped ==
  ASSUME TypeOK, NEW s \in Session, Forget(s)
  PROVE  /\ msg' \in [Session -> MessageType]
         /\ stamp' \in [Session -> RunIds]
         /\ answer' \in [Session -> Answers]
         /\ verdict' \in [Session -> Verdicts]
         /\ dispatch' \in [Session -> Dispatches]
  BY DEF TypeOK, Forget, RunIds, MessageType, Answers, Verdicts, Dispatches

(* Every way in which a flow ends leaves well-typed locals behind.         *)
LEMMA ReturnTyped ==
  ASSUME TypeOK, NEW s \in Session, NEW line \in StatusLine,
         Return(s, line)
  PROVE  /\ Forget(s)
         /\ pc' \in [Session -> Places]
         /\ kind' \in [Session -> Kind \cup {"none"}]
         /\ left' \in [Session -> Seq(Kind)]
         /\ named' \in [Session -> RunIds]
         /\ status' \in [Session -> StatusLine]
  <1>1. status' \in [Session -> StatusLine]
    BY DEF Return, TypeOK
  <1>2. CASE Hosted
    <2>1. Rest(s)
      BY <1>2 DEF Return
    <2>2. Forget(s)
      BY <2>1 DEF Rest
    <2>3. /\ pc' \in [Session -> Places]
          /\ kind' \in [Session -> Kind \cup {"none"}]
          /\ left' \in [Session -> Seq(Kind)]
          /\ named' \in [Session -> RunIds]
      BY <2>1 DEF Rest, TypeOK, Goto, Places, RunIds
    <2>4. QED BY <1>1, <2>2, <2>3
  <1>3. CASE ~Hosted
    <2>1. Continue(s)
      BY <1>3 DEF Return
    <2>2. Forget(s) /\ named' \in [Session -> RunIds]
      BY <2>1 DEF Continue, TypeOK
    <2>3. /\ pc' \in [Session -> Places]
          /\ kind' \in [Session -> Kind \cup {"none"}]
          /\ left' \in [Session -> Seq(Kind)]
      <3>1. CASE left[s] = <<>>
        BY <2>1, <3>1 DEF Continue, TypeOK, Goto, Places
      <3>2. CASE left[s] # <<>>
        <4>1. Head(left[s]) \in Kind /\ Tail(left[s]) \in Seq(Kind)
          BY <3>2, PlanParts DEF TypeOK
        <4>2. pc' \in [Session -> Places]
          BY <2>1, <3>2 DEF Continue, TypeOK, Goto, Places
        <4>3. kind' \in [Session -> Kind \cup {"none"}]
          <5>1. \E k \in Kind : kind' = [kind EXCEPT ![s] = k]
            BY <2>1, <3>2, <4>1 DEF Continue
          <5>2. QED BY <5>1 DEF TypeOK
        <4>4. left' \in [Session -> Seq(Kind)]
          BY <2>1, <3>2, <4>1 DEF Continue, TypeOK
        <4>5. QED BY <4>2, <4>3, <4>4
      <3>3. QED BY <3>1, <3>2
    <2>4. QED BY <1>1, <2>2, <2>3
  <1>4. QED BY <1>2, <1>3

LEMMA FailTyped ==
  ASSUME TypeOK, NEW s \in Session, NEW line \in StatusLine,
         Fail(s, line), UNCHANGED machine, host' = host
  PROVE  TypeOK'
  <1>1. CASE Hosted
    <2>1. Return(s, line) /\ UNCHANGED books
      BY <1>1 DEF Fail
    <2>2. QED BY <2>1, ReturnTyped, ForgetTyped DEF TypeOK, machine, books
  <1>2. CASE ~Hosted
    <2>1. Forget(s)
      BY <1>2 DEF Fail
    <2>2. pc' \in [Session -> Places]
      BY <1>2 DEF Fail, TypeOK, Goto, Places
    <2>3. broker' \in [Session -> SUBSET (Kind \cup {"none"})]
      BY <1>2 DEF Fail, TypeOK
    <2>4. carrier' \in [Session -> SUBSET (Kind \cup {"none"})]
      BY <1>2 DEF Fail, TypeOK
    <2>5. status' \in [Session -> StatusLine]
      BY <1>2 DEF Fail, TypeOK
    <2>6. UNCHANGED <<kind, left, named>>
      BY <1>2 DEF Fail
    <2>7. QED BY <2>1, <2>2, <2>3, <2>4, <2>5, <2>6, ForgetTyped DEF TypeOK, machine
  <1>3. QED BY <1>1, <1>2

LEMMA TypeInit == Init => TypeOK
  BY SessionAssumption DEF Init, TypeOK, InitialFlow, State, RunIds, Places, MessageType,
     Answers, Verdicts, Dispatches, StatusLine

LEMMA RestTyped ==
  ASSUME TypeOK, NEW s \in Session, Rest(s), UNCHANGED <<machine, books, status>>, host' = host
  PROVE  TypeOK'
  <1>1. Forget(s) /\ UNCHANGED left
    BY DEF Rest
  <1>2. /\ pc' \in [Session -> Places]
        /\ kind' \in [Session -> Kind \cup {"none"}]
        /\ named' \in [Session -> RunIds]
    BY DEF Rest, Goto, TypeOK, Places, RunIds
  <1>3. QED BY <1>1, <1>2, ForgetTyped DEF TypeOK, machine, books

(* A step that ends the flow and writes neither machine nor books.         *)
LEMMA EndTyped ==
  ASSUME TypeOK, NEW s \in Session, NEW line \in StatusLine,
         Return(s, line), UNCHANGED <<flow, books>>, runId' \in RunIds, host' = host
  PROVE  TypeOK'
  BY ReturnTyped, ForgetTyped DEF TypeOK, books

LEMMA TypeStep == TypeOK /\ [Next]_vars => TypeOK'
  <1> SUFFICES ASSUME TypeOK, [Next]_vars PROVE TypeOK'
    OBVIOUS
  <1>0. host' = host
    BY DEF Next, vars
  <1> USE <1>0 DEF Goto, Send, machine, locals, books
  <1>1. ASSUME NEW s \in Session, NEW k \in HostedKind \cup {"none"}, Press(s, k)
        PROVE  TypeOK'
    BY <1>1, HostShape DEF Press, TypeOK, InitialFlow, State, RunIds, Places
  <1>2. ASSUME NEW s \in Session, NewBroker(s) PROVE TypeOK'
    BY <1>2 DEF NewBroker, TypeOK, Places
  <1>3. ASSUME NEW s \in Session, NewCarrier(s) PROVE TypeOK'
    BY <1>3 DEF NewCarrier, TypeOK, Places
  <1>4. ASSUME NEW s \in Session, Ready(s) PROVE TypeOK'
    BY <1>4 DEF Ready, TypeOK, Places, StatusLine
  <1>5. ASSUME NEW s \in Session, SetRunId(s) PROVE TypeOK'
    BY <1>5 DEF SetRunId, TypeOK, Places, RunIds
  <1>6. ASSUME NEW s \in Session, ReadRunId(s) PROVE TypeOK'
    BY <1>6 DEF ReadRunId, TypeOK, Places, RunIds, MessageType
  <1>7. ASSUME NEW s \in Session, Compose(s) PROVE TypeOK'
    BY <1>7 DEF Compose, TypeOK, IdAtHand, Places, RunIds
  <1>8. ASSUME NEW s \in Session, Stamp(s) PROVE TypeOK'
    BY <1>8 DEF Stamp, TypeOK, Places, RunIds
  <1>9. ASSUME NEW s \in Session, Accept(s) PROVE TypeOK'
    <2>1. flow' \in [{"load", "truck"} -> State]
      BY <1>9 DEF Accept, Advanced, NextState, TypeOK, Domain, State, MessageType
    <2>2. pc' \in [Session -> Places]
      <3>1. \E to \in Places : Goto(s, to)
        BY <1>9 DEF Accept, Proceed, Places
      <3>2. QED BY <3>1 DEF TypeOK
    <2>3. msg' \in [Session -> MessageType]
      BY <1>9 DEF Accept, Proceed, TypeOK, MessageType
    <2>4. UNCHANGED <<runId, kind, left, named, stamp, answer, verdict, dispatch, books, status>>
      BY <1>9 DEF Accept
    <2>5. QED BY <2>1, <2>2, <2>3, <2>4 DEF TypeOK
  <1>10. ASSUME NEW s \in Session, Refuse(s) PROVE TypeOK'
    BY <1>10, FailTyped DEF Refuse, StatusLine
  <1>11. ASSUME NEW s \in Session, Match(s) PROVE TypeOK'
    <2>1. ASSUME Return(s, "stopped") PROVE TypeOK'
      <3>1. UNCHANGED <<flow, runId, books>>
        BY <1>11 DEF Match
      <3>2. runId' \in RunIds
        BY <3>1 DEF TypeOK
      <3>3. "stopped" \in StatusLine
        BY DEF StatusLine
      <3>4. QED BY <2>1, <3>1, <3>2, <3>3, EndTyped
    <2>2. ASSUME ~Return(s, "stopped") PROVE TypeOK'
      BY <1>11, <2>2 DEF Match, TypeOK, Places, MessageType
    <2>3. QED BY <2>1, <2>2
  <1>12. ASSUME NEW s \in Session, Respond(s) PROVE TypeOK'
    BY <1>12 DEF Respond, TypeOK, Answer, Forced, Answers, Places, MessageType
  <1>13. ASSUME NEW s \in Session, Settle(s) PROVE TypeOK'
    <2>1. ASSUME Return(s, "stopped") PROVE TypeOK'
      <3>1. UNCHANGED <<flow, runId, books>>
        BY <1>13 DEF Settle
      <3>2. runId' \in RunIds
        BY <3>1 DEF TypeOK
      <3>3. "stopped" \in StatusLine
        BY DEF StatusLine
      <3>4. QED BY <2>1, <3>1, <3>2, <3>3, EndTyped
    <2>2. ASSUME ~Return(s, "stopped") PROVE TypeOK'
      BY <1>13, <2>2 DEF Settle, TypeOK, Places
    <2>3. QED BY <2>1, <2>2
  <1>14. ASSUME NEW s \in Session, Verify(s) PROVE TypeOK'
    <2>1. ASSUME Return(s, "stopped") PROVE TypeOK'
      <3>1. UNCHANGED <<flow, runId, books>>
        BY <1>14 DEF Verify
      <3>2. runId' \in RunIds
        BY <3>1 DEF TypeOK
      <3>3. "stopped" \in StatusLine
        BY DEF StatusLine
      <3>4. QED BY <2>1, <3>1, <3>2, <3>3, EndTyped
    <2>2. ASSUME ~Return(s, "stopped") PROVE TypeOK'
      <3>1. PICK found \in {"success", "negative", "degraded"} :
              \E decision \in Decisions[found] :
                /\ decision # "Blocked"
                /\ verdict' = [verdict EXCEPT ![s] = found]
                /\ dispatch' = [dispatch EXCEPT ![s] = decision]
                /\ Goto(s, "book")
                /\ UNCHANGED <<kind, left, msg, named, stamp, answer, status>>
        BY <1>14, <2>2 DEF Verify
      <3>2. UNCHANGED <<machine, books>>
        BY <1>14 DEF Verify
      <3>3. found \in {"success", "degraded"}
        BY <3>1 DEF Decisions
      <3>4. verdict' \in [Session -> Verdicts]
        BY <3>1, <3>3 DEF TypeOK, Verdicts
      <3>5. dispatch' \in [Session -> Dispatches]
        BY <3>1, <3>3 DEF TypeOK, Decisions, Dispatches
      <3>6. pc' \in [Session -> Places]
        BY <3>1 DEF TypeOK, Places
      <3>7. QED BY <3>1, <3>2, <3>4, <3>5, <3>6 DEF TypeOK
    <2>3. QED BY <2>1, <2>2
  <1>15. ASSUME NEW s \in Session, VerifierRaises(s) PROVE TypeOK'
    BY <1>15, FailTyped DEF VerifierRaises, StatusLine
  <1>16. ASSUME NEW s \in Session, Report(s) PROVE TypeOK'
    <2>1. kind[s] \in Kind \cup {"none"}
      BY DEF TypeOK
    <2>2. QED BY <1>16, <2>1 DEF Report, TypeOK, Places, MessageType
  <1>17. ASSUME NEW s \in Session, MarkComplete(s) PROVE TypeOK'
    <2>1. kind[s] \in Kind \cup {"none"}
      BY DEF TypeOK
    <2>2. QED BY <1>17, <2>1 DEF MarkComplete, TypeOK, Places
  <1>18. ASSUME NEW s \in Session, Announce(s) PROVE TypeOK'
    <2>1. runId' \in RunIds /\ Return(s, "completed") /\ UNCHANGED <<flow, books>>
      BY <1>18 DEF Announce, IdAtHand, TypeOK, RunIds
    <2>2. "completed" \in StatusLine
      BY DEF StatusLine
    <2>3. QED BY <2>1, <2>2, EndTyped
  <1>19. ASSUME NEW s \in Session, Cut(s) PROVE TypeOK'
    BY <1>19, RestTyped DEF Cut
  <1>20. ASSUME NEW s \in Session, Launch(s) PROVE TypeOK'
    <2>1. Head(Plan) \in Kind /\ Tail(Plan) \in Seq(Kind)
      BY SessionAssumption, PlanParts
    <2>2. pc' \in [Session -> Places]
      BY <1>20 DEF Launch, TypeOK, Places
    <2>3. kind' \in [Session -> Kind \cup {"none"}] /\ left' \in [Session -> Seq(Kind)]
      BY <1>20, <2>1 DEF Launch, TypeOK
    <2>4. flow' \in [{"load", "truck"} -> State] /\ runId' \in RunIds
      BY <1>20 DEF Launch, InitialFlow, State, RunIds
    <2>5. QED BY <1>20, <2>2, <2>3, <2>4 DEF Launch, TypeOK
  <1>21. ASSUME UNCHANGED vars PROVE TypeOK'
    BY <1>21 DEF vars, TypeOK
  <1>22. ASSUME NEW s \in Session, Unsigned(s) PROVE TypeOK'
    <2>1. CASE Hosted
      BY <1>22, <2>1, RestTyped DEF Unsigned
    <2>2. CASE ~Hosted
      BY <1>22, <2>2, FailTyped DEF Unsigned, StatusLine
    <2>3. QED BY <2>1, <2>2
  <1>23. QED
    BY <1>1, <1>2, <1>3, <1>4, <1>5, <1>6, <1>7, <1>8, <1>9, <1>10, <1>11, <1>12,
       <1>13, <1>14, <1>15, <1>16, <1>17, <1>18, <1>19, <1>20, <1>21, <1>22, HostShape
       DEF Next, Step

(* In every reachable state every variable has its type: no flow, cut or   *)
(* refusal leaves a session without a place or a book of the wrong kind.   *)
THEOREM TypeCorrect == Spec => []TypeOK
  <1>1. TypeOK /\ [Next]_vars => TypeOK'
    BY TypeStep
  <1>2. QED BY TypeInit, <1>1, PTL DEF Spec
-------------------------------------------------------------------------------
(* Frames: a step of one session leaves the others alone.                  *)

Same(t) ==
  /\ pc'[t] = pc[t] /\ kind'[t] = kind[t] /\ msg'[t] = msg[t]
  /\ answer'[t] = answer[t] /\ verdict'[t] = verdict[t] /\ dispatch'[t] = dispatch[t]
  /\ broker'[t] = broker[t] /\ carrier'[t] = carrier[t] /\ status'[t] = status[t]

SessionStep(s) ==
  \/ \E k \in HostedKind \cup {"none"} : Press(s, k)
  \/ Launch(s) \/ Step(s) \/ Cut(s)

(* Where a flow that returns has left its session.                         *)
LEMMA ReturnPlace ==
  ASSUME TypeOK, NEW s \in Session, NEW line, Return(s, line)
  PROVE  /\ Hosted => pc'[s] = "idle"
         /\ ~Hosted => \/ pc'[s] = "over"
                       \/ /\ pc'[s] = "compose" /\ kind'[s] \in Kind
                          /\ msg'[s] = "New" /\ named'[s] = named[s]
         /\ status'[s] = line
  <1>1. status'[s] = line
    BY DEF Return, TypeOK
  <1>2. CASE Hosted
    <2>1. pc'[s] = "idle"
      BY <1>2 DEF Return, Rest, Goto, TypeOK
    <2>2. QED BY <1>1, <1>2, <2>1
  <1>3. CASE ~Hosted
    <2>1. Continue(s)
      BY <1>3 DEF Return
    <2>2. msg'[s] = "New" /\ named'[s] = named[s]
      BY <2>1 DEF Continue, Forget, TypeOK
    <2>3. CASE left[s] = <<>>
      <3>1. pc'[s] = "over"
        BY <2>1, <2>3 DEF Continue, Goto, TypeOK
      <3>2. QED BY <1>1, <1>3, <3>1
    <2>4. CASE left[s] # <<>>
      <3>1. Head(left[s]) \in Kind
        BY <2>4, PlanParts DEF TypeOK
      <3>2. pc'[s] = "compose"
        BY <2>1, <2>4 DEF Continue, Goto, TypeOK
      <3>3. \E k \in Kind : kind' = [kind EXCEPT ![s] = k]
        BY <2>1, <2>4, <3>1 DEF Continue
      <3>4. kind'[s] \in Kind
        BY <3>3 DEF TypeOK
      <3>5. QED BY <1>1, <1>3, <2>2, <3>2, <3>4
    <2>5. QED BY <2>3, <2>4
  <1>4. QED BY <1>2, <1>3

LEMMA ForgetFrame ==
  ASSUME TypeOK, NEW s \in Session, NEW t \in Session, t # s, Forget(s)
  PROVE  /\ msg'[t] = msg[t] /\ answer'[t] = answer[t]
         /\ verdict'[t] = verdict[t] /\ dispatch'[t] = dispatch[t]
  BY DEF Forget, TypeOK

LEMMA ReturnFrame ==
  ASSUME TypeOK, NEW s \in Session, NEW t \in Session, t # s, NEW line, Return(s, line),
         UNCHANGED books
  PROVE  Same(t)
  <1>1. Forget(s)
    BY DEF Return, Rest, Continue
  <1>2. status'[t] = status[t]
    BY DEF Return, TypeOK
  <1>3. pc'[t] = pc[t]
    <2>1. \E to : Goto(s, to)
      BY DEF Return, Rest, Continue
    <2>2. QED BY <2>1 DEF Goto, TypeOK
  <1>4. kind'[t] = kind[t]
    <2>1. (\E k : kind' = [kind EXCEPT ![s] = k]) \/ kind' = kind
      BY DEF Return, Rest, Continue
    <2>2. QED BY <2>1 DEF TypeOK
  <1>5. QED BY <1>1, <1>2, <1>3, <1>4, ForgetFrame DEF Same, books

LEMMA FailFrame ==
  ASSUME TypeOK, NEW s \in Session, NEW t \in Session, t # s, NEW line, Fail(s, line)
  PROVE  Same(t)
  <1>1. CASE Hosted
    BY <1>1, ReturnFrame DEF Fail
  <1>2. CASE ~Hosted
    <2>1. Forget(s) /\ UNCHANGED kind
      BY <1>2 DEF Fail
    <2>2. pc'[t] = pc[t] /\ broker'[t] = broker[t] /\ carrier'[t] = carrier[t] /\ status'[t] = status[t]
      BY <1>2 DEF Fail, Goto, TypeOK
    <2>3. QED BY <2>1, <2>2, ForgetFrame DEF Same
  <1>3. QED BY <1>1, <1>2

LEMMA RestFrame ==
  ASSUME TypeOK, NEW s \in Session, NEW t \in Session, t # s, Rest(s),
         UNCHANGED <<books, status>>
  PROVE  Same(t)
  <1>1. Forget(s)
    BY DEF Rest
  <1>2. pc'[t] = pc[t] /\ kind'[t] = kind[t]
    BY DEF Rest, Goto, TypeOK
  <1>3. QED BY <1>1, <1>2, ForgetFrame DEF Same, books

LEMMA Frame ==
  ASSUME TypeOK, NEW s \in Session, NEW t \in Session, t # s, SessionStep(s)
  PROVE  Same(t)
  <1> USE DEF Goto, Send, machine, locals, books
  <1>1. ASSUME NEW k \in HostedKind \cup {"none"}, Press(s, k) PROVE Same(t)
    BY <1>1 DEF Press, TypeOK, Same
  <1>2. ASSUME Launch(s) PROVE Same(t)
    BY <1>2 DEF Launch, TypeOK, Same
  <1>3. ASSUME NewBroker(s) PROVE Same(t)
    BY <1>3 DEF NewBroker, TypeOK, Same
  <1>4. ASSUME NewCarrier(s) PROVE Same(t)
    BY <1>4 DEF NewCarrier, TypeOK, Same
  <1>5. ASSUME Ready(s) PROVE Same(t)
    BY <1>5 DEF Ready, TypeOK, Same
  <1>6. ASSUME SetRunId(s) PROVE Same(t)
    BY <1>6 DEF SetRunId, TypeOK, Same
  <1>7. ASSUME ReadRunId(s) PROVE Same(t)
    BY <1>7 DEF ReadRunId, TypeOK, Same
  <1>8. ASSUME Compose(s) PROVE Same(t)
    BY <1>8 DEF Compose, TypeOK, Same
  <1>9. ASSUME Stamp(s) PROVE Same(t)
    BY <1>9 DEF Stamp, TypeOK, Same
  <1>10. ASSUME Accept(s) PROVE Same(t)
    <2>1. (\E to : Goto(s, to)) /\ ((\E m : msg' = [msg EXCEPT ![s] = m]) \/ msg' = msg)
      BY <1>10 DEF Accept, Proceed
    <2>2. pc'[t] = pc[t] /\ msg'[t] = msg[t]
      BY <2>1 DEF TypeOK
    <2>3. QED BY <1>10, <2>2 DEF Accept, Same
  <1>11. ASSUME Refuse(s) PROVE Same(t)
    BY <1>11, FailFrame DEF Refuse
  <1>12. ASSUME Match(s) PROVE Same(t)
    <2>1. ASSUME Return(s, "stopped") PROVE Same(t)
      BY <1>12, <2>1, ReturnFrame DEF Match
    <2>2. ASSUME ~Return(s, "stopped") PROVE Same(t)
      BY <1>12, <2>2 DEF Match, TypeOK, Same
    <2>3. QED BY <2>1, <2>2
  <1>13. ASSUME Respond(s) PROVE Same(t)
    BY <1>13 DEF Respond, TypeOK, Same
  <1>14. ASSUME Settle(s) PROVE Same(t)
    <2>1. ASSUME Return(s, "stopped") PROVE Same(t)
      BY <1>14, <2>1, ReturnFrame DEF Settle
    <2>2. ASSUME ~Return(s, "stopped") PROVE Same(t)
      BY <1>14, <2>2 DEF Settle, TypeOK, Same
    <2>3. QED BY <2>1, <2>2
  <1>15. ASSUME Verify(s) PROVE Same(t)
    <2>1. ASSUME Return(s, "stopped") PROVE Same(t)
      BY <1>15, <2>1, ReturnFrame DEF Verify
    <2>2. ASSUME ~Return(s, "stopped") PROVE Same(t)
      <3>1. PICK found, decision : /\ verdict' = [verdict EXCEPT ![s] = found]
                                   /\ dispatch' = [dispatch EXCEPT ![s] = decision]
                                   /\ Goto(s, "book")
                                   /\ UNCHANGED <<kind, left, msg, named, stamp, answer, status>>
        BY <1>15, <2>2 DEF Verify
      <3>2. UNCHANGED books
        BY <1>15 DEF Verify
      <3>3. QED BY <3>1, <3>2 DEF TypeOK, Same
    <2>3. QED BY <2>1, <2>2
  <1>16. ASSUME VerifierRaises(s) PROVE Same(t)
    BY <1>16, FailFrame DEF VerifierRaises
  <1>17. ASSUME Report(s) PROVE Same(t)
    BY <1>17 DEF Report, TypeOK, Same
  <1>18. ASSUME MarkComplete(s) PROVE Same(t)
    BY <1>18 DEF MarkComplete, TypeOK, Same
  <1>19. ASSUME Announce(s) PROVE Same(t)
    BY <1>19, ReturnFrame DEF Announce
  <1>20. ASSUME Cut(s) PROVE Same(t)
    BY <1>20, RestFrame DEF Cut
  <1>21. ASSUME Unsigned(s) PROVE Same(t)
    BY <1>21, RestFrame, FailFrame DEF Unsigned
  <1>22. QED
    BY <1>1, <1>2, <1>3, <1>4, <1>5, <1>6, <1>7, <1>8, <1>9, <1>10, <1>11, <1>12,
       <1>13, <1>14, <1>15, <1>16, <1>17, <1>18, <1>19, <1>20, <1>21 DEF SessionStep, Step
-------------------------------------------------------------------------------
(* A flow reaches each place with its evidence (VetInv).                  *)

LEMMA VettedSame ==
  ASSUME NEW t \in Session, Same(t), Vetted(t)
  PROVE  Vetted(t)'
  BY DEF Same, Vetted, InFlow, Sending

LEMMA VettedReturn ==
  ASSUME TypeOK, NEW s \in Session, NEW line, Return(s, line)
  PROVE  Vetted(s)'
  <1>1. pc'[s] \in {"idle", "over"} \/ (pc'[s] = "compose" /\ kind'[s] \in Kind)
    BY ReturnPlace, SessionAssumption
  <1>2. QED BY <1>1 DEF Vetted, InFlow, Sending

LEMMA VettedFail ==
  ASSUME TypeOK, NEW s \in Session, NEW line, Fail(s, line)
  PROVE  Vetted(s)'
  <1>1. CASE Hosted
    BY <1>1, VettedReturn DEF Fail
  <1>2. CASE ~Hosted
    <2>1. pc'[s] = "over"
      BY <1>2 DEF Fail, Goto, TypeOK
    <2>2. QED BY <2>1 DEF Vetted, InFlow, Sending
  <1>3. QED BY <1>1, <1>2

LEMMA VettedOwnStep ==
  ASSUME TypeOK, NEW s \in Session, Vetted(s), SessionStep(s)
  PROVE  Vetted(s)'
  <1> USE DEF Goto, Send, machine, locals, books
  <1>1. ASSUME NEW k \in HostedKind \cup {"none"}, Press(s, k) PROVE Vetted(s)'
    <2>1. pc'[s] = "new_broker"
      BY <1>1 DEF Press, TypeOK
    <2>2. QED BY <2>1 DEF Vetted, InFlow, Sending
  <1>2. ASSUME Launch(s) PROVE Vetted(s)'
    <2>1. Head(Plan) \in Kind
      BY SessionAssumption, PlanParts
    <2>2. pc'[s] = "naming" /\ kind'[s] = Head(Plan)
      BY <1>2 DEF Launch, TypeOK
    <2>3. QED BY <2>1, <2>2 DEF Vetted, InFlow, Sending
  <1>3. ASSUME NewBroker(s) PROVE Vetted(s)'
    <2>1. pc[s] = "new_broker" /\ pc'[s] = "new_carrier" /\ kind'[s] = kind[s]
      BY <1>3 DEF NewBroker, TypeOK
    <2>2. QED BY <2>1 DEF Vetted, InFlow, Sending
  <1>4. ASSUME NewCarrier(s) PROVE Vetted(s)'
    <2>1. pc[s] = "new_carrier" /\ pc'[s] = "ready" /\ kind'[s] = kind[s]
      BY <1>4 DEF NewCarrier, TypeOK
    <2>2. QED BY <2>1 DEF Vetted, InFlow, Sending
  <1>5. ASSUME Ready(s) PROVE Vetted(s)'
    <2>1. /\ kind'[s] = kind[s]
          /\ pc'[s] = "idle" \/ (pc'[s] = "naming" /\ kind[s] # "none")
      BY <1>5 DEF Ready, TypeOK
    <2>2. kind[s] \in Kind \cup {"none"}
      BY DEF TypeOK
    <2>3. QED BY <2>1, <2>2 DEF Vetted, InFlow, Sending
  <1>6. ASSUME SetRunId(s) PROVE Vetted(s)'
    <2>1. pc[s] = "naming" /\ pc'[s] = "named" /\ kind'[s] = kind[s]
      BY <1>6 DEF SetRunId, TypeOK
    <2>2. QED BY <2>1 DEF Vetted, InFlow, Sending
  <1>7. ASSUME ReadRunId(s) PROVE Vetted(s)'
    <2>1. pc[s] = "named" /\ pc'[s] = "compose" /\ kind'[s] = kind[s]
      BY <1>7 DEF ReadRunId, TypeOK
    <2>2. QED BY <2>1 DEF Vetted, InFlow, Sending
  <1>8. ASSUME Compose(s) PROVE Vetted(s)'
    <2>1. pc[s] = "compose" /\ pc'[s] = "stamp" /\ kind'[s] = kind[s]
      BY <1>8 DEF Compose, TypeOK
    <2>2. QED BY <2>1 DEF Vetted, InFlow, Sending
  <1>9. ASSUME Stamp(s) PROVE Vetted(s)'
    <2>1. pc[s] = "stamp" /\ pc'[s] = "validate" /\ kind'[s] = kind[s]
      BY <1>9 DEF Stamp, TypeOK
    <2>2. QED BY <2>1 DEF Vetted, InFlow, Sending
  <1>10. ASSUME Accept(s) PROVE Vetted(s)'
    <2>1. pc[s] = "validate" /\ kind'[s] = kind[s]
      BY <1>10 DEF Accept
    <2>2. pc'[s] \in {"compose", "match", "respond", "settle", "complete"}
      <3>1. \E to \in {"compose", "match", "respond", "settle", "complete"} : Goto(s, to)
        BY <1>10 DEF Accept, Proceed
      <3>2. QED BY <3>1 DEF TypeOK
    <2>3. QED BY <2>1, <2>2 DEF Vetted, InFlow, Sending
  <1>11. ASSUME Refuse(s) PROVE Vetted(s)'
    BY <1>11, VettedFail DEF Refuse
  <1>12. ASSUME Match(s) PROVE Vetted(s)'
    <2>1. ASSUME Return(s, "stopped") PROVE Vetted(s)'
      BY <2>1, VettedReturn
    <2>2. ASSUME ~Return(s, "stopped") PROVE Vetted(s)'
      <3>1. pc[s] = "match" /\ pc'[s] = "compose" /\ kind'[s] = kind[s]
        BY <1>12, <2>2 DEF Match, TypeOK
      <3>2. QED BY <3>1 DEF Vetted, InFlow, Sending
    <2>3. QED BY <2>1, <2>2
  <1>13. ASSUME Respond(s) PROVE Vetted(s)'
    <2>1. pc[s] = "respond" /\ pc'[s] = "compose" /\ kind'[s] = kind[s]
      BY <1>13 DEF Respond, TypeOK
    <2>2. QED BY <2>1 DEF Vetted, InFlow, Sending
  <1>14. ASSUME Settle(s) PROVE Vetted(s)'
    <2>1. ASSUME Return(s, "stopped") PROVE Vetted(s)'
      BY <2>1, VettedReturn
    <2>2. ASSUME ~Return(s, "stopped") PROVE Vetted(s)'
      <3>1. /\ pc[s] = "settle" /\ pc'[s] = "verify"
            /\ answer[s] = "Accept" /\ UNCHANGED <<kind, answer>>
        BY <1>14, <2>2 DEF Settle, TypeOK
      <3>2. QED BY <3>1 DEF Vetted, InFlow, Sending
    <2>3. QED BY <2>1, <2>2
  <1>15. ASSUME Verify(s) PROVE Vetted(s)'
    <2>1. ASSUME Return(s, "stopped") PROVE Vetted(s)'
      BY <2>1, VettedReturn
    <2>2. ASSUME ~Return(s, "stopped") PROVE Vetted(s)'
      <3>1. PICK found \in {"success", "negative", "degraded"} :
              \E decision \in Decisions[found] :
                /\ verdict' = [verdict EXCEPT ![s] = found]
                /\ dispatch' = [dispatch EXCEPT ![s] = decision]
                /\ pc' = [pc EXCEPT ![s] = "book"]
                /\ UNCHANGED <<kind, answer>>
        BY <1>15, <2>2 DEF Verify
      <3>2. \A decision \in Decisions[found] : decision # "none"
        BY <3>1 DEF Decisions
      <3>3. verdict'[s] # "none" /\ dispatch'[s] # "none" /\ pc'[s] = "book"
        BY <3>1, <3>2 DEF TypeOK
      <3>4. pc[s] = "verify"
        BY <1>15 DEF Verify
      <3>5. QED BY <3>1, <3>3, <3>4 DEF Vetted, InFlow, Sending
    <2>3. QED BY <2>1, <2>2
  <1>16. ASSUME VerifierRaises(s) PROVE Vetted(s)'
    BY <1>16, VettedFail DEF VerifierRaises
  <1>17. ASSUME Report(s) PROVE Vetted(s)'
    <2>1. pc[s] = "book" /\ pc'[s] = "compose" /\ kind'[s] = kind[s]
      BY <1>17 DEF Report, TypeOK
    <2>2. QED BY <2>1 DEF Vetted, InFlow, Sending
  <1>18. ASSUME MarkComplete(s) PROVE Vetted(s)'
    <2>1. pc[s] = "complete" /\ pc'[s] = "announce" /\ kind'[s] = kind[s]
      BY <1>18 DEF MarkComplete, TypeOK
    <2>2. QED BY <2>1 DEF Vetted, InFlow, Sending
  <1>19. ASSUME Announce(s) PROVE Vetted(s)'
    BY <1>19, VettedReturn DEF Announce
  <1>20. ASSUME Cut(s) PROVE Vetted(s)'
    <2>1. pc'[s] = "idle"
      BY <1>20 DEF Cut, Rest, TypeOK
    <2>2. QED BY <2>1 DEF Vetted, InFlow, Sending
  <1>21. ASSUME Unsigned(s) PROVE Vetted(s)'
    <2>1. CASE Hosted
      <3>1. pc'[s] = "idle"
        BY <1>21, <2>1 DEF Unsigned, Rest, TypeOK
      <3>2. QED BY <3>1 DEF Vetted, InFlow, Sending
    <2>2. CASE ~Hosted
      BY <1>21, <2>2, VettedFail DEF Unsigned
    <2>3. QED BY <2>1, <2>2
  <1>22. QED
    BY <1>1, <1>2, <1>3, <1>4, <1>5, <1>6, <1>7, <1>8, <1>9, <1>10, <1>11, <1>12,
       <1>13, <1>14, <1>15, <1>16, <1>17, <1>18, <1>19, <1>20, <1>21 DEF SessionStep, Step

LEMMA VetInit == Init => VetInv
  <1>1. Init => \A s \in Session : Vetted(s)
    BY DEF Init, Vetted, InFlow, Sending
  <1>2. QED BY <1>1, TypeInit DEF VetInv

LEMMA VetStep == VetInv /\ [Next]_vars => VetInv'
  <1> SUFFICES ASSUME VetInv, [Next]_vars PROVE VetInv'
    OBVIOUS
  <1>1. TypeOK /\ TypeOK'
    BY TypeStep DEF VetInv
  <1>2. ASSUME NEW s \in Session, SessionStep(s), NEW t \in Session PROVE Vetted(t)'
    <2>1. CASE t = s
      BY <1>1, <1>2, <2>1, VettedOwnStep DEF VetInv
    <2>2. CASE t # s
      <3>1. Same(t)
        BY <1>1, <1>2, <2>2, Frame
      <3>2. QED BY <3>1, VettedSame DEF VetInv
    <2>3. QED BY <2>1, <2>2
  <1>3. ASSUME UNCHANGED vars, NEW t \in Session PROVE Vetted(t)'
    BY <1>3 DEF vars, locals, VetInv, Vetted, InFlow, Sending
  <1>4. QED BY <1>1, <1>2, <1>3, HostShape DEF Next, SessionStep, VetInv

(* Only Report adds to a broker's book, and the evidence is there.         *)
LEMMA BooksAreVetted ==
  ASSUME VetInv, [Next]_vars, NEW s \in Session, broker'[s] \ broker[s] # {}
  PROVE  /\ broker'[s] \ broker[s] = {kind[s]}
         /\ answer[s] = "Accept"
         /\ verdict[s] \in {"success", "degraded"}
         /\ dispatch[s] \in {"Allowed", "Hold"}
  <1>1. TypeOK /\ Vetted(s)
    BY DEF VetInv
  <1>2. PICK u \in Session : SessionStep(u)
    <2>1. ~UNCHANGED vars
      BY DEF vars, books
    <2>2. QED BY <1>1, <2>1, HostShape DEF Next, SessionStep
  <1>3. u = s
    <2>1. u # s => Same(s)
      BY <1>1, <1>2, Frame
    <2>2. QED BY <2>1 DEF Same
  <1>4. ASSUME Fail(s, "refused") \/ Fail(s, "stopped") PROVE broker' = [broker EXCEPT ![s] = {}] \/ broker' = broker
    BY <1>4 DEF Fail, books
  <1>5. Report(s)
    <2>1. ~NewBroker(s) /\ ~Refuse(s) /\ ~VerifierRaises(s) /\ ~Unsigned(s)
      <3>1. broker' # [broker EXCEPT ![s] = {}] /\ broker' # broker
        BY <1>1 DEF TypeOK
      <3>2. QED BY <3>1, <1>4 DEF NewBroker, Refuse, VerifierRaises, Unsigned, books
    <2>2. broker' # broker
      OBVIOUS
    <2>3. ~Match(s) /\ ~Settle(s) /\ ~Verify(s) /\ ~Announce(s) /\ ~Cut(s)
      BY <2>2 DEF Match, Settle, Verify, Announce, Cut, books
    <2>4. ~NewCarrier(s) /\ ~Ready(s) /\ ~SetRunId(s) /\ ~ReadRunId(s) /\ ~Compose(s) /\ ~Stamp(s)
      BY <2>2 DEF NewCarrier, Ready, SetRunId, ReadRunId, Compose, Stamp, books
    <2>5. ~Accept(s) /\ ~Respond(s) /\ ~MarkComplete(s) /\ ~Launch(s)
      BY <2>2 DEF Accept, Respond, MarkComplete, Launch, books
    <2>6. \A k : ~Press(s, k)
      BY <2>2 DEF Press, books
    <2>7. QED BY <1>2, <1>3, <2>1, <2>3, <2>4, <2>5, <2>6 DEF SessionStep, Step
  <1>6. pc[s] = "book" /\ broker'[s] = broker[s] \cup {kind[s]}
    BY <1>1, <1>5 DEF Report, TypeOK
  <1>7. broker'[s] \ broker[s] = {kind[s]}
    BY <1>6
  <1>8. answer[s] = "Accept" /\ verdict[s] # "none" /\ dispatch[s] # "none"
    BY <1>1, <1>6 DEF Vetted
  <1>9. verdict[s] \in Verdicts /\ dispatch[s] \in Dispatches
    BY <1>1 DEF TypeOK
  <1>10. QED BY <1>7, <1>8, <1>9 DEF Verdicts, Dispatches

(* Whatever sessions, cuts and earlier flows do, the broker books a flow   *)
(* only on its own accepted bid, its own verification that did not come    *)
(* out negative and a policy decision that does not block.                 *)
THEOREM VettedBookings == Spec => BookingIsVetted
  <1>1. Init => VetInv
    BY VetInit
  <1>2. VetInv /\ [Next]_vars => VetInv'
    BY VetStep
  <1>3. VetInv /\ [Next]_vars =>
          [\A s \in Session : broker'[s] \ broker[s] # {} =>
             /\ broker'[s] \ broker[s] = {kind[s]}
             /\ answer[s] = "Accept"
             /\ verdict[s] \in {"success", "degraded"}
             /\ dispatch[s] \in {"Allowed", "Hold"}]_vars
    BY BooksAreVetted
  <1>4. QED BY <1>1, <1>2, <1>3, PTL DEF Spec, BookingIsVetted
-------------------------------------------------------------------------------
(* A session by itself finds the machine as it left it (RunInv).         *)

(* The routes of every flow are within the roles' capabilities.            *)
LEMMA RoutesOfFlows ==
  ASSUME NEW k \in Kind, NEW m \in MessageType
  PROVE  RouteAllowed(k, m)
  <1>1. CASE k = "load"
    <2>1. CASE m = "New"
      BY <1>1, <2>1 DEF RouteAllowed, Sender, Receiver, Poster, Finder, Capability, Post, Book,
         Domain
    <2>2. CASE m = "Search"
      BY <1>1, <2>2 DEF RouteAllowed, Sender, Receiver, Poster, Finder, Capability, Post, Book,
         Domain
    <2>3. CASE m = "BidRequest"
      BY <1>1, <2>3 DEF RouteAllowed, Sender, Receiver, Poster, Finder, Capability, Post, Book,
         Domain
    <2>4. CASE m = "BidResponse"
      BY <1>1, <2>4 DEF RouteAllowed, Sender, Receiver, Poster, Finder, Capability, Post, Book,
         Domain
    <2>5. CASE m = "ExecutionReport"
      BY <1>1, <2>5 DEF RouteAllowed, Sender, Receiver, Poster, Finder, Capability, Post, Book,
         Domain
    <2>6. QED BY <2>1, <2>2, <2>3, <2>4, <2>5 DEF MessageType
  <1>2. CASE k = "shipper"
    <2>1. CASE m = "New"
      BY <1>2, <2>1 DEF RouteAllowed, Sender, Receiver, Poster, Finder, Capability, Post, Book,
         Domain
    <2>2. CASE m = "Search"
      BY <1>2, <2>2 DEF RouteAllowed, Sender, Receiver, Poster, Finder, Capability, Post, Book,
         Domain
    <2>3. CASE m = "BidRequest"
      BY <1>2, <2>3 DEF RouteAllowed, Sender, Receiver, Poster, Finder, Capability, Post, Book,
         Domain
    <2>4. CASE m = "BidResponse"
      BY <1>2, <2>4 DEF RouteAllowed, Sender, Receiver, Poster, Finder, Capability, Post, Book,
         Domain
    <2>5. CASE m = "ExecutionReport"
      BY <1>2, <2>5 DEF RouteAllowed, Sender, Receiver, Poster, Finder, Capability, Post, Book,
         Domain
    <2>6. QED BY <2>1, <2>2, <2>3, <2>4, <2>5 DEF MessageType
  <1>3. CASE k = "truck"
    <2>1. CASE m = "New"
      BY <1>3, <2>1 DEF RouteAllowed, Sender, Receiver, Poster, Finder, Capability, Post, Book,
         Domain
    <2>2. CASE m = "Search"
      BY <1>3, <2>2 DEF RouteAllowed, Sender, Receiver, Poster, Finder, Capability, Post, Book,
         Domain
    <2>3. CASE m = "BidRequest"
      BY <1>3, <2>3 DEF RouteAllowed, Sender, Receiver, Poster, Finder, Capability, Post, Book,
         Domain
    <2>4. CASE m = "BidResponse"
      BY <1>3, <2>4 DEF RouteAllowed, Sender, Receiver, Poster, Finder, Capability, Post, Book,
         Domain
    <2>5. CASE m = "ExecutionReport"
      BY <1>3, <2>5 DEF RouteAllowed, Sender, Receiver, Poster, Finder, Capability, Post, Book,
         Domain
    <2>6. QED BY <2>1, <2>2, <2>3, <2>4, <2>5 DEF MessageType
  <1>4. QED BY <1>1, <1>2, <1>3 DEF Kind

LEMMA IdIsRunId ==
  ASSUME NEW s \in Session, runId = s
  PROVE  IdAtHand = s
  BY SessionAssumption DEF IdAtHand

LEMMA InStepReturn ==
  ASSUME TypeOK, NEW s \in Session, NEW line, Return(s, line),
         flow' \in [{"load", "truck"} -> State], runId' = s, named[s] = s
  PROVE  InStep(s)'
  <1>1. CASE pc'[s] \in {"idle", "over"}
    BY <1>1 DEF InStep, InFlow, Sending
  <1>2. CASE pc'[s] \notin {"idle", "over"}
    <2>1. pc'[s] = "compose" /\ kind'[s] \in Kind /\ msg'[s] = "New" /\ named'[s] = s
      BY <1>2, ReturnPlace, SessionAssumption
    <2>2. flow'[Domain(kind'[s])] \in State
      BY DEF Domain
    <2>3. AllowedPrevious["New"] = State
      BY DEF AllowedPrevious
    <2>4. QED BY <2>1, <2>2, <2>3 DEF InStep, InFlow, Sending
  <1>3. QED BY <1>1, <1>2

LEMMA InStepFail ==
  ASSUME TypeOK, NEW s \in Session, NEW line, Fail(s, line), UNCHANGED machine,
         runId = s, named[s] = s
  PROVE  InStep(s)'
  <1>1. flow' \in [{"load", "truck"} -> State] /\ runId' = s
    BY DEF machine, TypeOK
  <1>2. CASE Hosted
    BY <1>1, <1>2, InStepReturn DEF Fail
  <1>3. CASE ~Hosted
    <2>1. pc'[s] = "over"
      BY <1>3 DEF Fail, Goto, TypeOK
    <2>2. QED BY <2>1 DEF InStep, InFlow, Sending
  <1>4. QED BY <1>2, <1>3

(* A valid message leaves the machine where the flow goes on.              *)
LEMMA InStepAccept ==
  ASSUME TypeOK, NEW s \in Session, InStep(s), Accept(s)
  PROVE  InStep(s)'
  <1>1. pc[s] = "validate" /\ kind[s] \in Kind /\ runId = s /\ named[s] = s
    BY DEF Accept, InStep, InFlow, Sending
  <1>2. kind'[s] = kind[s] /\ runId' = s /\ named'[s] = s
    BY <1>1 DEF Accept
  <1>3. flow'[Domain(kind'[s])] = NextState[msg[s]]
    BY <1>2 DEF Accept, Advanced, TypeOK, Domain
  <1>4. CASE msg[s] = "New"
    <2>1. pc'[s] = "compose" /\ msg'[s] = "Search"
      BY <1>4 DEF Accept, Proceed, Send, Goto, TypeOK
    <2>2. NextState["New"] \in AllowedPrevious["Search"]
      BY DEF NextState, AllowedPrevious
    <2>3. QED BY <1>1, <1>2, <1>3, <1>4, <2>1, <2>2 DEF InStep, InFlow, Sending
  <1>5. CASE msg[s] = "Search"
    <2>1. pc'[s] = "match"
      BY <1>5 DEF Accept, Proceed, Send, Goto, TypeOK
    <2>2. NextState["Search"] = "SEARCH"
      BY DEF NextState
    <2>3. QED BY <1>1, <1>2, <1>3, <1>5, <2>1, <2>2 DEF InStep, InFlow, Sending
  <1>6. CASE msg[s] = "BidRequest"
    <2>1. pc'[s] = "respond"
      BY <1>6 DEF Accept, Proceed, Send, Goto, TypeOK
    <2>2. NextState["BidRequest"] = "BIDREQUEST"
      BY DEF NextState
    <2>3. QED BY <1>1, <1>2, <1>3, <1>6, <2>1, <2>2 DEF InStep, InFlow, Sending
  <1>7. CASE msg[s] = "BidResponse"
    <2>1. pc'[s] = "settle"
      BY <1>7 DEF Accept, Proceed, Send, Goto, TypeOK
    <2>2. NextState["BidResponse"] = "BIDRESPONSE"
      BY DEF NextState
    <2>3. QED BY <1>1, <1>2, <1>3, <1>7, <2>1, <2>2 DEF InStep, InFlow, Sending
  <1>8. CASE msg[s] = "ExecutionReport"
    <2>1. pc'[s] = "complete"
      BY <1>8 DEF Accept, Proceed, Send, Goto, TypeOK
    <2>2. QED BY <1>1, <1>2, <1>3, <1>8, <2>1 DEF InStep, InFlow, Sending
  <1>9. QED BY <1>4, <1>5, <1>6, <1>7, <1>8 DEF TypeOK, MessageType

LEMMA InStepOwnStep ==
  ASSUME TypeOK, NEW s \in Session, InStep(s), SessionStep(s)
  PROVE  InStep(s)'
  <1> USE DEF Goto, Send, machine, locals, books
  <1>1. ASSUME NEW k \in HostedKind \cup {"none"}, Press(s, k) PROVE InStep(s)'
    <2>1. pc'[s] = "new_broker"
      BY <1>1 DEF Press, TypeOK
    <2>2. QED BY <2>1 DEF InStep, InFlow, Sending
  <1>2. ASSUME Launch(s) PROVE InStep(s)'
    <2>1. Head(Plan) \in Kind
      BY SessionAssumption, PlanParts
    <2>2. pc'[s] = "naming" /\ kind'[s] = Head(Plan)
      BY <1>2 DEF Launch, TypeOK
    <2>3. QED BY <2>1, <2>2 DEF InStep, InFlow, Sending
  <1>3. ASSUME NewBroker(s) PROVE InStep(s)'
    <2>1. pc'[s] = "new_carrier"
      BY <1>3 DEF NewBroker, TypeOK
    <2>2. QED BY <2>1 DEF InStep, InFlow, Sending
  <1>4. ASSUME NewCarrier(s) PROVE InStep(s)'
    <2>1. pc'[s] = "ready"
      BY <1>4 DEF NewCarrier, TypeOK
    <2>2. QED BY <2>1 DEF InStep, InFlow, Sending
  <1>5. ASSUME Ready(s) PROVE InStep(s)'
    <2>1. /\ kind'[s] = kind[s]
          /\ pc'[s] = "idle" \/ (pc'[s] = "naming" /\ kind[s] # "none")
      BY <1>5 DEF Ready, TypeOK
    <2>2. kind[s] \in Kind \cup {"none"}
      BY DEF TypeOK
    <2>3. QED BY <2>1, <2>2 DEF InStep, InFlow, Sending
  <1>6. ASSUME SetRunId(s) PROVE InStep(s)'
    <2>1. pc[s] = "naming" /\ pc'[s] = "named" /\ runId' = s /\ UNCHANGED kind
      BY <1>6 DEF SetRunId, TypeOK
    <2>2. QED BY <2>1 DEF InStep, InFlow, Sending
  <1>7. ASSUME ReadRunId(s) PROVE InStep(s)'
    <2>1. pc[s] = "named" /\ pc'[s] = "compose" /\ UNCHANGED <<kind, flow, runId>>
      BY <1>7 DEF ReadRunId, TypeOK
    <2>2. msg'[s] = "New" /\ named'[s] = runId
      BY <1>7 DEF ReadRunId, TypeOK
    <2>3. flow[Domain(kind[s])] \in State
      BY DEF Domain, TypeOK
    <2>4. AllowedPrevious["New"] = State
      BY DEF AllowedPrevious
    <2>5. QED BY <2>1, <2>2, <2>3, <2>4 DEF InStep, InFlow, Sending
  <1>8. ASSUME Compose(s) PROVE InStep(s)'
    <2>1. pc[s] = "compose" /\ pc'[s] = "stamp" /\ UNCHANGED <<kind, flow, named, msg>>
      BY <1>8 DEF Compose, TypeOK
    <2>2. runId = s
      BY <2>1 DEF InStep, InFlow, Sending
    <2>3. runId' = s
      BY <1>8, <2>2, IdIsRunId DEF Compose
    <2>4. QED BY <2>1, <2>3 DEF InStep, InFlow, Sending
  <1>9. ASSUME Stamp(s) PROVE InStep(s)'
    <2>1. pc[s] = "stamp" /\ pc'[s] = "validate" /\ UNCHANGED <<kind, flow, runId, named, msg>>
      BY <1>9 DEF Stamp, TypeOK
    <2>2. stamp'[s] = runId
      BY <1>9 DEF Stamp, TypeOK
    <2>3. QED BY <2>1, <2>2 DEF InStep, InFlow, Sending
  <1>10. ASSUME Accept(s) PROVE InStep(s)'
    BY <1>10, InStepAccept
  <1>11. ASSUME Refuse(s) PROVE InStep(s)'
    <2>1. pc[s] = "validate" /\ runId = s /\ named[s] = s
      BY <1>11 DEF Refuse, InStep, InFlow, Sending
    <2>2. QED BY <1>11, <2>1, InStepFail DEF Refuse
  <1>12. ASSUME Match(s) PROVE InStep(s)'
    <2>1. ASSUME Return(s, "stopped") PROVE InStep(s)'
      <3>1. pc[s] = "match" /\ runId = s /\ named[s] = s
        BY <1>12 DEF Match, InStep, InFlow, Sending
      <3>2. runId' = s /\ flow' \in [{"load", "truck"} -> State]
        BY <1>12, <3>1 DEF Match, TypeOK
      <3>3. QED BY <2>1, <3>1, <3>2, InStepReturn
    <2>2. ASSUME ~Return(s, "stopped") PROVE InStep(s)'
      <3>1. pc[s] = "match" /\ pc'[s] = "compose" /\ UNCHANGED <<kind, flow, runId, named>>
        BY <1>12, <2>2 DEF Match, TypeOK
      <3>2. msg'[s] = "BidRequest"
        BY <1>12, <2>2 DEF Match, TypeOK
      <3>3. "SEARCH" \in AllowedPrevious["BidRequest"]
        BY DEF AllowedPrevious
      <3>4. QED BY <3>1, <3>2, <3>3 DEF InStep, InFlow, Sending
    <2>3. QED BY <2>1, <2>2
  <1>13. ASSUME Respond(s) PROVE InStep(s)'
    <2>1. pc[s] = "respond" /\ pc'[s] = "compose" /\ UNCHANGED <<kind, flow, runId, named>>
      BY <1>13 DEF Respond, TypeOK
    <2>2. msg'[s] = "BidResponse"
      BY <1>13 DEF Respond, TypeOK
    <2>3. "BIDREQUEST" \in AllowedPrevious["BidResponse"]
      BY DEF AllowedPrevious
    <2>4. QED BY <2>1, <2>2, <2>3 DEF InStep, InFlow, Sending
  <1>14. ASSUME Settle(s) PROVE InStep(s)'
    <2>1. ASSUME Return(s, "stopped") PROVE InStep(s)'
      <3>1. pc[s] = "settle" /\ runId = s /\ named[s] = s
        BY <1>14 DEF Settle, InStep, InFlow, Sending
      <3>2. runId' = s /\ flow' \in [{"load", "truck"} -> State]
        BY <1>14, <3>1 DEF Settle, TypeOK
      <3>3. QED BY <2>1, <3>1, <3>2, InStepReturn
    <2>2. ASSUME ~Return(s, "stopped") PROVE InStep(s)'
      <3>1. pc[s] = "settle" /\ pc'[s] = "verify" /\ UNCHANGED <<kind, flow, runId, named>>
        BY <1>14, <2>2 DEF Settle, TypeOK
      <3>2. QED BY <3>1 DEF InStep, InFlow, Sending
    <2>3. QED BY <2>1, <2>2
  <1>15. ASSUME Verify(s) PROVE InStep(s)'
    <2>1. ASSUME Return(s, "stopped") PROVE InStep(s)'
      <3>1. pc[s] = "verify" /\ runId = s /\ named[s] = s
        BY <1>15 DEF Verify, InStep, InFlow, Sending
      <3>2. runId' = s /\ flow' \in [{"load", "truck"} -> State]
        BY <1>15, <3>1 DEF Verify, TypeOK
      <3>3. QED BY <2>1, <3>1, <3>2, InStepReturn
    <2>2. ASSUME ~Return(s, "stopped") PROVE InStep(s)'
      <3>1. UNCHANGED <<kind, named>> /\ pc' = [pc EXCEPT ![s] = "book"]
        BY <1>15, <2>2 DEF Verify
      <3>2. pc[s] = "verify" /\ pc'[s] = "book" /\ UNCHANGED <<flow, runId>>
        BY <1>15, <3>1 DEF Verify, TypeOK
      <3>3. QED BY <3>1, <3>2 DEF InStep, InFlow, Sending
    <2>3. QED BY <2>1, <2>2
  <1>16. ASSUME VerifierRaises(s) PROVE InStep(s)'
    <2>1. pc[s] = "verify" /\ runId = s /\ named[s] = s
      BY <1>16 DEF VerifierRaises, InStep, InFlow, Sending
    <2>2. QED BY <1>16, <2>1, InStepFail DEF VerifierRaises
  <1>17. ASSUME Report(s) PROVE InStep(s)'
    <2>1. pc[s] = "book" /\ pc'[s] = "compose" /\ UNCHANGED <<kind, flow, runId, named>>
      BY <1>17 DEF Report, TypeOK
    <2>2. msg'[s] = "ExecutionReport"
      BY <1>17 DEF Report, TypeOK
    <2>3. "BIDRESPONSE" \in AllowedPrevious["ExecutionReport"]
      BY DEF AllowedPrevious
    <2>4. QED BY <2>1, <2>2, <2>3 DEF InStep, InFlow, Sending
  <1>18. ASSUME MarkComplete(s) PROVE InStep(s)'
    <2>1. pc'[s] = "announce" /\ pc[s] = "complete" /\ UNCHANGED <<kind, runId, named>>
      BY <1>18 DEF MarkComplete, TypeOK
    <2>2. QED BY <2>1 DEF InStep, InFlow, Sending
  <1>19. ASSUME Announce(s) PROVE InStep(s)'
    <2>1. runId = s /\ named[s] = s
      BY <1>19 DEF Announce, InStep, InFlow, Sending
    <2>2. runId' = s /\ flow' \in [{"load", "truck"} -> State]
      BY <1>19, <2>1, IdIsRunId DEF Announce, TypeOK
    <2>3. QED BY <1>19, <2>1, <2>2, InStepReturn DEF Announce
  <1>20. ASSUME Cut(s) PROVE InStep(s)'
    <2>1. pc'[s] = "idle"
      BY <1>20 DEF Cut, Rest, TypeOK
    <2>2. QED BY <2>1 DEF InStep, InFlow, Sending
  <1>21. ASSUME Unsigned(s) PROVE InStep(s)'
    <2>1. CASE Hosted
      <3>1. pc'[s] = "idle"
        BY <1>21, <2>1 DEF Unsigned, Rest, TypeOK
      <3>2. QED BY <3>1 DEF InStep, InFlow, Sending
    <2>2. CASE ~Hosted
      <3>1. pc[s] = "stamp" /\ runId = s /\ named[s] = s
        BY <1>21 DEF Unsigned, InStep, InFlow, Sending
      <3>2. QED BY <1>21, <2>2, <3>1, InStepFail DEF Unsigned
    <2>3. QED BY <2>1, <2>2
  <1>22. QED
    BY <1>1, <1>2, <1>3, <1>4, <1>5, <1>6, <1>7, <1>8, <1>9, <1>10, <1>11, <1>12,
       <1>13, <1>14, <1>15, <1>16, <1>17, <1>18, <1>19, <1>20, <1>21 DEF SessionStep, Step

LEMMA RunInit == Init => RunInv
  <1>1. Init => \A s \in Session : InStep(s)
    BY DEF Init, InStep, InFlow, Sending
  <1>2. QED BY <1>1, TypeInit, HostShape DEF RunInv

LEMMA RunStep == RunInv /\ [Next]_vars => RunInv'
  <1> SUFFICES ASSUME RunInv, [Next]_vars PROVE RunInv'
    OBVIOUS
  <1>1. TypeOK /\ TypeOK'
    BY TypeStep DEF RunInv
  <1>2. host' = host /\ Users' = Users /\ Users \subseteq Session
    BY <1>1, HostKept, HostShape DEF Next, vars
  <1>3. ASSUME \A s, u \in Users : s = u, NEW t \in Users PROVE InStep(t)'
    <2>1. InStep(t) /\ t \in Session
      BY <1>2, <1>3 DEF RunInv
    <2>2. CASE UNCHANGED vars
      BY <2>1, <2>2 DEF vars, machine, locals, InStep, InFlow, Sending
    <2>3. CASE ~UNCHANGED vars
      <3>1. SessionStep(t)
        BY <1>3, <2>3 DEF Next, SessionStep
      <3>2. QED BY <1>1, <2>1, <3>1, InStepOwnStep
    <2>4. QED BY <2>2, <2>3
  <1>4. QED BY <1>1, <1>2, <1>3 DEF RunInv

LEMMA RunInvSuffices == RunInv => RunUndisturbed
  <1> SUFFICES ASSUME RunInv, \A s, t \in Users : s = t,
                      NEW s \in Users, pc[s] = "validate"
               PROVE  Permitted(flow, kind[s], msg[s]) /\ stamp[s] = named[s]
    BY DEF RunUndisturbed
  <1>1. TypeOK /\ InStep(s) /\ s \in Session
    BY HostShape DEF RunInv
  <1>2. /\ kind[s] \in Kind /\ stamp[s] = s /\ named[s] = s
        /\ flow[Domain(kind[s])] \in AllowedPrevious[msg[s]]
    BY <1>1 DEF InStep, InFlow, Sending
  <1>3. msg[s] \in MessageType
    BY <1>1 DEF TypeOK
  <1>4. QED BY <1>2, <1>3, RoutesOfFlows DEF Permitted

(* A session with the runtime to itself is never refused by routes or      *)
(* state machine and stamps every message with its run's id, for every     *)
(* plan of main() and every cut of a run.                                  *)
THEOREM Undisturbed == Spec => []RunUndisturbed
  <1>1. Init => RunInv
    BY RunInit
  <1>2. RunInv /\ [Next]_vars => RunInv'
    BY RunStep
  <1>3. RunInv => RunUndisturbed
    BY RunInvSuffices
  <1>4. QED BY <1>1, <1>2, <1>3, PTL DEF Spec
-------------------------------------------------------------------------------
(* The agents' books while no run is cut (BooksInv).                      *)

Honest(s) ==
  pc[s] \in {"idle", "over"} =>
    /\ status[s] = "completed" => carrier[s] # {}
    /\ carrier[s] \subseteq broker[s]
    /\ status[s] \in {"stopped", "completed"} => broker[s] = carrier[s]
    /\ status[s] = "Ready" => carrier[s] = {}

Truthful(s) == Balanced(s) /\ Honest(s)

LEMMA TruthfulSame ==
  ASSUME NEW t \in Session, Same(t), Truthful(t), host' = host
  PROVE  Truthful(t)'
  BY HostKept DEF Same, Truthful, Balanced, Honest, Sending, InFlow

LEMMA TruthfulReturn ==
  ASSUME TypeOK, NEW s \in Session, NEW line \in {"stopped", "completed"}, Return(s, line),
         UNCHANGED books, broker[s] = carrier[s], line = "completed" => carrier[s] # {},
         host' = host
  PROVE  Truthful(s)'
  <1>1. broker'[s] = carrier'[s] /\ status'[s] = line /\ carrier'[s] = carrier[s]
    BY ReturnPlace DEF books
  <1>2. CASE pc'[s] = "over" \/ (Hosted /\ pc'[s] = "idle")
    BY <1>1, <1>2, HostKept DEF Truthful, Balanced, Honest, Sending, InFlow
  <1>3. CASE ~(pc'[s] = "over" \/ (Hosted /\ pc'[s] = "idle"))
    <2>1. ~Hosted /\ pc'[s] = "compose" /\ msg'[s] = "New"
      BY <1>3, ReturnPlace, SessionAssumption
    <2>2. QED BY <1>1, <2>1, HostKept DEF Truthful, Balanced, Honest, Sending, InFlow
  <1>4. QED BY <1>2, <1>3

LEMMA TruthfulFail ==
  ASSUME TypeOK, NEW s \in Session, NEW line, Fail(s, line), carrier[s] \subseteq broker[s],
         line = "refused" \/ (line = "stopped" /\ (Hosted => broker[s] = carrier[s])), host' = host
  PROVE  Truthful(s)'
  <1>1. CASE Hosted
    <2>1. Return(s, line) /\ UNCHANGED books
      BY <1>1 DEF Fail
    <2>2. pc'[s] = "idle" /\ status'[s] = line
      BY <1>1, <2>1, ReturnPlace
    <2>3. broker'[s] = broker[s] /\ carrier'[s] = carrier[s]
      BY <2>1 DEF books
    <2>4. QED BY <1>1, <2>2, <2>3, HostKept DEF Truthful, Balanced, Honest, Sending, InFlow
  <1>2. CASE ~Hosted
    <2>1. pc'[s] = "over" /\ broker'[s] = {} /\ carrier'[s] = {} /\ status'[s] = line
      BY <1>2 DEF Fail, Goto, TypeOK
    <2>2. QED BY <2>1 DEF Truthful, Balanced, Honest, Sending, InFlow
  <1>3. QED BY <1>1, <1>2

LEMMA TruthfulAccept ==
  ASSUME TypeOK, NEW s \in Session, Truthful(s), Accept(s), host' = host
  PROVE  Truthful(s)'
  <1>1. pc[s] = "validate" /\ UNCHANGED <<kind, books, status>>
    BY DEF Accept
  <1>2. CASE msg[s] = "ExecutionReport"
    <2>1. pc'[s] = "complete"
      BY <1>2 DEF Accept, Proceed, Send, Goto, TypeOK
    <2>2. QED BY <1>1, <1>2, <2>1, HostKept DEF Truthful, Balanced, Honest, Sending, InFlow, books
  <1>3. CASE msg[s] # "ExecutionReport"
    <2>1. pc'[s] \in {"match", "respond", "settle"} \/ (pc'[s] = "compose" /\ msg'[s] = "Search")
      <3>1. \/ \E to \in {"match", "respond", "settle"} : Goto(s, to)
            \/ Goto(s, "compose") /\ msg' = [msg EXCEPT ![s] = "Search"]
        BY <1>3 DEF Accept, Proceed, Send
      <3>2. QED BY <3>1 DEF Goto, TypeOK
    <2>2. QED BY <1>1, <1>3, <2>1, HostKept DEF Truthful, Balanced, Honest, Sending, InFlow, books
  <1>4. QED BY <1>2, <1>3

LEMMA TruthfulOwnStep ==
  ASSUME TypeOK, NEW s \in Session, ~Reruns, Truthful(s), SessionStep(s), host' = host
  PROVE  Truthful(s)'
  <1> USE HostKept DEF Goto, Send, machine, locals, books
  <1>1. ASSUME NEW k \in HostedKind \cup {"none"}, Press(s, k) PROVE Truthful(s)'
    <2>1. pc'[s] = "new_broker"
      BY <1>1 DEF Press, TypeOK
    <2>2. QED BY <2>1 DEF Truthful, Balanced, Honest, Sending, InFlow
  <1>2. ASSUME Launch(s) PROVE Truthful(s)'
    <2>1. pc[s] = "idle" /\ pc'[s] = "naming" /\ UNCHANGED books /\ ~Hosted
      BY <1>2 DEF Launch, TypeOK
    <2>2. QED BY <2>1 DEF Truthful, Balanced, Honest, Sending, InFlow
  <1>3. ASSUME NewBroker(s) PROVE Truthful(s)'
    <2>1. pc'[s] = "new_carrier" /\ broker'[s] = {}
      BY <1>3 DEF NewBroker, TypeOK
    <2>2. QED BY <2>1 DEF Truthful, Balanced, Honest, Sending, InFlow
  <1>4. ASSUME NewCarrier(s) PROVE Truthful(s)'
    <2>1. pc[s] = "new_carrier" /\ pc'[s] = "ready" /\ UNCHANGED broker /\ carrier'[s] = {}
      BY <1>4 DEF NewCarrier, TypeOK
    <2>2. QED BY <2>1 DEF Truthful, Balanced, Honest, Sending, InFlow
  <1>5. ASSUME Ready(s) PROVE Truthful(s)'
    <2>1. pc[s] = "ready" /\ pc'[s] \in {"idle", "naming"} /\ status'[s] = "Ready" /\ UNCHANGED books
      BY <1>5 DEF Ready, TypeOK
    <2>2. QED BY <2>1 DEF Truthful, Balanced, Honest, Sending, InFlow
  <1>6. ASSUME SetRunId(s) PROVE Truthful(s)'
    <2>1. pc[s] = "naming" /\ pc'[s] = "named" /\ UNCHANGED <<books, status>>
      BY <1>6 DEF SetRunId, TypeOK
    <2>2. QED BY <2>1 DEF Truthful, Balanced, Honest, Sending, InFlow
  <1>7. ASSUME ReadRunId(s) PROVE Truthful(s)'
    <2>1. pc[s] = "named" /\ pc'[s] = "compose" /\ msg'[s] = "New" /\ UNCHANGED <<books, status>>
      BY <1>7 DEF ReadRunId, TypeOK
    <2>2. QED BY <2>1 DEF Truthful, Balanced, Honest, Sending, InFlow
  <1>8. ASSUME Compose(s) PROVE Truthful(s)'
    <2>1. pc[s] = "compose" /\ pc'[s] = "stamp" /\ UNCHANGED <<kind, msg, books, status>>
      BY <1>8 DEF Compose, TypeOK
    <2>2. QED BY <2>1 DEF Truthful, Balanced, Honest, Sending, InFlow
  <1>9. ASSUME Stamp(s) PROVE Truthful(s)'
    <2>1. pc[s] = "stamp" /\ pc'[s] = "validate" /\ UNCHANGED <<kind, msg, books, status>>
      BY <1>9 DEF Stamp, TypeOK
    <2>2. QED BY <2>1 DEF Truthful, Balanced, Honest, Sending, InFlow
  <1>10. ASSUME Accept(s) PROVE Truthful(s)'
    BY <1>10, TruthfulAccept
  <1>11. ASSUME Refuse(s) PROVE Truthful(s)'
    <2>1. carrier[s] \subseteq broker[s]
      BY <1>11 DEF Refuse, Truthful, Balanced, Sending, InFlow
    <2>2. QED BY <1>11, <2>1, TruthfulFail DEF Refuse
  <1>12. ASSUME Match(s) PROVE Truthful(s)'
    <2>1. pc[s] = "match" /\ UNCHANGED books
      BY <1>12 DEF Match
    <2>2. broker[s] = carrier[s]
      BY <2>1 DEF Truthful, Balanced
    <2>3. ASSUME Return(s, "stopped") PROVE Truthful(s)'
      BY <2>1, <2>2, <2>3, TruthfulReturn
    <2>4. ASSUME ~Return(s, "stopped") PROVE Truthful(s)'
      <3>1. pc'[s] = "compose" /\ msg'[s] = "BidRequest" /\ UNCHANGED status
        BY <1>12, <2>4 DEF Match, TypeOK
      <3>2. QED BY <2>1, <2>2, <3>1 DEF Truthful, Balanced, Honest, Sending, InFlow
    <2>5. QED BY <2>3, <2>4
  <1>13. ASSUME Respond(s) PROVE Truthful(s)'
    <2>1. pc[s] = "respond" /\ pc'[s] = "compose" /\ msg'[s] = "BidResponse" /\ UNCHANGED <<books, status>>
      BY <1>13 DEF Respond, TypeOK
    <2>2. QED BY <2>1 DEF Truthful, Balanced, Honest, Sending, InFlow
  <1>14. ASSUME Settle(s) PROVE Truthful(s)'
    <2>1. pc[s] = "settle" /\ UNCHANGED books
      BY <1>14 DEF Settle
    <2>2. broker[s] = carrier[s]
      BY <2>1 DEF Truthful, Balanced
    <2>3. ASSUME Return(s, "stopped") PROVE Truthful(s)'
      BY <2>1, <2>2, <2>3, TruthfulReturn
    <2>4. ASSUME ~Return(s, "stopped") PROVE Truthful(s)'
      <3>1. pc'[s] = "verify" /\ UNCHANGED status
        BY <1>14, <2>4 DEF Settle, TypeOK
      <3>2. QED BY <2>1, <2>2, <3>1 DEF Truthful, Balanced, Honest, Sending, InFlow
    <2>5. QED BY <2>3, <2>4
  <1>15. ASSUME Verify(s) PROVE Truthful(s)'
    <2>1. pc[s] = "verify" /\ UNCHANGED books
      BY <1>15 DEF Verify
    <2>2. broker[s] = carrier[s]
      BY <2>1 DEF Truthful, Balanced
    <2>3. ASSUME Return(s, "stopped") PROVE Truthful(s)'
      BY <2>1, <2>2, <2>3, TruthfulReturn
    <2>4. ASSUME ~Return(s, "stopped") PROVE Truthful(s)'
      <3>1. pc'[s] = "book" /\ UNCHANGED status
        <4>1. pc' = [pc EXCEPT ![s] = "book"] /\ UNCHANGED status
          BY <1>15, <2>4 DEF Verify
        <4>2. QED BY <4>1 DEF TypeOK
      <3>2. QED BY <2>1, <2>2, <3>1 DEF Truthful, Balanced, Honest, Sending, InFlow
    <2>5. QED BY <2>3, <2>4
  <1>16. ASSUME VerifierRaises(s) PROVE Truthful(s)'
    <2>1. carrier[s] = broker[s]
      BY <1>16 DEF VerifierRaises, Truthful, Balanced
    <2>2. QED BY <1>16, <2>1, TruthfulFail DEF VerifierRaises
  <1>17. ASSUME Report(s) PROVE Truthful(s)'
    <2>1. pc[s] = "book" /\ pc'[s] = "compose" /\ UNCHANGED <<kind, carrier, status>>
      BY <1>17 DEF Report, TypeOK
    <2>2. msg'[s] = "ExecutionReport" /\ broker'[s] = broker[s] \cup {kind[s]}
      BY <1>17 DEF Report, TypeOK
    <2>3. QED BY <2>1, <2>2 DEF Truthful, Balanced, Honest, Sending, InFlow
  <1>18. ASSUME MarkComplete(s) PROVE Truthful(s)'
    <2>1. pc[s] = "complete" /\ pc'[s] = "announce" /\ UNCHANGED <<broker, status>>
      BY <1>18 DEF MarkComplete, TypeOK
    <2>2. carrier'[s] = carrier[s] \cup {kind[s]}
      BY <1>18 DEF MarkComplete, TypeOK
    <2>3. broker[s] = carrier[s] \cup {kind[s]}
      BY <2>1 DEF Truthful, Balanced
    <2>4. broker'[s] = carrier'[s] /\ carrier'[s] # {}
      BY <2>1, <2>2, <2>3
    <2>5. QED BY <2>1, <2>4 DEF Truthful, Balanced, Honest, Sending, InFlow
  <1>19. ASSUME Announce(s) PROVE Truthful(s)'
    <2>1. carrier[s] = broker[s] /\ carrier[s] # {}
      BY <1>19 DEF Announce, Truthful, Balanced
    <2>2. QED BY <1>19, <2>1, TruthfulReturn DEF Announce
  <1>20. ASSUME Cut(s) PROVE Truthful(s)'
    BY <1>20 DEF Cut
  <1>21. ASSUME Unsigned(s) PROVE Truthful(s)'
    <2>1. pc[s] = "stamp" /\ carrier[s] \subseteq broker[s]
      BY <1>21 DEF Unsigned, Truthful, Balanced, Sending
    <2>2. CASE Hosted
      <3>1. pc'[s] = "idle" /\ UNCHANGED <<books, status>>
        BY <1>21, <2>2 DEF Unsigned, Rest, TypeOK
      <3>2. status[s] = "Ready" /\ carrier[s] = {}
        BY <2>1, <2>2 DEF Truthful, Balanced, InFlow, Sending
      <3>3. QED BY <2>1, <2>2, <3>1, <3>2 DEF Truthful, Balanced, Honest, Sending, InFlow
    <2>3. CASE ~Hosted
      <3>1. Fail(s, "stopped")
        BY <1>21, <2>3 DEF Unsigned
      <3>2. QED BY <2>1, <2>3, <3>1, TruthfulFail
    <2>4. QED BY <2>2, <2>3
  <1>22. QED
    BY <1>1, <1>2, <1>3, <1>4, <1>5, <1>6, <1>7, <1>8, <1>9, <1>10, <1>11, <1>12,
       <1>13, <1>14, <1>15, <1>16, <1>17, <1>18, <1>19, <1>20, <1>21 DEF SessionStep, Step

LEMMA BooksMeaning ==
  BooksInv <=> TypeOK /\ (~Reruns => \A s \in Session : Truthful(s))
  BY DEF BooksInv, StatusHonest, Truthful, Honest

LEMMA BooksInit == Init => BooksInv
  <1>1. Init => \A s \in Session : Truthful(s)
    BY DEF Init, Truthful, Balanced, Honest, Sending, InFlow
  <1>2. QED BY <1>1, TypeInit, BooksMeaning

LEMMA BooksStep == BooksInv /\ [Next]_vars => BooksInv'
  <1> SUFFICES ASSUME BooksInv, [Next]_vars PROVE BooksInv'
    OBVIOUS
  <1>1. TypeOK /\ TypeOK'
    BY TypeStep DEF BooksInv
  <1>0. host' = host /\ Reruns' = Reruns
    BY HostKept DEF Next, vars
  <1>2. ASSUME ~Reruns, NEW t \in Session PROVE Truthful(t)'
    <2>1. Truthful(t)
      BY <1>2, BooksMeaning
    <2>2. CASE UNCHANGED vars
      BY <1>0, <2>1, <2>2, HostKept DEF vars, locals, books, Truthful, Balanced, Honest, Sending, InFlow
    <2>3. CASE ~UNCHANGED vars
      <3>1. PICK s \in Session : SessionStep(s)
        BY <1>1, <2>3, HostShape DEF Next, SessionStep
      <3>2. CASE s = t
        BY <1>0, <1>1, <1>2, <2>1, <3>1, <3>2, TruthfulOwnStep
      <3>3. CASE s # t
        <4>1. Same(t)
          BY <1>1, <3>1, <3>3, Frame
        <4>2. QED BY <1>0, <2>1, <4>1, TruthfulSame
      <3>4. QED BY <3>2, <3>3
    <2>4. QED BY <2>2, <2>3
  <1>3. TypeOK' /\ (~Reruns => \A t \in Session : Truthful(t)')
    BY <1>1, <1>2
  <1>4. QED BY <1>0, <1>3 DEF BooksInv, StatusHonest, Truthful, Honest

(* Where no run is cut, the status a session rests with is true of both    *)
(* agents' books, whatever other sessions do to the machine they share and *)
(* wherever a message could not be signed or was refused: the broker holds *)
(* a booking the carrier lacks only behind a status that claims none.      *)
THEOREM HonestStatus == Spec => []StatusHonest
  <1>1. Init => BooksInv
    BY BooksInit
  <1>2. BooksInv /\ [Next]_vars => BooksInv'
    BY BooksStep
  <1>3. BooksInv => StatusHonest
    BY DEF BooksInv
  <1>4. QED BY <1>1, <1>2, <1>3, PTL DEF Spec
===============================================================================
