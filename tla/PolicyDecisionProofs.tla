-------------------------- MODULE PolicyDecisionProofs --------------------------
(***************************************************************************)
(* Proofs about PolicyDecision, for all settings, profiles and declared    *)
(* capabilities.                                                           *)
(***************************************************************************)
EXTENDS PolicyDecision, TLAPS

(* The agents support the verifier, and the result is what run_verification*)
(* makes of the provider and of the adapter's answer.                      *)
ResultInv ==
  /\ pc # "bid" => \A a \in Agent : Supports(capabilities[a], provider)
  /\ pc \in {"verified", "decided", "reported"} =>
       /\ result.category = Requirement(provider).category
       /\ result.method = Requirement(provider).method
       /\ result.assuranceLevel = Requirement(provider).minAssuranceLevel
       /\ badge = BadgeFor(provider, result.status)
       /\ reply # None => /\ result.provider = "adapter"
                          /\ Usable(reply) => result.status = reply.status /\ ~result.error
                          /\ ~Usable(reply) => result.status = "Fail" /\ result.error
       /\ reply = None /\ config.nonLocal =>
            result.provider \in {"compliance-mock", "biometric-mock"}

(* A decision is the policy's, and one to book.                            *)
DecisionInv ==
  pc \in {"decided", "reported"} =>
    /\ decision.dispatch =
         Dispatch(decision.profile, decision.tier, result, decision.approved)
    /\ decision.dispatch # "Blocked"

ReportInv == pc = "reported" => Trusted(result)

IInv == TypeOK /\ ResultInv /\ DecisionInv /\ ReportInv
--------------------------------------------------------------------------------
(* What the policy's operators return.                                     *)
LEMMA OutageType ==
  ASSUME NEW p \in Profiles, NEW t \in Tier
  PROVE  OnOutage(p, t) \in DispatchAuthorization
<1>1. p.riskTiers[t] \in ProfileRow BY DEF Profiles
<1> QED BY <1>1 DEF OnOutage, ProfileRow, DispatchAuthorization

LEMMA HumanType ==
  ASSUME NEW p \in Profiles, NEW t \in Tier, NEW d \in DispatchAuthorization,
         NEW approved \in BOOLEAN
  PROVE  WithHuman(p, t, d, approved) \in DispatchAuthorization
<1>1. p.riskTiers[t] \in ProfileRow BY DEF Profiles
<1>2. CASE approved BY <1>1, <1>2 DEF WithHuman, DispatchAuthorization, ProfileRow
<1>3. CASE ~approved BY <1>3 DEF WithHuman, DispatchAuthorization
<1> QED BY <1>2, <1>3

LEMMA NotDegraded ==
  ASSUME NEW p, NEW t, NEW r \in Result, NEW approved
  PROVE  /\ r.status = "Success" => Dispatch(p, t, r, approved) = "Allowed"
         /\ r.status # "Success" /\ ~r.error => Dispatch(p, t, r, approved) = "Blocked"
<1>1. r.error \in BOOLEAN BY DEF Result
<1>2. CASE r.error BY <1>2 DEF Dispatch, Degraded
<1>3. CASE ~r.error BY <1>3 DEF Dispatch, Degraded
<1> QED BY <1>1, <1>2, <1>3

LEMMA DispatchType ==
  ASSUME NEW p \in Profiles, NEW t \in Tier, NEW r \in Result, NEW approved \in BOOLEAN
  PROVE  Dispatch(p, t, r, approved) \in DispatchAuthorization
<1>1. OnOutage(p, t) \in DispatchAuthorization BY OutageType
<1>2. WithHuman(p, t, OnOutage(p, t), approved) \in DispatchAuthorization
  BY <1>1, HumanType
<1>3. r.error \in BOOLEAN BY DEF Result
<1>4. CASE r.status = "Success" BY <1>4, NotDegraded DEF DispatchAuthorization
<1>5. CASE r.status # "Success" /\ ~r.error
  BY <1>5, NotDegraded DEF DispatchAuthorization
<1>6. CASE r.status # "Success" /\ r.error
  <2>1. Dispatch(p, t, r, approved) = IF RequiresHuman(p, t)
           THEN WithHuman(p, t, OnOutage(p, t), approved) ELSE OnOutage(p, t)
    BY <1>6 DEF Dispatch, Degraded
  <2> QED BY <2>1, <1>1, <1>2
<1> QED BY <1>3, <1>4, <1>5, <1>6

(* During an outage.                                                       *)
LEMMA DispatchDegraded ==
  ASSUME NEW p, NEW t, NEW r, NEW approved, Degraded(r)
  PROVE  Dispatch(p, t, r, approved) = IF RequiresHuman(p, t)
           THEN WithHuman(p, t, OnOutage(p, t), approved) ELSE OnOutage(p, t)
  BY DEF Dispatch, Degraded

(* Without an approval a human step only turns Allowed into Hold.          *)
LEMMA Unapproved ==
  ASSUME NEW p, NEW t, NEW d
  PROVE  WithHuman(p, t, d, FALSE) = IF d = "Allowed" THEN "Hold" ELSE d
  BY DEF WithHuman

(* An approval opens nothing: what it books is booked without it.          *)
LEMMA ApprovalOpensNothing ==
  ASSUME NEW p \in Profiles, NEW t \in Tier, NEW r \in Result, NEW approved \in BOOLEAN,
         Dispatch(p, t, r, approved) # "Blocked"
  PROVE  Dispatch(p, t, r, FALSE) # "Blocked"
<1>1. CASE r.status = "Success" BY <1>1, NotDegraded
<1>2. CASE r.status # "Success" /\ ~r.error BY <1>2, NotDegraded
<1>3. CASE Degraded(r)
  <2> DEFINE d == OnOutage(p, t)
  <2>1. CASE ~RequiresHuman(p, t) BY <2>1, <1>3, DispatchDegraded
  <2>2. CASE RequiresHuman(p, t)
    <3>1. WithHuman(p, t, d, approved) # "Blocked" BY <2>2, <1>3, DispatchDegraded
    <3>2. d # "Blocked"
      <4>1. CASE approved
        <5>1. p.riskTiers[t].decisionOnOutage # "Block" BY <3>1, <4>1 DEF WithHuman
        <5> QED BY <3>1, <4>1, <5>1 DEF WithHuman
      <4>2. CASE ~approved BY <3>1, <4>2 DEF WithHuman
      <4> QED BY <4>1, <4>2
    <3>3. WithHuman(p, t, d, FALSE) # "Blocked" BY <3>2, Unapproved
    <3> QED BY <3>3, <2>2, <1>3, DispatchDegraded
  <2> QED BY <2>1, <2>2
<1>4. r.error \in BOOLEAN BY DEF Result
<1> QED BY <1>1, <1>2, <1>3, <1>4 DEF Degraded

LEMMA Ranks == Rank("Allowed") = 2 /\ Rank("Hold") = 1 /\ Rank("Blocked") = 0
  BY DEF Rank

(* In a graduated profile, an outage at a higher tier never dispatches     *)
(* more freely, before a human is asked ...                                *)
LEMMA OutageGraduated ==
  ASSUME NEW p \in Profiles, Graduated(p), NEW t \in Tier, NEW u \in Tier, t <= u
  PROVE  Rank(OnOutage(p, u)) <= Rank(OnOutage(p, t))
<1> DEFINE rt == p.riskTiers[t]
           ru == p.riskTiers[u]
<1>1. rt \in ProfileRow /\ ru \in ProfileRow BY DEF Profiles
<1>2. /\ OutageRank(ru.decisionOnOutage) <= OutageRank(rt.decisionOnOutage)
      /\ Rank(ru.dispatchAuthorization) <= Rank(rt.dispatchAuthorization)
      /\ rt.decisionOnOutage = "AllowProvisional" => rt.dispatchAuthorization # "Blocked"
  BY DEF Graduated
<1>3. /\ OnOutage(p, t) \in DispatchAuthorization
      /\ OnOutage(p, u) \in DispatchAuthorization
  BY OutageType
<1>4. CASE p.degradedMode \in {"HardBlock", "SoftHold"}
  <2>1. OnOutage(p, t) = OnOutage(p, u) BY <1>4 DEF OnOutage
  <2> QED BY <2>1, <1>3 DEF Rank, DispatchAuthorization
<1>5. CASE p.degradedMode \notin {"HardBlock", "SoftHold"}
  <2>0. /\ OnOutage(p, t) =
            CASE rt.decisionOnOutage = "AllowProvisional" -> rt.dispatchAuthorization
              [] rt.decisionOnOutage = "HoldDispatch" -> "Hold"
              [] OTHER -> "Blocked"
        /\ OnOutage(p, u) =
            CASE ru.decisionOnOutage = "AllowProvisional" -> ru.dispatchAuthorization
              [] ru.decisionOnOutage = "HoldDispatch" -> "Hold"
              [] OTHER -> "Blocked"
    BY <1>5 DEF OnOutage
  <2>1. CASE rt.decisionOnOutage = "AllowProvisional"
    <3>1. OnOutage(p, t) = rt.dispatchAuthorization BY <2>0, <2>1
    <3>2. Rank(OnOutage(p, t)) >= 1
      BY <3>1, <1>1, <1>2, <2>1 DEF Rank, ProfileRow, DispatchAuthorization
    <3>3. CASE ru.decisionOnOutage = "AllowProvisional" BY <3>1, <3>3, <2>0, <1>2
    <3>4. CASE ru.decisionOnOutage # "AllowProvisional"
      BY <3>2, <3>4, <2>0, <1>1, <1>3 DEF Rank, ProfileRow, DispatchAuthorization
    <3> QED BY <3>3, <3>4
  <2>2. CASE rt.decisionOnOutage = "HoldDispatch"
    <3>1. ru.decisionOnOutage # "AllowProvisional"
      BY <2>2, <1>1, <1>2 DEF OutageRank, ProfileRow
    <3> QED BY <2>0, <2>2, <3>1, <1>1 DEF Rank, ProfileRow
  <2>3. CASE rt.decisionOnOutage = "Block"
    <3>1. ru.decisionOnOutage = "Block"
      BY <2>3, <1>1, <1>2 DEF OutageRank, ProfileRow
    <3> QED BY <2>0, <2>3, <3>1 DEF Rank
  <2> QED BY <2>1, <2>2, <2>3, <1>1 DEF ProfileRow
<1> QED BY <1>4, <1>5

(* ... nor after, when it has not approved.                                *)
LEMMA DispatchGraduated ==
  ASSUME NEW p \in Profiles, Graduated(p), NEW r \in Result,
         NEW t \in Tier, NEW u \in Tier, t <= u
  PROVE  Rank(Dispatch(p, u, r, FALSE)) <= Rank(Dispatch(p, t, r, FALSE))
<1> DEFINE at == Dispatch(p, t, r, FALSE)
           au == Dispatch(p, u, r, FALSE)
<1> SUFFICES Rank(au) <= Rank(at) OBVIOUS
<1>1. CASE r.status = "Success" \/ ~r.error
  <2>0. FALSE \in BOOLEAN OBVIOUS
  <2>1. at = au
    <3>1. CASE r.status = "Success"
      <4>1. at = "Allowed" BY <3>1, <2>0, NotDegraded
      <4>2. au = "Allowed" BY <3>1, <2>0, NotDegraded
      <4> QED BY <4>1, <4>2
    <3>2. CASE r.status # "Success"
      <4>1. at = "Blocked" BY <1>1, <3>2, <2>0, NotDegraded
      <4>2. au = "Blocked" BY <1>1, <3>2, <2>0, NotDegraded
      <4> QED BY <4>1, <4>2
    <3> QED BY <3>1, <3>2
  <2>2. at \in DispatchAuthorization BY DispatchType
  <2> HIDE DEF at, au
  <2>3. Rank(at) \in 0..2 BY <2>2, Ranks DEF DispatchAuthorization
  <2> QED BY <2>1, <2>3
<1>2. CASE Degraded(r)
  <2> DEFINE dt == OnOutage(p, t)
             du == OnOutage(p, u)
  <2>1. dt \in DispatchAuthorization /\ du \in DispatchAuthorization BY OutageType
  <2>2. Rank(du) <= Rank(dt) BY OutageGraduated
  <2>3. RequiresHuman(p, t) => RequiresHuman(p, u)
    <3>1. p.riskTiers[t].requiresHumanApproval => p.riskTiers[u].requiresHumanApproval
      BY DEF Graduated
    <3>2. p.requireManualEscalationForTier \in Tier BY DEF Profiles
    <3> QED BY <3>1, <3>2 DEF RequiresHuman, Tier
  <2>4. /\ at = IF RequiresHuman(p, t) THEN (IF dt = "Allowed" THEN "Hold" ELSE dt) ELSE dt
        /\ au = IF RequiresHuman(p, u) THEN (IF du = "Allowed" THEN "Hold" ELSE du) ELSE du
    BY <1>2, DispatchDegraded, Unapproved
  <2> HIDE DEF at, au, dt, du
  <2>5. CASE RequiresHuman(p, t)
    BY <2>1, <2>2, <2>3, <2>4, <2>5, Ranks DEF DispatchAuthorization
  <2>6. CASE ~RequiresHuman(p, t)
    BY <2>1, <2>2, <2>4, <2>6, Ranks DEF DispatchAuthorization
  <2> QED BY <2>5, <2>6
<1>3. r.error \in BOOLEAN BY DEF Result
<1> QED BY <1>1, <1>2, <1>3 DEF Degraded
--------------------------------------------------------------------------------
LEMMA BuiltType ==
  ASSUME NEW p \in Providers, NEW status \in VerificationStatus, NEW error \in BOOLEAN,
         NEW id \in ProviderId, NEW source \in ResultSource
  PROVE  Built(p, status, error, id, source) \in Result
<1>1. (IF p = "FMCSA" THEN 1 ELSE 2) \in Level BY DEF Level
<1>2. (IF p = "FMCSA" THEN "Compliance" ELSE "Biometric") \in Category BY DEF Category
<1>3. (IF p = "FMCSA" THEN "AuthorityRecordCheck" ELSE "LivenessPlusDocument") \in Method
  BY DEF Method
<1> QED BY <1>1, <1>2, <1>3 DEF Built, Result

LEMMA InitIInv == Init => IInv
  BY DEF Init, NoAttempt, IInv, TypeOK, ResultInv, DecisionInv, ReportInv, Badge

LEMMA EndStep == IInv /\ End => IInv'
  BY DEF End, IInv, TypeOK, ResultInv, DecisionInv, ReportInv, Badge

LEMMA NegotiateStep ==
  ASSUME IInv, NEW requested \in Requested, Negotiate(requested)
  PROVE  IInv'
<1> USE DEF Negotiate, IInv
<1>1. TypeOK' BY DEF TypeOK
<1>2. ResultInv' BY DEF ResultInv, Supports
<1>3. DecisionInv' /\ ReportInv' BY DEF DecisionInv, ReportInv
<1> QED BY <1>1, <1>2, <1>3

(* Whoever answered.                                                       *)
LEMMA VerifiedStep ==
  ASSUME IInv, NEW answer \in Reply \cup {None}, NEW r \in Result, Verified(answer, r),
         r.category = Requirement(provider).category,
         r.method = Requirement(provider).method,
         r.assuranceLevel = Requirement(provider).minAssuranceLevel,
         answer # None => /\ r.provider = "adapter"
                          /\ Usable(answer) => r.status = answer.status /\ ~r.error
                          /\ ~Usable(answer) => r.status = "Fail" /\ r.error,
         answer = None /\ config.nonLocal => r.provider \in {"compliance-mock", "biometric-mock"}
  PROVE  IInv'
<1>0. /\ TypeOK /\ pc = "negotiated" /\ pc' = "verified" /\ reply' = answer /\ result' = r
      /\ badge' = BadgeFor(provider, r.status)
      /\ UNCHANGED <<config, capabilities, provider, decision>>
  BY DEF IInv, Verified
<1>1. TypeOK' BY <1>0 DEF TypeOK, BadgeFor, Badge
<1>2. \A a \in Agent : Supports(capabilities[a], provider)' BY <1>0 DEF IInv, ResultInv, Supports
<1>3. Usable(reply)' <=> Usable(answer) BY <1>0 DEF Usable
<1>4. ResultInv' BY <1>0, <1>2, <1>3 DEF ResultInv
<1>5. DecisionInv' /\ ReportInv' BY <1>0 DEF DecisionInv, ReportInv
<1> QED BY <1>1, <1>4, <1>5 DEF IInv

LEMMA EnforceStep ==
  ASSUME IInv, NEW source \in Sources, Enforce(source)
  PROVE  IInv'
<1> DEFINE id == IF provider = "FMCSA" THEN "compliance-mock" ELSE "biometric-mock"
           r == Built(provider, "Fail", TRUE, id, "policy-enforcement")
<1>1. provider \in Providers BY DEF IInv, TypeOK, Enforce, Verified
<1>2. /\ "Fail" \in VerificationStatus /\ id \in {"compliance-mock", "biometric-mock"}
      /\ id \in ProviderId /\ "policy-enforcement" \in ResultSource
  BY DEF VerificationStatus, ProviderId, ResultSource
<1>3. r \in Result BY <1>1, <1>2, BuiltType
<1>4. /\ r.category = Requirement(provider).category
      /\ r.method = Requirement(provider).method
      /\ r.assuranceLevel = Requirement(provider).minAssuranceLevel
      /\ r.provider = id
  BY <1>1 DEF Built, Requirement, Providers
<1>5. Verified(None, r) BY DEF Enforce
<1> HIDE DEF r, id
<1> QED BY <1>2, <1>3, <1>4, <1>5, VerifiedStep

LEMMA RefuseSourceStep ==
  ASSUME IInv, NEW source \in Sources, RefuseSource(source)
  PROVE  IInv'
<1> DEFINE r == Built(provider, "Fail", TRUE, "compliance-mock", "mock-compliance")
<1>1. provider \in Providers BY DEF IInv, TypeOK, RefuseSource, Verified
<1>2. /\ "Fail" \in VerificationStatus /\ "compliance-mock" \in ProviderId
      /\ "mock-compliance" \in ResultSource
  BY DEF VerificationStatus, ProviderId, ResultSource
<1>3. r \in Result BY <1>1, <1>2, BuiltType
<1>4. /\ r.category = Requirement(provider).category
      /\ r.method = Requirement(provider).method
      /\ r.assuranceLevel = Requirement(provider).minAssuranceLevel
      /\ r.provider = "compliance-mock"
  BY <1>1 DEF Built, Requirement, Providers
<1>5. Verified(None, r) BY DEF RefuseSource
<1> HIDE DEF r
<1> QED BY <1>3, <1>4, <1>5, VerifiedStep

LEMMA AskAdapterStep ==
  ASSUME IInv, NEW source \in Sources, NEW answer \in Reply, AskAdapter(source, answer)
  PROVE  IInv'
<1> DEFINE status == IF Usable(answer) THEN answer.status ELSE "Fail"
           error == ~Usable(answer)
           r == Built(provider, status, error, "adapter", source)
<1>1. provider \in Providers BY DEF IInv, TypeOK, AskAdapter, Verified
<1>2. /\ status \in VerificationStatus /\ error \in BOOLEAN
      /\ "adapter" \in ProviderId /\ source \in ResultSource
  BY DEF VerificationStatus, ProviderId, ResultSource, Reply, AskAdapter
<1>3. r \in Result BY <1>1, <1>2, BuiltType
<1>4. /\ r.category = Requirement(provider).category
      /\ r.method = Requirement(provider).method
      /\ r.assuranceLevel = Requirement(provider).minAssuranceLevel
      /\ r.provider = "adapter" /\ r.status = status /\ r.error = error
  BY <1>1 DEF Built, Requirement, Providers
<1>5. Verified(answer, r)
  <2>1. CASE Usable(answer) BY <2>1 DEF AskAdapter
  <2>2. CASE ~Usable(answer) BY <2>2 DEF AskAdapter
  <2> QED BY <2>1, <2>2
<1>6. answer # None BY PolicyAssumption
<1>7. /\ Usable(answer) => r.status = answer.status /\ ~r.error
      /\ ~Usable(answer) => r.status = "Fail" /\ r.error
  BY <1>4
<1> HIDE DEF r, status, error
<1> QED BY <1>3, <1>4, <1>5, <1>6, <1>7, VerifiedStep

LEMMA SimulateStep ==
  ASSUME IInv, NEW source \in Sources, NEW status \in {"Success", "Fail"},
         Simulate(source, status)
  PROVE  IInv'
<1> DEFINE rc == Built(provider, status, FALSE, "compliance-mock", "mock-compliance")
           rb == Built(provider, status, FALSE, "biometric-mock", "mock-biometric")
<1>1. provider \in Providers /\ ~config.nonLocal BY DEF IInv, TypeOK, Simulate, Verified
<1>2. /\ status \in VerificationStatus
      /\ {"compliance-mock", "biometric-mock"} \subseteq ProviderId
      /\ {"mock-compliance", "mock-biometric"} \subseteq ResultSource
  BY DEF VerificationStatus, ProviderId, ResultSource
<1>3. rc \in Result /\ rb \in Result BY <1>1, <1>2, BuiltType
<1>4. \A r \in {rc, rb} : /\ r.category = Requirement(provider).category
                         /\ r.method = Requirement(provider).method
                         /\ r.assuranceLevel = Requirement(provider).minAssuranceLevel
  <2>1. /\ rc.category = Requirement(provider).category
        /\ rc.method = Requirement(provider).method
        /\ rc.assuranceLevel = Requirement(provider).minAssuranceLevel
    BY <1>1 DEF Built, Requirement, Providers
  <2>2. /\ rb.category = Requirement(provider).category
        /\ rb.method = Requirement(provider).method
        /\ rb.assuranceLevel = Requirement(provider).minAssuranceLevel
    BY <1>1 DEF Built, Requirement, Providers
  <2> HIDE DEF rc, rb
  <2> QED BY <2>1, <2>2
<1>5. Verified(None, rc) \/ Verified(None, rb) BY DEF Simulate
<1> HIDE DEF rc, rb
<1>6. PICK r \in {rc, rb} : Verified(None, r) BY <1>5
<1> QED BY <1>1, <1>3, <1>4, <1>6, VerifiedStep

LEMMA DecideStep ==
  ASSUME IInv, NEW p \in Profile, NEW raw \in RawTier,
         NEW approved \in BOOLEAN, NEW ref \in BOOLEAN, Decide(p, raw, approved, ref)
  PROVE  IInv'
<1> DEFINE t == Coerced(raw)
           d == Dispatch(p, t, result, approved)
<1>1. /\ p \in Profiles /\ t \in Tier /\ result \in Result
  BY PolicyAssumption DEF IInv, TypeOK, Decide, Coerced, RawTier, Tier
<1>2. d \in DispatchAuthorization BY <1>1, DispatchType
<1>3. CASE d = "Blocked"
  <2>1. End BY <1>3 DEF Decide
  <2> QED BY <2>1, EndStep
<1>4. CASE d # "Blocked"
  <2> DEFINE dec == [profile |-> p, tier |-> t, approved |-> approved,
                     ref |-> approved /\ ref, dispatch |-> d]
  <2>1. /\ pc = "verified" /\ pc' = "decided" /\ decision' = dec
        /\ UNCHANGED <<config, capabilities, provider, reply, result, badge>>
    BY <1>4 DEF Decide
  <2>2. dec \in Decision BY <1>1, <1>2 DEF Decision
  <2>3. /\ dec.profile = p /\ dec.tier = t /\ dec.approved = approved /\ dec.dispatch = d
    OBVIOUS
  <2>4. DecisionInv' BY <2>1, <2>3, <1>4 DEF DecisionInv
  <2> HIDE DEF dec
  <2>5. TypeOK' BY <2>1, <2>2 DEF IInv, TypeOK
  <2>6. ResultInv' BY <2>1 DEF IInv, ResultInv, Supports, Usable
  <2>7. ReportInv' BY <2>1 DEF ReportInv
  <2> QED BY <2>4, <2>5, <2>6, <2>7 DEF IInv
<1> QED BY <1>3, <1>4

LEMMA AcceptReportStep == IInv /\ AcceptReport => IInv'
<1> SUFFICES ASSUME IInv, AcceptReport PROVE IInv' OBVIOUS
<1>1. /\ pc = "decided" /\ pc' = "reported" /\ Trusted(result)
      /\ UNCHANGED <<config, capabilities, provider, reply, result, badge, decision>>
  BY DEF AcceptReport
<1>2. TypeOK' BY <1>1 DEF IInv, TypeOK
<1>3. ResultInv' BY <1>1 DEF IInv, ResultInv, Supports, Usable
<1>4. DecisionInv' BY <1>1 DEF IInv, DecisionInv
<1>5. ReportInv' BY <1>1 DEF ReportInv, Trusted
<1> QED BY <1>2, <1>3, <1>4, <1>5 DEF IInv

LEMMA StutterStep == IInv /\ UNCHANGED vars => IInv'
<1> SUFFICES ASSUME IInv, UNCHANGED vars PROVE IInv' OBVIOUS
<1> USE DEF vars
<1>1. TypeOK' BY DEF IInv, TypeOK
<1>2. ResultInv' BY DEF IInv, ResultInv, Supports, Usable
<1>3. DecisionInv' BY DEF IInv, DecisionInv
<1>4. ReportInv' BY DEF IInv, ReportInv, Trusted
<1> QED BY <1>1, <1>2, <1>3, <1>4 DEF IInv

LEMMA NextStep == IInv /\ [Next]_vars => IInv'
<1> SUFFICES ASSUME IInv, [Next]_vars PROVE IInv' OBVIOUS
<1>1. CASE \E requested \in Requested : Negotiate(requested) BY <1>1, NegotiateStep
<1>2. ASSUME NEW source \in Sources, Enforce(source) PROVE IInv' BY <1>2, EnforceStep
<1>3. ASSUME NEW source \in Sources, RefuseSource(source) PROVE IInv'
  BY <1>3, RefuseSourceStep
<1>4. ASSUME NEW source \in Sources, NEW answer \in Reply, AskAdapter(source, answer)
      PROVE  IInv'
  BY <1>4, AskAdapterStep
<1>5. ASSUME NEW source \in Sources, NEW status \in {"Success", "Fail"},
             Simulate(source, status)
      PROVE  IInv'
  BY <1>5, SimulateStep
<1>6. ASSUME NEW p \in Profile, NEW raw \in RawTier,
             NEW approved \in BOOLEAN, NEW ref \in BOOLEAN, Decide(p, raw, approved, ref)
      PROVE  IInv'
  BY <1>6, DecideStep
<1>7. CASE AcceptReport BY <1>7, AcceptReportStep
<1>8. CASE End BY <1>8, EndStep
<1>9. CASE UNCHANGED vars BY <1>9, StutterStep
<1> QED BY <1>1, <1>2, <1>3, <1>4, <1>5, <1>6, <1>7, <1>8, <1>9 DEF Next
--------------------------------------------------------------------------------
(* The inductive invariant holds in every reachable state.                 *)
THEOREM Invariance == Spec => []IInv
<1>1. Init => IInv BY InitIInv
<1>2. IInv /\ [Next]_vars => IInv' BY NextStep
<1> QED BY <1>1, <1>2, PTL DEF Spec

(* Every variable keeps its type, for all settings and profiles.           *)
THEOREM TypeCorrect == Spec => []TypeOK
<1>1. IInv => TypeOK BY DEF IInv
<1> QED BY <1>1, Invariance, PTL

(* What run_verification delivers is what both agents negotiated.          *)
THEOREM Delivered == Spec => []DeliveredAsNegotiated
<1>1. IInv => DeliveredAsNegotiated
  BY DEF IInv, ResultInv, DeliveredAsNegotiated, Supports
<1> QED BY <1>1, Invariance, PTL

(* No profile and no approval books a carrier the adapter has rejected.    *)
THEOREM RejectionIsFinal == Spec => []NegativeIsFinal
<1>1. ASSUME IInv, pc \in {"decided", "reported"}, reply # None, Usable(reply)
      PROVE  reply.status = "Success"
  <2>1. result \in Result /\ result.status = reply.status /\ ~result.error
    BY <1>1 DEF IInv, TypeOK, ResultInv
  <2>2. /\ Dispatch(decision.profile, decision.tier, result, decision.approved) # "Blocked"
        /\ decision.approved \in BOOLEAN
    BY <1>1 DEF IInv, TypeOK, DecisionInv, Decision
  <2> QED BY <2>1, <2>2, NotDegraded
<1>2. IInv => NegativeIsFinal BY <1>1 DEF NegativeIsFinal
<1> QED BY <1>2, Invariance, PTL

(* An enforced registry without simulated verifiers lets only answers of   *)
(* an active adapter through.                                              *)
THEOREM AdaptersTrusted == Spec => []OnlyAdaptersTrusted
<1>1. ASSUME IInv, pc = "reported", config.nonLocal, config.enforced,
             config.registry["compliance-mock"] = None,
             config.registry["biometric-mock"] = None
      PROVE  /\ reply # None
             /\ config.registry["adapter"].active
             /\ badge # "None" => /\ reply.status = "Success"
                                  /\ config.signed => reply.kind = "valid"
  <2>1. /\ config.registry[result.provider] # None
        /\ config.registry[result.provider].active
    BY <1>1 DEF IInv, ReportInv, Trusted
  <2>2. reply # None /\ result.provider = "adapter"
    BY <1>1, <2>1 DEF IInv, ResultInv
  <2>3. badge = BadgeFor(provider, result.status) BY <1>1 DEF IInv, ResultInv
  <2>4. badge # "None" => result.status = "Success" BY <2>3 DEF BadgeFor
  <2>5. /\ Usable(reply) => result.status = reply.status
        /\ ~Usable(reply) => result.status = "Fail"
    BY <1>1, <2>2 DEF IInv, ResultInv
  <2>6. badge # "None" => Usable(reply) /\ reply.status = "Success" BY <2>4, <2>5
  <2> QED BY <2>1, <2>2, <2>6 DEF Usable
<1>2. IInv => OnlyAdaptersTrusted BY <1>1 DEF OnlyAdaptersTrusted
<1> QED BY <1>2, Invariance, PTL

(* A human exception lifts holds, never blocks, in any profile.            *)
THEOREM ApprovalLiftsHoldsOnly == Spec => []ApprovalNeverOpens
<1>1. ASSUME IInv, pc \in {"decided", "reported"}
      PROVE  Dispatch(decision.profile, decision.tier, result, FALSE) # "Blocked"
  <2>1. /\ decision.profile \in Profiles /\ decision.tier \in Tier
        /\ decision.approved \in BOOLEAN /\ result \in Result
    BY <1>1, PolicyAssumption DEF IInv, TypeOK, Decision
  <2>2. Dispatch(decision.profile, decision.tier, result, decision.approved) # "Blocked"
    BY <1>1 DEF IInv, DecisionInv
  <2> QED BY <2>1, <2>2, ApprovalOpensNothing
<1>2. IInv => ApprovalNeverOpens BY <1>1 DEF ApprovalNeverOpens
<1> QED BY <1>2, Invariance, PTL

(* From the escalation tier on, an outage dispatches only with approval.   *)
THEOREM EscalationIsHuman == Spec => []EscalationReachesHuman
<1>1. ASSUME IInv, pc \in {"decided", "reported"}, Degraded(result),
             decision.dispatch = "Allowed",
             ~(decision.tier < decision.profile.requireManualEscalationForTier),
             ~decision.approved
      PROVE  FALSE
  <2> DEFINE p == decision.profile
             t == decision.tier
  <2>1. /\ p \in Profiles /\ t \in Tier /\ decision.approved = FALSE
    BY <1>1, PolicyAssumption DEF IInv, TypeOK, Decision
  <2>2. RequiresHuman(p, t)
    <3>1. p.requireManualEscalationForTier \in Tier BY <2>1 DEF Profiles
    <3> QED BY <1>1, <2>1, <3>1 DEF RequiresHuman, Tier
  <2>3. decision.dispatch = Dispatch(p, t, result, FALSE) BY <1>1, <2>1 DEF IInv, DecisionInv
  <2>4. Dispatch(p, t, result, FALSE) = WithHuman(p, t, OnOutage(p, t), FALSE)
    BY <1>1, <2>2, DispatchDegraded
  <2> QED BY <1>1, <2>3, <2>4, Unapproved
<1>2. IInv => EscalationReachesHuman BY <1>1 DEF EscalationReachesHuman
<1> QED BY <1>2, Invariance, PTL

(* In every graduated profile a higher risk tier is never looser.          *)
THEOREM RiskIsMonotone == Spec => []RiskNeverLoosens
<1>1. ASSUME IInv, pc \in {"decided", "reported"}, ~decision.approved,
             Graduated(decision.profile), NEW t \in Tier
      PROVE  LET other == Dispatch(decision.profile, t, result, FALSE)
             IN /\ t <= decision.tier => Rank(decision.dispatch) <= Rank(other)
                /\ t >= decision.tier => Rank(other) <= Rank(decision.dispatch)
  <2> DEFINE own == Dispatch(decision.profile, decision.tier, result, FALSE)
             other == Dispatch(decision.profile, t, result, FALSE)
  <2>1. /\ decision.profile \in Profiles /\ decision.tier \in Tier
        /\ decision.approved = FALSE /\ result \in Result
    BY <1>1, PolicyAssumption DEF IInv, TypeOK, Decision
  <2>2. decision.dispatch = own BY <1>1, <2>1 DEF IInv, DecisionInv
  <2>3. t <= decision.tier => Rank(own) <= Rank(other) BY <1>1, <2>1, DispatchGraduated
  <2>4. decision.tier <= t => Rank(other) <= Rank(own) BY <1>1, <2>1, DispatchGraduated
  <2>5. t >= decision.tier <=> decision.tier <= t BY <2>1 DEF Tier
  <2> SUFFICES /\ t <= decision.tier => Rank(decision.dispatch) <= Rank(other)
               /\ t >= decision.tier => Rank(other) <= Rank(decision.dispatch)
    OBVIOUS
  <2> HIDE DEF own, other
  <2> QED BY <2>2, <2>3, <2>4, <2>5
<1>2. IInv => RiskNeverLoosens BY <1>1 DEF RiskNeverLoosens
<1> QED BY <1>2, Invariance, PTL
================================================================================
