---------------------------- MODULE PolicyDecision ----------------------------
(***************************************************************************)
(* From an accepted bid to an ExecutionReport                              *)
(* (faxp_mvp_simulation.py): both agents must support the verifier, the    *)
(* verifier answers or fails, the policy profile decides what that means   *)
(* for the booking, and the receiver validates the result in the report.   *)
(*                                                                         *)
(* One attempt at a time; nothing of it outlives it. Scores, tokens, the   *)
(* reason code and ReverifyBy, which no code reads, are left out.          *)
(***************************************************************************)
EXTENDS Integers

CONSTANTS
  Config,      \* settings of a process
  Profile,     \* policy profiles
  Capability,  \* what an agent may declare
  None         \* no value

Agent == {"broker", "carrier"}
Tier == 0..3
Level == 0..3  \* assurance levels by rank
RawTier == -1..4  \* risk tiers as they are entered: bounds what is out of range
VerificationStatus == {"Success", "Fail", "Pending"}
DispatchAuthorization == {"Allowed", "Hold", "Blocked"}
Category == {"Compliance", "Biometric", "Identity"}
Method == {"AuthorityRecordCheck", "LivenessPlusDocument", "DocumentOnly"}
Badge == {"None", "Basic", "Premium"}
Adapters == {"hosted-adapter", "implementer-adapter", "vendor-direct"}
Sources == Adapters \cup {"authority-mock", "unsupported"}
Providers == {"FMCSA", "MockBiometricProvider"}
ProviderId == {"adapter", "compliance-mock", "biometric-mock"}
ResultSource == Adapters \cup {"mock-compliance", "mock-biometric", "policy-enforcement"}

ProfileRow == [decisionOnOutage : {"AllowProvisional", "HoldDispatch", "Block"},
               dispatchAuthorization : DispatchAuthorization,
               requiresHumanApproval : BOOLEAN]
Profiles == [degradedMode : {"HardBlock", "SoftHold", "GraceCache"},
             requireManualEscalationForTier : Tier,
             riskTiers : [Tier -> ProfileRow]]
RegistryEntry == [active : BOOLEAN, allowedSources : SUBSET ResultSource,
                  allowedAssuranceLevels : SUBSET Level]
Result == [status : VerificationStatus, error : BOOLEAN, provider : ProviderId,
           source : ResultSource, category : Category, method : Method, assuranceLevel : Level]
Decision == [profile : Profile, tier : Tier, approved : BOOLEAN, ref : BOOLEAN,
             dispatch : DispatchAuthorization]

(* What comes of a call to the hosted adapter: no call or no answer, an    *)
(* answer without the required wrapper or with a bad signature, ok: false, *)
(* a payload that does not validate, or a verdict.                         *)
Reply == [kind : {"unreachable", "unsigned", "failure", "malformed", "valid"},
          status : VerificationStatus]

ASSUME PolicyAssumption ==
  /\ Profile \subseteq Profiles
  /\ Config \subseteq [nonLocal : BOOLEAN, enforced : BOOLEAN, signed : BOOLEAN,
                       registry : [ProviderId -> RegistryEntry \cup {None}]]
  /\ Capability \subseteq [categories : SUBSET Category, methods : SUBSET Method, floor : Int]
  /\ None \notin Result \cup Decision \cup Reply \cup RegistryEntry \cup Providers

VARIABLES
  config,        \* the process's settings
  capabilities,  \* verification_capabilities of the two agents
  pc,            \* "bid", "negotiated", "verified", "decided" or "reported"
  provider,      \* the negotiated provider
  reply,         \* what the hosted adapter returned, if it was to be asked
  result,        \* verification_result
  badge,         \* verified_badge
  decision       \* policy_decision

vars == <<config, capabilities, pc, provider, reply, result, badge, decision>>

NoAttempt ==
  /\ pc = "bid" /\ provider = None /\ reply = None
  /\ result = None /\ badge = "None" /\ decision = None

Init ==
  /\ config \in Config
  /\ capabilities \in [Agent -> Capability]
  /\ NoAttempt

(* Mutant: the session keeps the last decision.                            *)
EndKeepsDecision ==
  /\ pc # "bid"
  /\ pc' = "bid" /\ provider' = None /\ reply' = None
  /\ result' = None /\ badge' = "None" /\ decision' = decision
  /\ UNCHANGED <<config, capabilities>>

(* The attempt is over, whatever came of it.                               *)
End ==
  /\ pc # "bid"
  /\ pc' = "bid" /\ provider' = None /\ reply' = None
  /\ result' = None /\ badge' = "None" /\ decision' = None
  /\ UNCHANGED <<config, capabilities>>
-------------------------------------------------------------------------------
(* PROVIDER_ALIASES.                                                       *)
Normalized(requested) ==
  CASE requested \in {"FMCSA", "MockComplianceProvider"} -> "FMCSA"
    [] requested \in {"MockBiometricProvider", "iDenfy"} -> "MockBiometricProvider"
    [] OTHER -> requested

(* Mutant: the compliance check claims the assurance of the biometric one. *)
RequirementAtTwo(p) ==
  IF p = "FMCSA"
  THEN [category |-> "Compliance", method |-> "AuthorityRecordCheck", minAssuranceLevel |-> 2]
  ELSE [category |-> "Biometric", method |-> "LivenessPlusDocument", minAssuranceLevel |-> 2]

(* PROVIDER_VERIFICATION_REQUIREMENTS.                                     *)
Requirement(p) ==
  IF p = "FMCSA"
  THEN [category |-> "Compliance", method |-> "AuthorityRecordCheck", minAssuranceLevel |-> 1]
  ELSE [category |-> "Biometric", method |-> "LivenessPlusDocument", minAssuranceLevel |-> 2]

(* An agent's floor is a rank; a level it misspells ranks -1.              *)
Supports(c, p) ==
  /\ Requirement(p).category \in c.categories
  /\ Requirement(p).method \in c.methods
  /\ c.floor <= Requirement(p).minAssuranceLevel

(* A mismatch, or a provider nobody knows, leaves the bid as it is.        *)
Negotiate(requested) ==
  /\ pc = "bid"
  /\ Normalized(requested) \in Providers
  /\ \A a \in Agent : Supports(capabilities[a], Normalized(requested))
  /\ pc' = "negotiated"
  /\ provider' = Normalized(requested)
  /\ UNCHANGED <<config, capabilities, reply, result, badge, decision>>
-------------------------------------------------------------------------------
(* run_verification: what it says of itself depends on the provider alone. *)
Built(p, status, error, id, source) ==
  [status |-> status, error |-> error, provider |-> id, source |-> source,
   category |-> IF p = "FMCSA" THEN "Compliance" ELSE "Biometric",
   method |-> IF p = "FMCSA" THEN "AuthorityRecordCheck" ELSE "LivenessPlusDocument",
   assuranceLevel |-> IF p = "FMCSA" THEN 1 ELSE 2]

BadgeFor(p, status) ==
  IF status # "Success" THEN "None" ELSE IF p = "FMCSA" THEN "Basic" ELSE "Premium"

Verified(answer, r) ==
  /\ pc = "negotiated"
  /\ pc' = "verified"
  /\ reply' = answer
  /\ result' = r
  /\ badge' = BadgeFor(provider, r.status)
  /\ UNCHANGED <<config, capabilities, provider, decision>>

(* Outside a local deployment a simulated verifier is not consulted.       *)
Enforce(source) ==
  /\ config.nonLocal
  /\ provider = "FMCSA" => source \notin Adapters
  /\ Verified(None, Built(provider, "Fail", TRUE,
                          IF provider = "FMCSA" THEN "compliance-mock" ELSE "biometric-mock",
                          "policy-enforcement"))

(* lookup_fmcsa_with_hosted_adapter: everything but a verdict is an error. *)
Usable(answer) ==
  \/ answer.kind = "valid"
  \/ answer.kind = "unsigned" /\ ~config.signed

(* Mutant: a verdict against the carrier is reported as an error.          *)
AskAdapterForSuccess(source, answer) ==
  /\ provider = "FMCSA"
  /\ source \in Adapters
  /\ Verified(answer, IF Usable(answer) /\ answer.status = "Success"
                      THEN Built("FMCSA", answer.status, FALSE, "adapter", source)
                      ELSE Built("FMCSA", "Fail", TRUE, "adapter", source))

AskAdapter(source, answer) ==
  /\ provider = "FMCSA"
  /\ source \in Adapters
  /\ Verified(answer, IF Usable(answer)
                      THEN Built("FMCSA", answer.status, FALSE, "adapter", source)
                      ELSE Built("FMCSA", "Fail", TRUE, "adapter", source))

RefuseSource(source) ==
  /\ ~config.nonLocal
  /\ provider = "FMCSA"
  /\ source = "unsupported"
  /\ Verified(None, Built("FMCSA", "Fail", TRUE, "compliance-mock", "mock-compliance"))

(* The outcome is an option of the command line or of the page.            *)
Simulate(source, status) ==
  /\ ~config.nonLocal
  /\ IF provider = "FMCSA"
     THEN source = "authority-mock"
          /\ Verified(None, Built(provider, status, FALSE, "compliance-mock", "mock-compliance"))
     ELSE Verified(None, Built(provider, status, FALSE, "biometric-mock", "mock-biometric"))
-------------------------------------------------------------------------------
(* evaluate_verification_policy_decision.                                  *)

Coerced(tier) == IF tier < 0 THEN 0 ELSE IF tier > 3 THEN 3 ELSE tier

Degraded(r) == r.status # "Success" /\ r.error

(* An outage, before any human is asked.                                   *)
OnOutage(p, t) ==
  LET row == p.riskTiers[t]
  IN CASE p.degradedMode = "HardBlock" -> "Blocked"
       [] p.degradedMode = "SoftHold" -> "Hold"
       [] OTHER -> CASE row.decisionOnOutage = "AllowProvisional" -> row.dispatchAuthorization
                     [] row.decisionOnOutage = "HoldDispatch" -> "Hold"
                     [] OTHER -> "Blocked"

(* Mutant: only the tier's own flag is asked.                              *)
FlaggedOnly(p, t) == p.riskTiers[t].requiresHumanApproval

(* Mutant: only the escalation tier itself escalates.                      *)
RequiresHumanAt(p, t) ==
  p.riskTiers[t].requiresHumanApproval \/ t = p.requireManualEscalationForTier

RequiresHuman(p, t) ==
  p.riskTiers[t].requiresHumanApproval \/ t >= p.requireManualEscalationForTier

(* Mutant: an approval lifts whatever the profile blocks.                  *)
Override(p, t, d, approved) ==
  CASE approved /\ p.riskTiers[t].decisionOnOutage = "Block" -> "Blocked"
    [] approved /\ p.riskTiers[t].decisionOnOutage # "Block" -> "Allowed"
    [] ~approved -> IF d = "Allowed" THEN "Hold" ELSE d

WithHuman(p, t, d, approved) ==
  CASE approved /\ p.riskTiers[t].decisionOnOutage = "Block" -> "Blocked"
    [] approved /\ p.riskTiers[t].decisionOnOutage # "Block" ->
         IF d = "Blocked" THEN d ELSE "Allowed"
    [] ~approved -> IF d = "Allowed" THEN "Hold" ELSE d

Dispatch(p, t, r, approved) ==
  CASE r.status = "Success" -> "Allowed"
    [] r.status # "Success" /\ ~r.error -> "Blocked"
    [] Degraded(r) -> IF RequiresHuman(p, t)
                      THEN WithHuman(p, t, OnOutage(p, t), approved)
                      ELSE OnOutage(p, t)

(* Without ShouldBook the flow ends here.                                  *)
Decide(p, raw, approved, ref) ==
  LET d == Dispatch(p, Coerced(raw), result, approved)
  IN /\ pc = "verified"
     /\ IF d = "Blocked"
        THEN End
        ELSE /\ pc' = "decided"
             /\ decision' = [profile |-> p, tier |-> Coerced(raw), approved |-> approved,
                             ref |-> approved /\ ref, dispatch |-> d]
             /\ UNCHANGED <<config, capabilities, provider, reply, result, badge>>
-------------------------------------------------------------------------------
(* _normalize_verifier_source, of the labels that occur.                   *)
SourceClass(s) ==
  CASE s \in {"hosted-adapter", "implementer-adapter"} -> "implementer-adapter"
    [] s = "mock-compliance" -> "authority-only"
    [] s = "mock-biometric" -> "simulated"
    [] OTHER -> s

(* Mutant: the first active entry will do.                                 *)
TrustedByAnyone(r) ==
  config.nonLocal /\ config.enforced =>
    \E id \in ProviderId : config.registry[id] # None /\ config.registry[id].active

(* _enforce_trusted_verifier_registry_result. An empty list allows all.    *)
Trusted(r) ==
  config.nonLocal /\ config.enforced =>
    LET e == config.registry[r.provider]
    IN /\ e # None
       /\ e.active
       /\ e.allowedSources # {} =>
            \E s \in e.allowedSources : SourceClass(s) = SourceClass(r.source)
       /\ e.allowedAssuranceLevels # {} => r.assuranceLevel \in e.allowedAssuranceLevels

(* The report may be refused for other reasons too: then the attempt Ends. *)
AcceptReport ==
  /\ pc = "decided"
  /\ Trusted(result)
  /\ pc' = "reported"
  /\ UNCHANGED <<config, capabilities, provider, reply, result, badge, decision>>

Requested == {"FMCSA", "MockComplianceProvider", "MockBiometricProvider", "iDenfy", "other"}

Next ==
  \/ \E requested \in Requested : Negotiate(requested)
  \/ \E source \in Sources :
       \/ Enforce(source) \/ RefuseSource(source)
       \/ \E answer \in Reply : AskAdapter(source, answer)
       \/ \E status \in {"Success", "Fail"} : Simulate(source, status)
  \/ \E p \in Profile, raw \in RawTier, approved, ref \in BOOLEAN : Decide(p, raw, approved, ref)
  \/ AcceptReport
  \/ End

Spec == Init /\ [][Next]_vars
-------------------------------------------------------------------------------
TypeOK ==
  /\ config \in Config
  /\ capabilities \in [Agent -> Capability]
  /\ pc \in {"bid", "negotiated", "verified", "decided", "reported"}
  /\ IF pc = "bid" THEN provider = None ELSE provider \in Providers
  /\ reply \in Reply \cup {None}
  /\ IF pc \in {"bid", "negotiated"} THEN result = None ELSE result \in Result
  /\ badge \in Badge
  /\ IF pc \in {"decided", "reported"} THEN decision \in Decision ELSE decision = None

(* What both agents agreed to in the negotiation is what the verifier says *)
(* it did: category, method and an assurance no lower than either's floor. *)
DeliveredAsNegotiated ==
  pc \in {"verified", "decided", "reported"} =>
    \A a \in Agent : /\ result.category \in capabilities[a].categories
                     /\ result.method \in capabilities[a].methods
                     /\ capabilities[a].floor <= result.assuranceLevel

(* A verdict against the carrier is final: whatever profile, risk tier and *)
(* approval follow it, it leads to no booking. Only outages are negotiable.*)
NegativeIsFinal ==
  pc \in {"decided", "reported"} /\ reply # None /\ Usable(reply) => reply.status = "Success"

(* Outside a local deployment that enforces its registry, and does not     *)
(* list the simulated verifiers, a receiver accepts a booking only after   *)
(* an active adapter was asked, and a badge only for an answer of that     *)
(* adapter that was signed if signatures are required.                     *)
OnlyAdaptersTrusted ==
  pc = "reported" /\ config.nonLocal /\ config.enforced
  /\ config.registry["compliance-mock"] = None /\ config.registry["biometric-mock"] = None =>
    /\ reply # None
    /\ config.registry["adapter"].active
    /\ badge # "None" => /\ reply.status = "Success"
                         /\ config.signed => reply.kind = "valid"

(* An approved exception never books what the profile would refuse without *)
(* it: it can lift a hold, not a block.                                    *)
ApprovalNeverOpens ==
  pc \in {"decided", "reported"} =>
    Dispatch(decision.profile, decision.tier, result, FALSE) # "Blocked"

(* Dispatch is Allowed while verification is out only below the profile's  *)
(* escalation tier, or with an approval.                                   *)
EscalationReachesHuman ==
  pc \in {"decided", "reported"} /\ Degraded(result) /\ decision.dispatch = "Allowed" =>
    \/ decision.tier < decision.profile.requireManualEscalationForTier
    \/ decision.approved

Rank(d) == CASE d = "Allowed" -> 2 [] d = "Hold" -> 1 [] d = "Blocked" -> 0
OutageRank(o) == CASE o = "AllowProvisional" -> 2 [] o = "HoldDispatch" -> 1 [] o = "Block" -> 0

(* A profile that is written from the low tiers to the high: no row is     *)
(* looser than the one before, and none allows and blocks at once.         *)
Graduated(p) ==
  /\ \A t, u \in Tier : t <= u =>
       /\ OutageRank(p.riskTiers[u].decisionOnOutage) <= OutageRank(p.riskTiers[t].decisionOnOutage)
       /\ Rank(p.riskTiers[u].dispatchAuthorization) <= Rank(p.riskTiers[t].dispatchAuthorization)
       /\ p.riskTiers[t].requiresHumanApproval => p.riskTiers[u].requiresHumanApproval
  /\ \A t \in Tier : p.riskTiers[t].decisionOnOutage = "AllowProvisional" =>
                       p.riskTiers[t].dispatchAuthorization # "Blocked"

(* Without an approval, a load of higher risk is never dispatched more     *)
(* freely than one of lower risk, in a graduated profile.                  *)
RiskNeverLoosens ==
  pc \in {"decided", "reported"} /\ ~decision.approved /\ Graduated(decision.profile) =>
    \A t \in Tier :
      LET other == Dispatch(decision.profile, t, result, FALSE)
      IN /\ t <= decision.tier => Rank(decision.dispatch) <= Rank(other)
         /\ t >= decision.tier => Rank(other) <= Rank(decision.dispatch)
===============================================================================
