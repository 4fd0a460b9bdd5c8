--------------------------- MODULE MCPolicyDecision ---------------------------
(* Values for the constants of PolicyDecision: the profiles of              *)
(* profiles/verification, one only the runtime admits, and the settings.    *)
EXTENDS PolicyDecision, TLC

Row(outage, dispatch, human) ==
  [decisionOnOutage |-> outage, dispatchAuthorization |-> dispatch,
   requiresHumanApproval |-> human]

Profiled(mode, manual, r0, r1, r2, r3) ==
  [degradedMode |-> mode, requireManualEscalationForTier |-> manual,
   riskTiers |-> (0 :> r0) @@ (1 :> r1) @@ (2 :> r2) @@ (3 :> r3)]

Balanced == Profiled("GraceCache", 2,
  Row("AllowProvisional", "Allowed", FALSE), Row("AllowProvisional", "Hold", FALSE),
  Row("HoldDispatch", "Hold", TRUE), Row("Block", "Blocked", TRUE))

SoftHold == Profiled("SoftHold", 2,
  Row("AllowProvisional", "Hold", FALSE), Row("HoldDispatch", "Hold", FALSE),
  Row("HoldDispatch", "Hold", TRUE), Row("Block", "Blocked", TRUE))

Strict == Profiled("HardBlock", 1,
  Row("AllowProvisional", "Hold", FALSE), Row("HoldDispatch", "Hold", TRUE),
  Row("Block", "Blocked", TRUE), Row("Block", "Blocked", TRUE))

(* Its rows leave to the escalation tier what they could say themselves.   *)
Escalating == Profiled("GraceCache", 1,
  Row("AllowProvisional", "Allowed", FALSE), Row("AllowProvisional", "Allowed", FALSE),
  Row("AllowProvisional", "Allowed", FALSE), Row("HoldDispatch", "Blocked", FALSE))

Shipped == {Balanced, SoftHold, Strict}
AllProfiles == Shipped \cup {Escalating}

(* The default; the carrier of --force-capability-mismatch; one with a     *)
(* higher floor; one whose floor is misspelt.                              *)
Capabilities ==
  { [categories |-> {"Compliance", "Biometric", "Identity"},
     methods |-> {"AuthorityRecordCheck", "LivenessPlusDocument"}, floor |-> f] : f \in {-1, 1, 2} }
  \cup {[categories |-> {"Identity"}, methods |-> {"DocumentOnly"}, floor |-> 1]}

Entry(sources) == [active |-> TRUE, allowedSources |-> sources, allowedAssuranceLevels |-> {1}]

(* Registries: none; an adapter by its legacy label, beside a simulated    *)
(* verifier or not; an adapter that is suspended.                          *)
NoRegistry == [id \in ProviderId |-> None]
AdapterOnly == [NoRegistry EXCEPT !["adapter"] = Entry({"hosted-adapter"})]
AdapterAndMock == [AdapterOnly EXCEPT !["compliance-mock"] = Entry({})]
Suspended == [NoRegistry EXCEPT !["adapter"] = [Entry({}) EXCEPT !.active = FALSE]]

Setting(nonLocal, enforced, signed, registry) ==
  [nonLocal |-> nonLocal, enforced |-> enforced, signed |-> signed, registry |-> registry]

Configs ==
  { Setting(FALSE, TRUE, FALSE, NoRegistry),
    Setting(TRUE, FALSE, TRUE, NoRegistry) }
  \cup { Setting(TRUE, TRUE, s, r) : s \in BOOLEAN, r \in {AdapterOnly, AdapterAndMock, Suspended} }
===============================================================================
