---------------------------- MODULE HybridPlane ----------------------------
(***************************************************************************)
(* The control plane of advanced/04 for one request: its text is           *)
(* classified, an architecture decided, a contract built and handed to a   *)
(* runner, and the runner's result passes a gate.  A worker that lacks     *)
(* evidence may ask for another architecture.  Between the steps the       *)
(* caller's context may be built anew and a new policy be deployed.        *)
(*                                                                         *)
(* A text is the set of phrases the code looks for.  Versions of the       *)
(* classifier and the router, costs, and what the output says are left     *)
(* out.                                                                    *)
(***************************************************************************)
EXTENDS Naturals, FiniteSets

CONSTANTS
    Texts,        \* what the request may say
    Grants,       \* sets of capabilities the caller may have
    Classes,      \* data classifications the context may have
    Patience,     \* milliseconds a caller may allow
    LastContext,  \* bound of the contexts the request is handled in
    NoReceipt

VARIABLES
    text,         \* of the request, for good
    context,      \* RequestContext: grants, data, deadline, policy
    contexts,     \* how many contexts there were
    deployed,     \* POLICY_VERSION of the code
    plane,        \* how far the request has come
    transition,   \* ArchitectureTransitionState
    receipts,     \* rollback approvals that were issued
    written,      \* history: what was written under which contract
    successes     \* history: results of status SUCCEEDED that passed the gate

hybridVars == <<text, context, contexts, deployed, plane, transition, receipts, written, successes>>

(* ---------------------------- classification --------------------------- *)

Intents == {"CHECKOUT_STATUS", "PASSWORD_RESET", "INCIDENT_DIAGNOSIS", "REMEDIATION_REVIEW",
            "MULTI_DOMAIN_INCIDENT", "PRODUCTION_ROLLBACK", "UNKNOWN"}

\* The first reading whose phrases are all there decides.
Reading(phrases, intent, risk) == [phrases |-> phrases, intent |-> intent, risk |-> risk]
Readings ==
    << Reading({"rollback", "deploy-1842"}, "PRODUCTION_ROLLBACK", "HIGH"),
       Reading({"reset password"}, "PASSWORD_RESET", "HIGH"),
       Reading({"proposal for security-review"}, "REMEDIATION_REVIEW", "MEDIUM"),
       Reading({"across domains"}, "MULTI_DOMAIN_INCIDENT", "MEDIUM"),
       Reading({"why did conversion fall"}, "INCIDENT_DIAGNOSIS", "MEDIUM"),
       Reading({"checkout healthy"}, "CHECKOUT_STATUS", "LOW"),
       Reading({}, "UNKNOWN", "HIGH_RISK_UNKNOWN") >>

\* propose_classification
Authoritative(t) ==
    LET fits == {i \in DOMAIN Readings : Readings[i].phrases \subseteq t} IN
    Readings[CHOOSE i \in fits : \A j \in fits : i <= j]
UnclassifiedText == {}

Rank == [PUBLIC |-> 0, INTERNAL |-> 1, SENSITIVE |-> 2, RESTRICTED |-> 3]

\* The class of a text as the code itself proposes it.
OwnClass(t) ==
    [intent |-> Authoritative(t).intent,
     data |-> IF Authoritative(t).intent = "PASSWORD_RESET" /\ Rank[context.data] < Rank["SENSITIVE"]
              THEN "SENSITIVE" ELSE context.data]

\* validate_classification: what a classifier may propose, and what is made of it.
Overriding == {"PASSWORD_RESET", "PRODUCTION_ROLLBACK", "UNKNOWN"}
ValidProposal(p) ==
    LET sure == Authoritative(text) IN
    /\ context.policy = deployed
    /\ Rank[p.data] >= Rank[context.data]
    /\ sure.intent \in Overriding \/ p.intent = sure.intent
RiskDowngrade(risk) ==
    /\ Authoritative(text).intent \notin Overriding
    /\ risk = "LOW" /\ Authoritative(text).risk # "LOW"
ValidatedClass(p) == IF Authoritative(text).intent \in Overriding THEN OwnClass(text) ELSE p
ProposedClasses == [intent : Intents, data : Classes]

(* ------------------------------- decision ------------------------------ *)

Teams == {"MANAGER_SPECIALISTS", "SELECTOR_TEAM", "CREW"}
RouteOf ==
    [CHECKOUT_STATUS |-> "DIRECT_FUNCTION", PASSWORD_RESET |-> "DETERMINISTIC_WORKFLOW",
     INCIDENT_DIAGNOSIS |-> "BOUNDED_SINGLE_AGENT", REMEDIATION_REVIEW |-> "PIPELINE",
     MULTI_DOMAIN_INCIDENT |-> "SELECTOR_TEAM", PRODUCTION_ROLLBACK |-> "DETERMINISTIC_WORKFLOW",
     UNKNOWN |-> "HUMAN_ESCALATION"]

RequiredCapabilities ==
    [CHECKOUT_STATUS |-> {"checkout-health.read"},
     PASSWORD_RESET |-> {"identity.otp.send", "identity.password.update"},
     INCIDENT_DIAGNOSIS |-> {"checkout-health.read", "logs.read", "deployment.read", "runbook.read"},
     REMEDIATION_REVIEW |-> {"remediation.proposal.generate", "security.review"},
     MULTI_DOMAIN_INCIDENT |-> {"checkout-health.read", "deployment.read", "customer-impact.read"},
     PRODUCTION_ROLLBACK |-> {"production.rollback"},
     UNKNOWN |-> {}]
WriteCapabilities == {"identity.password.update", "production.rollback"}

RequiredEvidence ==
    [CHECKOUT_STATUS |-> {"checkout-health"}, PASSWORD_RESET |-> {"identity-verification"},
     INCIDENT_DIAGNOSIS |-> {"checkout-health", "checkout-logs", "deploy-1842", "rollback-runbook"},
     REMEDIATION_REVIEW |-> {"remediation-proposal", "security-review"},
     MULTI_DOMAIN_INCIDENT |-> {"checkout-health", "deploy-1842", "customer-impact"},
     PRODUCTION_ROLLBACK |-> {"review-pass", "validated-approval"},
     UNKNOWN |-> {}]

ArchitectureBudget(models, tools, deadline, transitions, depth) ==
    [models |-> models, tools |-> tools, deadline |-> deadline,
     transitions |-> transitions, depth |-> depth]
ArchitectureBudgets ==
    [DIRECT_FUNCTION |-> ArchitectureBudget(0, 1, 150, 1, 1),
     DETERMINISTIC_WORKFLOW |-> ArchitectureBudget(0, 4, 500, 1, 1),
     BOUNDED_SINGLE_AGENT |-> ArchitectureBudget(3, 4, 900, 1, 1),
     PIPELINE |-> ArchitectureBudget(2, 1, 1200, 1, 1),
     SELECTOR_TEAM |-> ArchitectureBudget(4, 3, 1200, 1, 2),
     HUMAN_ESCALATION |-> ArchitectureBudget(0, 0, 100, 0, 0)]

\* decide_architecture; restricted data stay out of teams.
ArchitectureFor(intent) ==
    IF context.data = "RESTRICTED" /\ RouteOf[intent] \in Teams THEN "HUMAN_ESCALATION"
    ELSE RouteOf[intent]
Needed(intent) ==
    IF ArchitectureFor(intent) = "HUMAN_ESCALATION" THEN {} ELSE RequiredCapabilities[intent]
Decidable(intent) == context.policy = deployed /\ Needed(intent) \subseteq context.grants
DecisionFor(intent) ==
    LET budget == ArchitectureBudgets[ArchitectureFor(intent)] IN
    [architecture |-> ArchitectureFor(intent), capabilities |-> Needed(intent),
     policy |-> deployed,
     deadline |-> IF context.deadline < budget.deadline THEN context.deadline ELSE budget.deadline]

(* -------------------------------- request ------------------------------ *)

Contexts(version) ==
    [grants : Grants, data : Classes, deadline : Patience, policy : {version}]
NewRequest == [pc |-> "received"]

HybridInit ==
    /\ text \in Texts
    /\ deployed = 1 /\ context \in Contexts(1) /\ contexts = 1
    /\ plane = NewRequest
    /\ transition = [current |-> "none", transitions |-> 0, depth |-> 0, cancelled |-> FALSE,
                     accepted |-> {}, original |-> OwnClass(UnclassifiedText)]
    /\ receipts = {} /\ written = {} /\ successes = {}

Unmoved == UNCHANGED <<text, context, contexts, deployed, transition, receipts, written, successes>>

Classify(p, risk) ==
    /\ plane.pc = "received" /\ ValidProposal(p) /\ ~RiskDowngrade(risk)
    /\ plane' = [pc |-> "classified", class |-> ValidatedClass(p)]
    /\ Unmoved

\* Without a classifier the request counts as one that says nothing.
ClassifierUnavailable ==
    /\ plane.pc = "received"
    /\ plane' = [pc |-> "classified", class |-> OwnClass(UnclassifiedText)]
    /\ Unmoved

DecideOn(class) ==
    /\ plane.pc = "classified" /\ Decidable(class.intent)
    /\ plane' = [pc |-> "decided", class |-> class, decision |-> DecisionFor(class.intent)]
    /\ Unmoved
DecideArchitecture == DecideOn(plane.class)
RouterUnavailable == DecideOn(OwnClass(UnclassifiedText))

\* Wrong: a decision is good for whatever the caller may do by now.
SameVersion(decision) == decision.policy = context.policy

\* build_execution_contract
StillGranted(decision) ==
    decision.policy = context.policy /\ decision.capabilities \subseteq context.grants

Contract(intent) ==
    [architecture |-> plane.decision.architecture, capabilities |-> plane.decision.capabilities,
     evidence |-> RequiredEvidence[intent], policy |-> plane.decision.policy,
     deadline |-> plane.decision.deadline]

\* After a transition the caller passes the classification it has, or a copy
\* with the intent that was admitted.
BuildContract(intent) ==
    /\ plane.pc = "decided" /\ StillGranted(plane.decision)
    /\ \/ intent = plane.class.intent
       \/ transition.transitions > 0 /\ intent = "MULTI_DOMAIN_INCIDENT"
    /\ plane' = [pc |-> "contracted", class |-> plane.class, contract |-> Contract(intent),
                 held |-> context.grants]
    /\ Unmoved

(* -------------------------------- approval ----------------------------- *)

Approvers == {"incident-commander-7", "stranger"}

\* build_rollback_approval, for this request or for another; live says whether
\* its window holds the moment of execution.
IssueReceipt(request, approver, live) ==
    /\ plane.pc = "contracted"
    /\ receipts' = receipts \cup {[request |-> request, approver |-> approver, live |-> live,
                                   policy |-> plane.contract.policy]}
    /\ UNCHANGED <<text, context, contexts, deployed, plane, transition, written, successes>>

ValidReceipt(receipt, contract) ==
    /\ receipt.request = "this" /\ receipt.policy = contract.policy
    /\ receipt.live /\ receipt.approver = "incident-commander-7"

(* -------------------------------- runners ------------------------------ *)

\* What a run goes by besides its contract; own, whether the evidence belongs to
\* the tenant of the contract.
Conditions(receipt) ==
    [otp : {"none", "wrong", "right"}, ownAccount : BOOLEAN, receipt : {receipt},
     model : BOOLEAN, dependencies : BOOLEAN, own : BOOLEAN, cancelled : BOOLEAN]

\* _result
Outcome(status, evidence, models, tools, ms) ==
    [status |-> status, evidence |-> evidence, models |-> models, tools |-> tools, ms |-> ms]
Idle(status) == Outcome(status, {}, 0, 0, 0)

\* require_capabilities
MayServe(contract, intent) == RequiredCapabilities[intent] \subseteq contract.capabilities

DirectFunctionRunner(contract, cond) ==
    CASE ~MayServe(contract, "CHECKOUT_STATUS") -> Idle("BLOCKED")
      [] ~cond.dependencies -> Outcome("DEGRADED", {}, 0, 1, 20)
      [] ~cond.own -> Idle("BLOCKED")
      [] OTHER -> Outcome("SUCCEEDED", RequiredEvidence["CHECKOUT_STATUS"], 0, 1, 25)

AsksForTeam(contract) ==
    contract.architecture = "BOUNDED_SINGLE_AGENT" /\ "need a team" \in text
BoundedAgentRunner(contract, cond) ==
    IF ~MayServe(contract, "INCIDENT_DIAGNOSIS") THEN Idle("BLOCKED")
    ELSE IF ~cond.model THEN Idle("ESCALATED")
    ELSE IF ~cond.dependencies THEN Outcome("DEGRADED", {}, 1, 1, 90)
    ELSE IF ~cond.own THEN Idle("BLOCKED")
    ELSE IF AsksForTeam(contract) THEN Outcome("ESCALATED", {"checkout-health"}, 1, 1, 100)
    ELSE Outcome("SUCCEEDED", RequiredEvidence["INCIDENT_DIAGNOSIS"], 2, 4, 260)

PipelineRunner(contract, cond) ==
    IF ~MayServe(contract, "REMEDIATION_REVIEW") THEN Idle("BLOCKED")
    ELSE IF ~cond.model THEN Idle("ESCALATED")
    ELSE Outcome("SUCCEEDED", RequiredEvidence["REMEDIATION_REVIEW"], 2, 0, 240)

TeamRunner(contract, cond) ==
    IF ~MayServe(contract, "MULTI_DOMAIN_INCIDENT") THEN Idle("BLOCKED")
    ELSE IF ~cond.model THEN Idle("ESCALATED")
    ELSE IF ~cond.dependencies THEN Outcome("DEGRADED", {}, 3, 3, 70)
    ELSE IF ~cond.own THEN Idle("BLOCKED")
    ELSE Outcome("SUCCEEDED", RequiredEvidence["MULTI_DOMAIN_INCIDENT"], 4, 3, 150)

\* WorkflowRunner; a reset it begins itself does not outlive the call.
RollBack(contract, cond) ==
    IF /\ MayServe(contract, "PRODUCTION_ROLLBACK")
       /\ cond.receipt # NoReceipt /\ ValidReceipt(cond.receipt, contract)
    THEN Outcome("SUCCEEDED", {"review-pass", "validated-approval"}, 0, 1, 80)
    ELSE Idle("BLOCKED")
ResetPassword(contract, cond) ==
    IF ~MayServe(contract, "PASSWORD_RESET") \/ ~cond.ownAccount THEN Idle("BLOCKED")
    ELSE CASE cond.otp = "none" -> Outcome("WAITING", {}, 0, 1, 30)
           [] cond.otp = "wrong" -> Outcome("BLOCKED", {}, 0, 2, 45)
           [] OTHER -> Outcome("SUCCEEDED", {"identity-verification"}, 0, 3, 70)
WorkflowRunner(contract, cond) ==
    IF ~cond.dependencies THEN Idle("DEGRADED")
    ELSE IF "rollback" \in text THEN RollBack(contract, cond) ELSE ResetPassword(contract, cond)

\* ArchitectureRegistry.run, up to the gate.
Candidate(contract, cond) ==
    IF cond.cancelled THEN Idle("CANCELLED")
    ELSE CASE contract.architecture = "DIRECT_FUNCTION" -> DirectFunctionRunner(contract, cond)
           [] contract.architecture = "DETERMINISTIC_WORKFLOW" -> WorkflowRunner(contract, cond)
           [] contract.architecture = "BOUNDED_SINGLE_AGENT" -> BoundedAgentRunner(contract, cond)
           [] contract.architecture = "PIPELINE" -> PipelineRunner(contract, cond)
           [] contract.architecture \in Teams -> TeamRunner(contract, cond)
           [] OTHER -> Idle("ESCALATED")

\* The evidence the application has accepted by then.
Accepted(contract, candidate) ==
    IF candidate.status = "SUCCEEDED" THEN candidate.evidence
    ELSE IF AsksForTeam(contract) /\ candidate.status = "ESCALATED" /\ candidate.tools > 0
    THEN RequiredEvidence["INCIDENT_DIAGNOSIS"] ELSE {}

\* An adapter may claim evidence nobody accepted, or make more calls.
Claims(contract, candidate) ==
    {candidate, [candidate EXCEPT !.status = "SUCCEEDED", !.evidence = contract.evidence],
     [candidate EXCEPT !.models = ArchitectureBudgets[contract.architecture].models + 1]}

\* validate_execution_result
Passes(result, contract, accepted) ==
    LET budget == ArchitectureBudgets[contract.architecture] IN
    /\ result.models <= budget.models /\ result.tools <= budget.tools
    /\ result.ms <= contract.deadline
    /\ result.status = "SUCCEEDED" =>
          contract.evidence \subseteq result.evidence /\ result.evidence \subseteq accepted

\* What the runner and the gate leave behind.  A write that was made stays,
\* whether or not the result passes.
EndWith(contract, receipt, candidate, accepted, result) ==
    /\ written' = IF contract.architecture = "DETERMINISTIC_WORKFLOW" /\ candidate.status = "SUCCEEDED"
                  THEN written \cup {[kind |-> IF "rollback" \in text THEN "production.rollback"
                                              ELSE "identity.password.update",
                                      contract |-> contract, held |-> plane.held,
                                      receipt |-> receipt]}
                  ELSE written
    /\ plane' = [pc |-> "ended", class |-> plane.class, architecture |-> contract.architecture,
                 accepted |-> accepted]
    /\ successes' = IF result.status = "SUCCEEDED" /\ Passes(result, contract, accepted)
                    THEN successes \cup {[contract |-> contract, held |-> plane.held,
                                          accepted |-> accepted, result |-> result]}
                    ELSE successes
    /\ UNCHANGED <<text, context, contexts, deployed, transition, receipts>>

RunContract(receipt) ==
    /\ plane.pc = "contracted"
    /\ \E candidate \in {Candidate(plane.contract, c) : c \in Conditions(receipt)} :
         \E result \in Claims(plane.contract, candidate) :
           EndWith(plane.contract, receipt, candidate, Accepted(plane.contract, candidate), result)

AskAgain ==
    /\ plane.pc = "ended"
    /\ plane' = NewRequest
    /\ Unmoved

(* ------------------------------ transitions ---------------------------- *)

AllowedTransitions(architecture) ==
    CASE architecture = "BOUNDED_SINGLE_AGENT" -> {"SELECTOR_TEAM", "HUMAN_ESCALATION"}
      [] architecture \in {"DIRECT_FUNCTION", "HUMAN_ESCALATION"} -> {}
      [] OTHER -> {"HUMAN_ESCALATION"}

\* The application keeps one transition state for the request, with what it
\* has accepted, from the run or otherwise.
OpenTransition(extra) ==
    /\ plane.pc = "ended" /\ transition.current = "none"
    /\ transition' = [current |-> plane.architecture, transitions |-> 0, depth |-> 0,
                      cancelled |-> FALSE, accepted |-> plane.accepted \cup extra, original |-> plane.class]
    /\ UNCHANGED <<text, context, contexts, deployed, plane, receipts, written, successes>>

\* admit_architecture_transition; only this gap has a remedy.
AdmissibleChange(gap, target) ==
    LET budget == ArchitectureBudgets[transition.current] IN
    /\ ~transition.cancelled
    /\ transition.transitions < budget.transitions /\ transition.depth < budget.depth
    /\ target \in AllowedTransitions(transition.current)
    /\ ValidProposal(transition.original)
    /\ gap \notin transition.accepted
    /\ transition.current = "BOUNDED_SINGLE_AGENT" /\ gap = "customer-impact"
    /\ ValidatedClass(transition.original).intent = "INCIDENT_DIAGNOSIS"
    /\ target = "SELECTOR_TEAM"
    /\ Decidable("MULTI_DOMAIN_INCIDENT")
    /\ ArchitectureFor("MULTI_DOMAIN_INCIDENT") = target

Admit(gap, target) ==
    /\ plane.pc = "ended" /\ transition.current # "none" /\ AdmissibleChange(gap, target)
    /\ transition' = [transition EXCEPT !.current = target, !.transitions = @ + 1, !.depth = @ + 1]
    /\ plane' = [pc |-> "decided", class |-> plane.class,
                 decision |-> DecisionFor("MULTI_DOMAIN_INCIDENT")]
    /\ UNCHANGED <<text, context, contexts, deployed, receipts, written, successes>>

CancelTransition ==
    /\ transition.current # "none" /\ ~transition.cancelled
    /\ transition' = [transition EXCEPT !.cancelled = TRUE]
    /\ UNCHANGED <<text, context, contexts, deployed, plane, receipts, written, successes>>

(* ------------------------------ surroundings --------------------------- *)

\* A later call comes with a context of its own; a deployment brings a policy.
NewContext(new) ==
    /\ contexts < LastContext
    /\ contexts' = contexts + 1
    /\ context' = new
    /\ UNCHANGED <<text, deployed, plane, transition, receipts, written, successes>>
Deploy ==
    /\ deployed = 1
    /\ deployed' = 2
    /\ UNCHANGED <<text, context, contexts, plane, transition, receipts, written, successes>>

HybridNext ==
    \/ \E p \in ProposedClasses, risk \in {"LOW", "MEDIUM"} : Classify(p, risk)
    \/ ClassifierUnavailable
    \/ DecideArchitecture
    \/ RouterUnavailable
    \/ \E intent \in Intents : BuildContract(intent)
    \/ \E request \in {"this", "other"}, approver \in Approvers, live \in BOOLEAN :
          IssueReceipt(request, approver, live)
    \/ \E receipt \in receipts \cup {NoReceipt} : RunContract(receipt)
    \/ AskAgain
    \/ \E extra \in {{}, {"customer-impact"}} : OpenTransition(extra)
    \/ \E gap \in {"customer-impact", "checkout-logs"}, target \in {"SELECTOR_TEAM", "HUMAN_ESCALATION"} :
          Admit(gap, target)
    \/ CancelTransition
    \/ \E version \in 1..deployed : \E new \in Contexts(version) : NewContext(new)
    \/ Deploy

HybridSpec == HybridInit /\ [][HybridNext]_hybridVars

(* ------------------------------ properties ----------------------------- *)

\* What is written is what the text asks for, by a capability the caller had
\* when the contract was made, and a rollback by an approval of this request
\* under the policy of the contract (lab.py WorkflowRunner.run).
WritesAreMandated ==
    \A w \in written :
      /\ Authoritative(text).intent =
           IF w.kind = "production.rollback" THEN "PRODUCTION_ROLLBACK" ELSE "PASSWORD_RESET"
      /\ w.kind \in w.held
      /\ w.kind = "production.rollback" =>
           w.receipt \in receipts /\ ValidReceipt(w.receipt, w.contract)

\* A success shows all the evidence its contract asks for, accepted evidence
\* only, and stays within the budget of its architecture, which is the one the
\* text is routed to, the team a transition led to, or a person (policy.py
\* validate_execution_result).
SuccessIsBacked ==
    \A s \in successes :
      /\ s.contract.evidence \subseteq s.result.evidence
      /\ s.result.evidence \subseteq s.accepted
      /\ s.contract.capabilities \subseteq s.held
      /\ s.result.models <= ArchitectureBudgets[s.contract.architecture].models
      /\ \/ s.contract.architecture \in {RouteOf[Authoritative(text).intent], "HUMAN_ESCALATION"}
         \/ /\ s.contract.architecture = "SELECTOR_TEAM" /\ transition.transitions = 1
            /\ Authoritative(text).intent = "INCIDENT_DIAGNOSIS"

\* A worker cannot talk its way to more than one change of architecture, nor to
\* a contract that writes what the text does not ask for (policy.py
\* admit_architecture_transition).
TransitionsStayInside ==
    /\ transition.transitions <= 1
    /\ plane.pc = "contracted" =>
         plane.contract.capabilities \cap WriteCapabilities
           \subseteq RequiredCapabilities[Authoritative(text).intent]

\* The control plane keeps to what the text and the caller's authority mandate,
\* whichever step another context or a new policy comes before.
PlaneKeepsItsMandate == WritesAreMandated /\ SuccessIsBacked /\ TransitionsStayInside
=============================================================================
