-------------------------- MODULE IncidentResponse --------------------------
(***************************************************************************)
(* The incident capstone of advanced/05: an admitted alert is investigated,*)
(* a rollback is proposed, approved, executed once by the deployment       *)
(* orchestrator and verified.                                              *)
(*                                                                         *)
(* Every coordinator works on its own copy of IncidentRunState, saved to   *)
(* and loaded from one file (save_state, load_state); the lease is part of *)
(* that copy.  Shared are the evidence registry, the approval and the      *)
(* orchestrator with its receipts.  A function that raises keeps what it   *)
(* has already assigned.                                                   *)
(***************************************************************************)
EXTENDS Naturals, FiniteSets

CONSTANTS
    Coordinators,
    NoState,            \* a coordinator that holds no run
    Symptoms,           \* evidence of the initial investigation
    ReplanLimit, MitigationLimit,   \* IncidentBudget
    LeaseSpan, ApprovalSpan,
    LastHour            \* bound: the clock

VARIABLES
    alerted,      \* the alert's key is in AlertRegistry.processed_keys
    desks,        \* coordinator -> its IncidentRunState
    saved,        \* the state in the file
    library,      \* EvidenceRegistry: accepted records
    grant,        \* the approval receipt
    order,        \* OrchestratorStore: status of the receipt of the rollback
    flying,       \* a rollback is on its way to the deployment API
    rollbacks,    \* rollbacks the deployment API has carried out
    hour

responseVars == <<alerted, desks, saved, library, grant, order, flying, rollbacks, hour>>

Provider3DS == "provider"
Evidence == Symptoms \cup {Provider3DS}

Over == {"RESOLVED", "ESCALATED", "CANCELLED", "MANUAL_CONTROL"}
InHands == {"CANCELLED", "MANUAL_CONTROL"}
IncidentStatuses ==
    {"TRIAGED", "INVESTIGATING", "EVIDENCE_INCOMPLETE", "IMPACT_ASSESSED", "WAITING_REVIEW",
     "WAITING_APPROVAL", "VERIFYING", "DEGRADED"} \cup Over
ReceiptStatuses == {"NONE", "SUCCEEDED", "UNKNOWN_OUTCOME", "RECONCILED", "FAILED"}
Executed == {"SUCCEEDED", "RECONCILED"}

\* transition_incident, between statuses that a function leaves a run in.
Steps ==
    {<<"TRIAGED", "INVESTIGATING">>, <<"INVESTIGATING", "EVIDENCE_INCOMPLETE">>,
     <<"INVESTIGATING", "IMPACT_ASSESSED">>, <<"EVIDENCE_INCOMPLETE", "INVESTIGATING">>,
     <<"EVIDENCE_INCOMPLETE", "IMPACT_ASSESSED">>, <<"IMPACT_ASSESSED", "MITIGATION_PROPOSED">>,
     <<"WAITING_REVIEW", "WAITING_APPROVAL">>, <<"WAITING_APPROVAL", "EXECUTING">>,
     <<"DEGRADED", "VERIFYING">>, <<"VERIFYING", "RESOLVED">>,
     <<"VERIFYING", "EVIDENCE_INCOMPLETE">>}
MayBecome(s, status) ==
    CASE s.status = status -> TRUE
      [] status \in InHands -> s.status \notin Over
      [] status = "ESCALATED" -> s.status \notin InHands \cup {"RESOLVED"}
      [] OTHER -> <<s.status, status>> \in Steps
\* The state after a transition that may raise.
Moved(s, status) == IF MayBecome(s, status) THEN [s EXCEPT !.status = status] ELSE s

NewRun ==
    [status |-> "TRIAGED", gap |-> "NONE", replans |-> 0, attempts |-> 0,
     proposed |-> FALSE, receipt |-> "NONE", verified |-> "NONE",
     leader |-> NoState, until |-> 0]

IncidentInit ==
    /\ alerted = FALSE
    /\ desks = [p \in Coordinators |-> NoState]
    /\ saved = NoState
    /\ library = {}
    /\ grant = [given |-> FALSE, valid |-> FALSE, issued |-> 0]
    /\ order = "NONE"
    /\ flying = FALSE
    /\ rollbacks = 0
    /\ hour = 0

AtWork(p) == desks[p] # NoState
\* Wrong: a person's control is not looked for.
AutomaticAnyway(p) == AtWork(p)
Automatic(p) == AtWork(p) /\ desks[p].status \notin InHands
Keeps(p, s) == desks' = [desks EXCEPT ![p] = s]

(* ------------------------ alert, lease, persistence -------------------- *)

\* The signed alert arrives once more: only the first is admitted.
AdmitAlert(p) ==
    /\ ~AtWork(p) /\ ~alerted
    /\ alerted' = TRUE
    /\ Keeps(p, NewRun)
    /\ UNCHANGED <<saved, library, grant, order, flying, rollbacks, hour>>

AcquireLease(p) ==
    /\ AtWork(p)
    /\ desks[p].leader \in {NoState, p} \/ desks[p].until <= hour
    /\ Keeps(p, [desks[p] EXCEPT !.leader = p, !.until = hour + LeaseSpan])
    /\ UNCHANGED <<alerted, saved, library, grant, order, flying, rollbacks, hour>>
Leads(p) == desks[p].leader = p /\ desks[p].until > hour

SaveState(p) ==
    /\ AtWork(p)
    /\ saved' = desks[p]
    /\ UNCHANGED <<alerted, desks, library, grant, order, flying, rollbacks, hour>>

\* A process starts, or starts again, from the file.
LoadState(p) ==
    /\ saved # NoState
    /\ Keeps(p, saved)
    /\ UNCHANGED <<alerted, saved, library, grant, order, flying, rollbacks, hour>>

(* ----------------------------- investigation --------------------------- *)

\* What a sequence of reads (collect_evidence) adds: a record that is there
\* changes nothing; the first new one moves the run to INVESTIGATING, and
\* raises, itself accepted, where that is no step.
Readable(s, wanted) ==
    IF MayBecome(s, "INVESTIGATING") THEN {wanted \ library}
    ELSE IF wanted \subseteq library THEN {{}} ELSE {{e} : e \in wanted \ library}
AfterReads(s, got) == IF got = {} THEN s ELSE Moved(s, "INVESTIGATING")
Raised(s, got) == got # {} /\ ~MayBecome(s, "INVESTIGATING")

InitialInvestigation(p) ==
    LET s == desks[p] IN
    /\ Automatic(p)
    /\ \E got \in Readable(s, Symptoms) :
        /\ library' = library \cup got
        /\ Keeps(p, IF Raised(s, got) THEN s
                    ELSE Moved([AfterReads(s, got) EXCEPT !.gap = "OPEN"], "EVIDENCE_INCOMPLETE"))
    /\ UNCHANGED <<alerted, saved, grant, order, flying, rollbacks, hour>>

ResolveProviderGap(p) ==
    LET s == [desks[p] EXCEPT !.replans = @ + 1] IN
    /\ Automatic(p) /\ desks[p].replans < ReplanLimit
    /\ \/ /\ Keeps(p, Moved(s, "ESCALATED"))      \* the source is unavailable
          /\ UNCHANGED library
       \/ \E got \in Readable(s, {Provider3DS}) :
            /\ library' = library \cup got
            /\ Keeps(p, IF Raised(s, got) \/ s.gap = "NONE" THEN AfterReads(s, got)
                        ELSE [AfterReads(s, got) EXCEPT !.gap = "CLOSED"])
    /\ UNCHANGED <<alerted, saved, grant, order, flying, rollbacks, hour>>

AssessImpact(p) ==
    /\ AtWork(p)
    /\ Symptoms \subseteq library
    /\ Keeps(p, Moved(desks[p], "IMPACT_ASSESSED"))
    /\ UNCHANGED <<alerted, saved, library, grant, order, flying, rollbacks, hour>>

(* ------------------------ proposal, review, approval ------------------- *)

\* The proposal cites all the evidence, so it is the same whenever it is built.
BuildProposal(p) ==
    LET s == [desks[p] EXCEPT !.proposed = TRUE] IN
    /\ Automatic(p)
    /\ desks[p].gap # "OPEN" /\ Evidence \subseteq library
    /\ Keeps(p, IF MayBecome(s, "MITIGATION_PROPOSED") THEN [s EXCEPT !.status = "WAITING_REVIEW"] ELSE s)
    /\ UNCHANGED <<alerted, saved, library, grant, order, flying, rollbacks, hour>>

PassReview(p) ==
    /\ AtWork(p) /\ desks[p].proposed
    /\ Keeps(p, Moved(desks[p], "WAITING_APPROVAL"))
    /\ UNCHANGED <<alerted, saved, library, grant, order, flying, rollbacks, hour>>

\* An approver signs; a receipt may name another proposal, policy or approver.
Approve ==
    /\ \E p \in Coordinators : AtWork(p) /\ desks[p].proposed
    /\ \E valid \in BOOLEAN : grant' = [given |-> TRUE, valid |-> valid, issued |-> hour]
    /\ UNCHANGED <<alerted, desks, saved, library, order, flying, rollbacks, hour>>
Approved == grant.given /\ grant.valid /\ grant.issued <= hour /\ hour < grant.issued + ApprovalSpan

(* ------------------------- execution, verification --------------------- *)

\* Wrong: only a receipt that says it was executed counts.
KnownToHaveRun == order \in Executed

\* The orchestrator knows the logical operation.
KnownOrder == order # "NONE"

\* Where the run stands when the attempt is counted.
Counted(s) ==
    [IF s.status = "WAITING_REVIEW" THEN [s EXCEPT !.status = "WAITING_APPROVAL"] ELSE s
     EXCEPT !.attempts = @ + 1]

\* execute_mitigation; a known operation only returns its receipt.
ExecuteMitigation(p) ==
    LET s == Counted(desks[p]) IN
    /\ Automatic(p) /\ Leads(p) /\ desks[p].proposed
    /\ Approved /\ desks[p].attempts < MitigationLimit
    /\ ~KnownOrder
    /\ IF ~MayBecome(s, "EXECUTING")
       THEN Keeps(p, s) /\ UNCHANGED <<order, flying, rollbacks>>
       ELSE \/ /\ Keeps(p, [s EXCEPT !.status = "VERIFYING", !.receipt = "SUCCEEDED"])
               /\ order' = "SUCCEEDED" /\ rollbacks' = rollbacks + 1
               /\ UNCHANGED flying
            \/ /\ Keeps(p, [s EXCEPT !.status = "DEGRADED", !.receipt = "UNKNOWN_OUTCOME"])
               /\ order' = "UNKNOWN_OUTCOME" /\ flying' = TRUE
               /\ UNCHANGED rollbacks
    /\ UNCHANGED <<alerted, saved, library, grant, hour>>

\* The deployment API carries out, or loses, the request nobody heard back about.
Land ==
    /\ flying
    /\ flying' = FALSE
    /\ rollbacks' \in {rollbacks, rollbacks + 1}
    /\ UNCHANGED <<alerted, desks, saved, library, grant, order, hour>>

\* reconcile_unknown_outcome, with a receipt from the run or from the orchestrator.
ReconcileOutcome(p) ==
    LET found == IF rollbacks > 0 THEN "RECONCILED" ELSE "FAILED" IN
    /\ AtWork(p)
    /\ "UNKNOWN_OUTCOME" \in {desks[p].receipt, order}
    /\ order' = found
    /\ Keeps(p, Moved([desks[p] EXCEPT !.receipt = found],
                      IF found = "RECONCILED" THEN "VERIFYING" ELSE "ESCALATED"))
    /\ UNCHANGED <<alerted, saved, library, grant, flying, rollbacks, hour>>

VerifyRecovery(p) ==
    /\ Automatic(p)
    /\ desks[p].receipt \in Executed
    /\ \E result \in {"PASS", "FAIL"} :
         Keeps(p, Moved([desks[p] EXCEPT !.verified = result],
                        IF result = "PASS" THEN "RESOLVED" ELSE "EVIDENCE_INCOMPLETE"))
    /\ UNCHANGED <<alerted, saved, library, grant, order, flying, rollbacks, hour>>

\* A person takes over, or cancels.
TakeOver(p) ==
    /\ AtWork(p)
    /\ \E status \in InHands : Keeps(p, Moved(desks[p], status))
    /\ UNCHANGED <<alerted, saved, library, grant, order, flying, rollbacks, hour>>

HourPasses ==
    /\ hour < LastHour
    /\ hour' = hour + 1
    /\ UNCHANGED <<alerted, desks, saved, library, grant, order, flying, rollbacks>>

ByCoordinator(p) ==
    \/ AdmitAlert(p) \/ AcquireLease(p) \/ SaveState(p)
    \/ InitialInvestigation(p) \/ ResolveProviderGap(p) \/ AssessImpact(p)
    \/ BuildProposal(p) \/ PassReview(p) \/ ExecuteMitigation(p)
    \/ ReconcileOutcome(p) \/ VerifyRecovery(p) \/ TakeOver(p)

ResponseNext ==
    \/ \E p \in Coordinators : ByCoordinator(p) \/ LoadState(p)
    \/ Approve \/ Land \/ HourPasses

ResponseSpec == IncidentInit /\ [][ResponseNext]_responseVars

(* ------------------------------- properties ---------------------------- *)

RunState ==
    [status : IncidentStatuses, gap : {"NONE", "OPEN", "CLOSED"},
     replans : 0 .. ReplanLimit, attempts : 0 .. MitigationLimit, proposed : BOOLEAN,
     receipt : ReceiptStatuses, verified : {"NONE", "PASS", "FAIL"},
     leader : Coordinators \cup {NoState}, until : Nat]

ASSUME ResponseAssumption ==
    /\ NoState \notin RunState /\ NoState \notin Coordinators
    /\ ReplanLimit \in Nat /\ MitigationLimit \in Nat
    /\ LeaseSpan \in Nat /\ ApprovalSpan \in Nat /\ LastHour \in Nat
    /\ Symptoms # {}

ResponseTypeOK ==
    /\ alerted \in BOOLEAN
    /\ desks \in [Coordinators -> RunState \cup {NoState}]
    /\ saved \in RunState \cup {NoState}
    /\ library \in SUBSET Evidence
    /\ grant \in [given : BOOLEAN, valid : BOOLEAN, issued : Nat]
    /\ order \in ReceiptStatuses
    /\ flying \in BOOLEAN /\ rollbacks \in Nat /\ hour \in Nat

\* Whatever copies of the run there are, and whoever believes to lead it: the
\* deployment is rolled back at most once, and none is sent after it has been
\* (README.md, "Idempotent execution and unknown outcomes").
RolledBackOnce == rollbacks + (IF flying THEN 1 ELSE 0) <= 1

\* A run that is resolved, in memory or in the file, has been rolled back and
\* confirmed, and its verification was of that.
Runs == {desks[p] : p \in {q \in Coordinators : AtWork(q)}} \cup ({saved} \ {NoState})
ResolvedMeansRolledBack ==
    \A s \in Runs : s.status = "RESOLVED" =>
        /\ s.receipt \in Executed /\ s.verified # "NONE"
        /\ s.proposed /\ s.attempts > 0
        /\ order \in Executed /\ rollbacks = 1

\* One rollback at most, and a resolution only where it was one.
RollbackIsSettled == RolledBackOnce /\ ResolvedMeansRolledBack

\* Once a person has the incident, this coordinator reads no evidence, plans,
\* executes and verifies nothing and does not take it back; what it may still
\* do is learn how an execution ended, or be started again from the file
\* (README.md, "Durable recovery and manual control").
PersonKeepsControl ==
    [][\A p \in Coordinators :
         (AtWork(p) /\ desks[p].status \in InHands /\ desks'[p] # saved) =>
            LET before == desks[p]
                after == desks'[p] IN
            /\ after.status = before.status /\ after.gap = before.gap
            /\ after.replans = before.replans /\ after.proposed = before.proposed
            /\ after.attempts = before.attempts /\ after.verified = before.verified]_responseVars
=============================================================================
