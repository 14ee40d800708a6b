-------------------------- MODULE ApprovedRollback --------------------------
(***************************************************************************)
(* The approval and execution of a rollback in intermediate/03: a payload  *)
(* is built from a proposal and frozen, reviewers decide on it, their      *)
(* decisions are validated against the policy and the evidence of that     *)
(* moment, and the command this yields is carried out behind a table of    *)
(* idempotency records.                                                    *)
(*                                                                         *)
(* process_decision and each method of ApprovalStore is one step.  Between *)
(* check_idempotency and record_execution an executor does the rollback,   *)
(* beside others, and may die.  Time is counted in hours.                  *)
(***************************************************************************)
EXTENDS Naturals, Sequences

CONSTANTS
    RollbackProposals, \* [service, region, deployment] a model may propose
    Environments,      \* a subset of {"production", "staging"}
    Roster,            \* person -> [roles, trusted]: authenticated and of the tenant
    Proposer,          \* who runs the agent, perhaps a reviewer as well
    Executors,         \* processes that carry commands out
    MaxAge,            \* hours after which evidence is stale
    LastHour, LastVersion, MaxRollbacks   \* bounds

VARIABLES
    payloads,          \* what was put before reviewers
    decided,           \* what reviewers have said
    audit,             \* audit_events of decisions
    commands,          \* commands that were derived
    records,           \* idempotency_records: action -> status, "NONE" if absent
    executors,         \* what each executor is doing
    rolledBack,        \* the commands that were carried out, in order
    unsure,            \* actions two executors had at once, or whose executor died
    policy,            \* version of the policy
    evidence,          \* [version, observed] of the evidence
    now

reviewVars == <<payloads, decided, audit, commands>>
executionVars == <<records, executors, rolledBack, unsure>>
worldVars == <<policy, evidence, now>>
rollbackVars == <<reviewVars, executionVars, worldVars>>

People == DOMAIN Roster

(* -------------------------------- policy ------------------------------- *)

Risk(proposal, environment) ==
    IF environment = "staging" THEN "LOW"
    ELSE IF proposal.service # "checkout" THEN "MEDIUM"
    ELSE IF proposal.region = "global" THEN "CRITICAL" ELSE "HIGH"

Demand(roles, approvals, separation, ttl) ==
    [roles |-> roles, approvals |-> approvals, separation |-> separation, ttl |-> ttl]
Demands ==
    [LOW |-> Demand({"operator", "incident_commander", "sre_lead"}, 1, FALSE, 24),
     MEDIUM |-> Demand({"operator", "incident_commander"}, 1, TRUE, 2),
     HIGH |-> Demand({"incident_commander"}, 1, TRUE, 1),
     CRITICAL |-> Demand({"incident_commander", "sre_lead"}, 2, TRUE, 1)]

\* build_approval_payload
Payload(proposal, environment) ==
    LET risk == Risk(proposal, environment) IN
    [proposal |-> proposal, environment |-> environment, risk |-> risk,
     evidence |-> evidence, policy |-> policy,
     expires |-> now + Demands[risk].ttl]

\* What the payload rests on is still as it was, and recent.
Standing(payload) ==
    /\ payload.policy = policy
    /\ now <= payload.expires
    /\ payload.evidence.version = evidence.version
    /\ now <= evidence.observed + MaxAge

\* One decision binds a reviewer who may decide to exactly this payload.
Counts(decision, payload) ==
    /\ Roster[decision.by].trusted
    /\ decision.payload = payload
    /\ Roster[decision.by].roles \cap Demands[payload.risk].roles # {}

\* Wrong: as many approvals as demanded are enough, whoever gave them.
AnyApprovers(ds) == Proposer \notin {ds[i].by : i \in DOMAIN ds}

\* Nobody approves twice, nor what they proposed.
SeparateDuties(ds) ==
    /\ \A i, j \in DOMAIN ds : ds[i].by = ds[j].by => i = j
    /\ Proposer \notin {ds[i].by : i \in DOMAIN ds}

\* validate_approval
Validated(payload, ds) ==
    LET demand == Demands[payload.risk] IN
    /\ Standing(payload)
    /\ \A i \in DOMAIN ds : Counts(ds[i], payload)
    /\ Len(ds) >= demand.approvals
    /\ demand.separation => SeparateDuties(ds)
    /\ demand.approvals > 1 =>
          demand.roles \subseteq UNION {Roster[ds[i].by].roles : i \in DOMAIN ds}

(* -------------------------------- review ------------------------------- *)

RollbackInit ==
    /\ payloads = {} /\ decided = {} /\ audit = {} /\ commands = {}
    /\ records = [p \in RollbackProposals |-> "NONE"]
    /\ executors = [x \in Executors |-> [pc |-> "idle"]]
    /\ rolledBack = <<>> /\ unsure = {}
    /\ policy = 1 /\ evidence = [version |-> 1, observed |-> 0] /\ now = 0

Propose(proposal, environment) ==
    /\ payloads' = payloads \cup {Payload(proposal, environment)}
    /\ UNCHANGED <<decided, audit, commands, executionVars, worldVars>>

Answers == {"APPROVE", "REJECT", "MODIFY", "ESCALATE"}

RecordDecision(person, payload, says) ==
    /\ decided' = decided \cup {[by |-> person, payload |-> payload, says |-> says]}
    /\ UNCHANGED <<payloads, audit, commands, executionVars, worldVars>>

Said(ds, says) == \E i \in DOMAIN ds : ds[i].says = says

Verdict(payload, ds) ==
    IF Said(ds, "REJECT") THEN "REJECTED"
    ELSE IF Said(ds, "ESCALATE") THEN "ESCALATED"
    ELSE IF Said(ds, "MODIFY") THEN "MODIFIED"
    ELSE IF Validated(payload, ds) THEN "APPROVED" ELSE "AUTHORIZATION_DENIED"

Command(payload, ds) ==
    [proposal |-> payload.proposal, approval |-> payload,
     reviewers |-> {ds[i].by : i \in DOMAIN ds}]

\* process_decision: the caller hands it decisions in a list, two at most.
Process(payload, ds) ==
    /\ audit' = audit \cup {[payload |-> payload, event |-> Verdict(payload, ds)]}
    /\ commands' = IF Verdict(payload, ds) = "APPROVED"
                   THEN commands \cup {Command(payload, ds)} ELSE commands
    /\ UNCHANGED <<payloads, decided, executionVars, worldVars>>

Lists == {<<>>} \cup {<<d>> : d \in decided} \cup {<<d, e>> : d, e \in decided}

(* ------------------------------- execution ----------------------------- *)

\* The idempotency key: the action, whatever was approved and where.
Key(command) == command.proposal

Busy(x) == executors[x].pc # "idle"
On(x, action) == Busy(x) /\ Key(executors[x].command) = action

\* With these from check_idempotency an executor goes on: an executed action is
\* only replayed, and one whose outcome is unknown must be reconciled first.
Startable == {"NONE", "FAILED_BEFORE_COMMIT"}

Begin(x, command) ==
    /\ ~Busy(x) /\ records[Key(command)] \in Startable
    /\ executors' = [executors EXCEPT ![x] = [pc |-> "executing", command |-> command]]
    /\ unsure' = IF \E y \in Executors : On(y, Key(command))
                 THEN unsure \cup {Key(command)} ELSE unsure
    /\ UNCHANGED <<records, rolledBack, reviewVars, worldVars>>

Reaches(x, pc) == executors' = [executors EXCEPT ![x].pc = pc]

\* The rollback happens, and the executor may not hear of it.
CarryOut(x, heard) ==
    /\ executors[x].pc = "executing"
    /\ Len(rolledBack) < MaxRollbacks
    /\ rolledBack' = Append(rolledBack, executors[x].command)
    /\ Reaches(x, IF heard THEN "EXECUTED" ELSE "UNKNOWN_OUTCOME")
    /\ UNCHANGED <<records, unsure, reviewVars, worldVars>>

\* It does not happen, and the executor may not know.
FailToCarryOut(x, heard) ==
    /\ executors[x].pc = "executing"
    /\ Reaches(x, IF heard THEN "FAILED_BEFORE_COMMIT" ELSE "UNKNOWN_OUTCOME")
    /\ UNCHANGED <<records, rolledBack, unsure, reviewVars, worldVars>>

\* record_execution writes over whatever record there is.
RecordExecution(x) ==
    /\ executors[x].pc \notin {"idle", "executing"}
    /\ records' = [records EXCEPT ![Key(executors[x].command)] = executors[x].pc]
    /\ executors' = [executors EXCEPT ![x] = [pc |-> "idle"]]
    /\ UNCHANGED <<rolledBack, unsure, reviewVars, worldVars>>

Die(x) ==
    /\ Busy(x)
    /\ executors' = [executors EXCEPT ![x] = [pc |-> "idle"]]
    /\ unsure' = unsure \cup {Key(executors[x].command)}
    /\ UNCHANGED <<records, rolledBack, reviewVars, worldVars>>

(* ------------------------------ environment ---------------------------- *)

ChangePolicy ==
    /\ policy < LastVersion
    /\ policy' = policy + 1
    /\ UNCHANGED <<evidence, now, reviewVars, executionVars>>

\* The source is read again, and says the same or something new.
ReadEvidence(version) ==
    /\ version <= LastVersion
    /\ evidence' = [version |-> version, observed |-> now]
    /\ UNCHANGED <<policy, now, reviewVars, executionVars>>

HourGoesBy ==
    /\ now < LastHour
    /\ now' = now + 1
    /\ UNCHANGED <<policy, evidence, reviewVars, executionVars>>

RollbackNext ==
    \/ \E p \in RollbackProposals, e \in Environments : Propose(p, e)
    \/ \E person \in People, payload \in payloads, says \in Answers :
          RecordDecision(person, payload, says)
    \/ \E payload \in payloads, ds \in Lists : Process(payload, ds)
    \/ \E x \in Executors :
          \/ \E command \in commands : Begin(x, command)
          \/ \E heard \in BOOLEAN : CarryOut(x, heard) \/ FailToCarryOut(x, heard)
          \/ RecordExecution(x) \/ Die(x)
    \/ ChangePolicy \/ HourGoesBy
    \/ \E version \in {evidence.version, evidence.version + 1} : ReadEvidence(version)

RollbackSpec == RollbackInit /\ [][RollbackNext]_rollbackVars

(* ------------------------------ correctness ---------------------------- *)

\* Every rollback that was carried out is the one that was approved, by as
\* many different people as its risk demands, each entitled and on record,
\* none of them its proposer where duties are separate, and between them in
\* all the roles of a critical one (process_decision, validate_approval).
RollbacksAreApproved ==
    \A i \in DOMAIN rolledBack :
       LET command == rolledBack[i]
           payload == command.approval
           demand == Demands[payload.risk] IN
       /\ command.proposal = payload.proposal
       /\ \A r \in command.reviewers :
             /\ [by |-> r, payload |-> payload, says |-> "APPROVE"] \in decided
             /\ Roster[r].trusted /\ Roster[r].roles \cap demand.roles # {}
       /\ \E r \in command.reviewers : TRUE
       /\ demand.separation => Proposer \notin command.reviewers
       /\ demand.approvals > 1 =>
             /\ \E r, s \in command.reviewers : r # s
             /\ demand.roles \subseteq UNION {Roster[r].roles : r \in command.reviewers}

\* As long as the executors of an action take turns and none dies on it, it is
\* carried out once at most, and its record tells whether it was
\* (check_idempotency, record_execution).
RecordsTellTheTruth ==
    \A p \in RollbackProposals \ unsure :
       /\ \A i, j \in DOMAIN rolledBack :
             Key(rolledBack[i]) = p /\ Key(rolledBack[j]) = p => i = j
       /\ (\E i \in DOMAIN rolledBack : Key(rolledBack[i]) = p) =>
             \/ records[p] \in {"EXECUTED", "UNKNOWN_OUTCOME"}
             \/ \E x \in Executors : On(x, p) /\ executors[x].pc \in {"EXECUTED", "UNKNOWN_OUTCOME"}
       /\ records[p] = "EXECUTED" => \E i \in DOMAIN rolledBack : Key(rolledBack[i]) = p

\* A rollback is approved as its risk demands, and is carried out once.
RollbacksKeepTheirPromise == RollbacksAreApproved /\ RecordsTellTheTruth
=============================================================================
