------------------------------ MODULE MCStores ------------------------------
(***************************************************************************)
(* Small instances of the labs that keep a store of their own: checkpoints *)
(* (intermediate/10), memories (advanced/06), skills (advanced/14), the     *)
(* approvals and executions of rollbacks (intermediate/03), the flow of    *)
(* the crews (advanced/03), and the requests and password resets of the    *)
(* control plane (advanced/04).                                            *)
(* They share nothing; the first state says which one runs.                *)
(***************************************************************************)
EXTENDS CheckpointRuntime, AgentMemory, SkillRuntime, ApprovedRollback, CrewFlow,
        HybridPlane, PasswordReset, TLC

\* The processes of whichever lab runs.
CONSTANTS p1, p2

VARIABLE lab

Init ==
    /\ lab \in {"checkpoints", "memories", "skills", "rollbacks", "crews", "plane", "resets"}
    /\ CkptInit /\ MemoryInit /\ SkillInit /\ RollbackInit /\ CrewInit
    /\ HybridInit /\ ResetInit
    /\ lab # "checkpoints" => rows = CHOOSE h \in Histories : TRUE
    /\ lab # "plane" => text = {"rollback"} /\ context = CHOOSE c \in Contexts(1) : TRUE

CheckpointLab ==
    /\ lab = "checkpoints"
    /\ CkptNext
    /\ UNCHANGED <<lab, memoryVars, skillVars, rollbackVars, crewVars, hybridVars, resetVars>>
MemoryLab ==
    /\ lab = "memories"
    /\ MemoryNext
    /\ UNCHANGED <<lab, ckptVars, skillVars, rollbackVars, crewVars, hybridVars, resetVars>>
SkillLab ==
    /\ lab = "skills"
    /\ SkillNext
    /\ UNCHANGED <<lab, ckptVars, memoryVars, rollbackVars, crewVars, hybridVars, resetVars>>

RollbackLab ==
    /\ lab = "rollbacks"
    /\ RollbackNext
    /\ UNCHANGED <<lab, ckptVars, memoryVars, skillVars, crewVars, hybridVars, resetVars>>

CrewLab ==
    /\ lab = "crews"
    /\ CrewNext
    /\ UNCHANGED <<lab, ckptVars, memoryVars, skillVars, rollbackVars, hybridVars, resetVars>>

PlaneLab ==
    /\ lab = "plane"
    /\ HybridNext
    /\ UNCHANGED <<lab, ckptVars, memoryVars, skillVars, rollbackVars, crewVars, resetVars>>

ResetLab ==
    /\ lab = "resets"
    /\ ResetNext
    /\ UNCHANGED <<lab, ckptVars, memoryVars, skillVars, rollbackVars, crewVars, hybridVars>>

Next ==
    CheckpointLab \/ MemoryLab \/ SkillLab \/ RollbackLab \/ CrewLab \/ PlaneLab \/ ResetLab

vars == <<lab, ckptVars, memoryVars, skillVars, rollbackVars, crewVars, hybridVars, resetVars>>
Spec == Init /\ [][Next]_vars

StoreSymmetry == Permutations({p1, p2})

(* ----------------------------- checkpoints ----------------------------- *)

\* Before the runtimes come: an investigation whose proposal waits for a
\* reviewer.  A runtime may also start from nothing.
Kept(n) ==
    [id |-> n, thread |-> "incident", seq |-> n, parent |-> n - 1, expires |-> Retention,
     state |-> [FirstState EXCEPT !.last = n]]
Having(n, nodes) ==
    [Kept(n) EXCEPT !.state.done = nodes, !.state.evidence = nodes \cap Reads,
                     !.state.calls = Cardinality(nodes \cap Reads),
                     !.state.budget = ToolBudget - Cardinality(nodes \cap Reads)]
Concluded(n, nodes) ==
    [Having(n, nodes) EXCEPT !.state.hypothesis = TRUE, !.state.confidence = 2]
Investigated ==
    {Kept(1), Having(2, {"read-logs"}), Having(3, Reads),
     Concluded(4, Reads \cup {"form-hypothesis"})}
Proposed == [target |-> TheTarget, operation |-> TheTarget, made |-> 0, expires |-> 1]
Interrupted ==
    Investigated \cup
      {[Concluded(5, Reads \cup {"form-hypothesis", "prepare-proposal"})
        EXCEPT !.state.proposal = Proposed, !.state.status = "INTERRUPTED"]}
\* One that has met a timeout and a monitor that contradicts the deployment.
Strained ==
    LET failed == [FirstState EXCEPT !.calls = 1, !.budget = ToolBudget - 1, !.retries = 0] IN
    {Kept(1), [Kept(2) EXCEPT !.state = [failed EXCEPT !.last = 2]],
     [Kept(3) EXCEPT !.state = [failed EXCEPT !.last = 3, !.evidence = {"cache-monitor"}]]}
MCHistories == {Interrupted, Strained}

\* What may disturb a run, counted, so that a run meets two of them.
InMemory == {p \in Runtimes : runtime[p] # NoRuntime}
Held == {runtime[p].state : p \in InMemory} \cup {r.state : r \in rows}
CkptDisturbances ==
    LET states == Held IN
    Cardinality({r \in rows : r.thread = "fork" \/ (r.parent = 0 /\ r.id > 1)})
    + Cardinality(tombstones) + (inserted - Cardinality(rows)) + Least(clock, 1)
    + Cardinality({p \in InMemory : runtime[p].seq = 0
                                    /\ \A r \in rows : r.state # runtime[p].state})
    + Cardinality({s \in {"CANCELLED"} : \E x \in states : x.status = s})
    + Cardinality({b \in {TRUE} : \E x \in states : "cache-monitor" \in x.evidence})
    + Cardinality({b \in {TRUE} : \E x \in states : x.twice})
    + Cardinality({b \in {TRUE} : \E x \in states : x.retries < RetryBudget})
    + Cardinality(InMemory)
    + Cardinality({d \in decisions : ~d.approves})

(* ------------------------------- memories ------------------------------ *)

MCSources == [chat |-> "USER_STATEMENT", review |-> "HUMAN_REVIEW",
              account |-> "ACCOUNT_API", iam |-> "IAM_API"]
Says(id, key, value, source, verified) ==
    [id |-> id, key |-> key, value |-> value, sources |-> {source}, label |-> "EXPLICIT",
     verified |-> verified]
Basic == Says("c1", "account_tier", "basic", "chat", TRUE)
BasicAgain == Says("c2", "account_tier", "basic", "account", TRUE)
Pro == Says("c3", "account_tier", "pro", "account", TRUE)
Traced == Says("c4", "incident_trace", "deployment", "review", TRUE)
MCCandidates == {Basic, BasicAgain, Pro, Traced}
MCJobs == [j1 |-> <<Basic, Traced>>, j2 |-> <<Pro, BasicAgain>>]

MemoryDisturbances ==
    Cardinality(deletion) + Cardinality({m \in memories : Quarantined(m)})
    + Cardinality(graves) + period + Cardinality(Sources \ active)

(* -------------------------------- skills ------------------------------- *)

SkillEntry(required, optional, deps, readOnly) ==
    [required |-> required, optional |-> optional, delegable |-> {}, deps |-> deps,
     readOnly |-> readOnly, high |-> FALSE]
\* The incident skill may only read; the review it depends on would like to do more.
MCCatalog == [incident |-> SkillEntry({"metrics"}, {"logs"}, {"review"}, TRUE),
              review |-> SkillEntry({"metrics"}, {"admin"}, {}, FALSE)]
MCRequests == [r1 |-> TRUE]
MCBudget == [activations |-> 3, tools |-> 4, models |-> 1]

Withdrawn ==
    Cardinality(Permissions \ granted) + Cardinality(Capabilities \ allowed)
    + Cardinality(Capabilities \ healthy)
    + Cardinality({s \in Skills :
         lifecycle[s] # "ACTIVE" \/ published[s] # Pinned
         \/ ~Unchanged(s) \/ ~Approved(s)})

(* ------------------------------ rollbacks ------------------------------ *)

Deployed(service) == [service |-> service, region |-> "global", deployment |-> "d1"]
MCProposals == {Deployed("checkout"), Deployed("auth")}
Person(roles, trusted) == [roles |-> roles, trusted |-> trusted]
MCRoster == [ann |-> Person({"incident_commander", "sre_lead"}, TRUE),
             cia |-> Person({"sre_lead"}, TRUE),
             bob |-> Person({"operator", "sre_lead"}, TRUE),
             dan |-> Person({"incident_commander"}, FALSE)]

RollbackOddities ==
    policy - 1 + Least(now, 1) + evidence.version - 1 + Cardinality(unsure)
    + Cardinality({d \in decided : d.says # "APPROVE" \/ d.by \in {"bob", "dan"}})

(* -------------------------------- crews -------------------------------- *)

MCCrewBudget ==
    [tasks |-> 4, calls |-> 4, attempts |-> 2, cost |-> 6, managers |-> 2, delegations |-> 2,
     replans |-> 1, depth |-> 1]
Idea(gap, lawful, depth) == [gap |-> gap, lawful |-> lawful, depth |-> depth, cost |-> 1]
MCIdeas == {Idea("deployment", TRUE, 1), Idea("deployment", FALSE, 1), Idea("logs", TRUE, 2)}

\* What a run meets beside the work of its tasks, counted.  A run is a fixture's
\* or the framework's.
CrewOddities ==
    flow.managers + Cardinality({b \in {TRUE} : kept # NoFlow})
    + Cardinality({b \in {TRUE} : flow.status # "RUNNING" \/ flow.pending})
    + Cardinality({t \in CrewTasks : flow.tasks[t] = "RUNNING"})
    + Cardinality({a \in flow.attempted : a[1] \notin flow.executed})
    + Cardinality({b \in {TRUE} : \E i \in DOMAIN flow.accepted :
                     flow.accepted[i].cites # FixtureEvidence(flow.accepted[i].task)})

(* ----------------------------- control plane --------------------------- *)

Diagnosing == {"checkout-health.read", "logs.read", "deployment.read", "runbook.read",
               "customer-impact.read"}
MCGrants == {Diagnosing, Diagnosing \cup {"production.rollback"},
             {"identity.otp.send", "identity.password.update"}}
MCTexts ==
    {{"rollback"}, {"rollback", "deploy-1842"}, {"rollback", "reset password"}, {"reset password"},
     {"proposal for security-review"}, {"across domains"}, {"why did conversion fall"},
     {"why did conversion fall", "need a team"}, {"checkout healthy"}}

\* What comes between the steps of a request, counted; a new policy counts with
\* the context that knows of it.
PlaneOddities ==
    (IF contexts > 1 THEN 1 ELSE deployed - 1) + Cardinality(receipts)
    + Cardinality({b \in {TRUE} : transition.current # "none"})
    + Cardinality({b \in {TRUE} : transition.cancelled})
    + Cardinality({b \in {TRUE} : transition.current # "none"
                                   /\ transition.original.intent # "INCIDENT_DIAGNOSIS"})
    + Cardinality({"customer-impact"} \cap transition.accepted)
PlaneStaysSmall ==
    /\ contexts = 1 => context.data = "INTERNAL" /\ context.deadline = 1000
    /\ context.data = "INTERNAL" \/ context.deadline = 1000
    /\ Cardinality(written) + Cardinality(successes) <= 1
    /\ receipts # {} => "deploy-1842" \in text
    /\ \A r \in receipts :
         Cardinality({b \in {1} : r.request = "other"}) + Cardinality({b \in {1} : ~r.live})
         + Cardinality({b \in {1} : r.approver = "stranger"}) <= 1
    /\ transition.current # "none" => "need a team" \in text
    /\ PlaneOddities <= IF text \cap {"deploy-1842", "need a team"} # {} THEN 2 ELSE 1

(* ------------------------------------------------------------------------ *)

FewDisturbances ==
    CASE lab = "checkpoints" -> Cardinality(decisions) <= 1
                             /\ \/ CkptDisturbances <= 2 /\ (inserted + CkptDisturbances <= 8 \/ InMemory = Runtimes \/ decisions # {})
                                \/ Strained \subseteq rows /\ inserted <= 5 /\ CkptDisturbances <= 3
      [] lab = "memories" -> 3 * MemoryDisturbances + 2 * Cardinality(memories) <= 8
      [] lab = "skills" -> Withdrawn <= 1 /\ Withdrawn + 2 * Cardinality(uses)
                                             + Cardinality(Roots) <= 3
      [] lab = "rollbacks" -> /\ Cardinality(payloads) <= 1 /\ Cardinality(commands) <= 1
                              /\ Cardinality(decided) <= 3 /\ RollbackOddities <= 1
                              /\ Cardinality(audit) <= 2
      [] lab = "crews" -> /\ CrewOddities <= 2
                          /\ flow.executed \in {{}, AcceptedTasks(flow)}
      [] lab = "plane" -> PlaneStaysSmall
      [] lab = "resets" -> Cardinality(answers) + Cardinality(changes) <= 2
=============================================================================
