---------------------------- MODULE PlanExecutor ----------------------------
(***************************************************************************)
(* The plan executor of intermediate/08 (run_research_plan): tasks of a    *)
(* validated dependency graph run in batches of ready tasks; a failure is  *)
(* retried, answered by a patch of the plan, or ends the run.              *)
(*                                                                         *)
(* Artifacts keep what the checkpoint looks at: an open or a settled       *)
(* conflict, and whether official documentation is among the evidence.     *)
(* The deadline is left out: a valid plan fits it with its timeouts, which *)
(* no fixture exceeds.  So are the stops at the cost of an answer and at   *)
(* the limit of 50 iterations: PlansFitTheirBudgets shows that no run      *)
(* comes there.                                                            *)
(***************************************************************************)
EXTENDS Naturals, FiniteSets, Sequences

CONSTANTS
    GoalContracts,  \* [attempts, perTask, replans, cost]: limits of a GoalContract
    RunOptions      \* [conflict, missing, timeout, invalid, gated, approvals]

\* The limits of a GoalContract are numbers.
ASSUME PlannerAssumption ==
    \A g \in GoalContracts : g.attempts \in Nat /\ g.perTask \in Nat /\ g.cost \in Nat

VARIABLES
    goal,           \* the contract of this run
    fixture,        \* its options
    plan,           \* task -> [deps, tries]
    version,
    taskStates,     \* task -> [status, attempt]
    outputs,        \* artifacts, in the order they were produced
    checkpoint,     \* status of the last CheckpointResult
    batch,          \* the ready tasks of this iteration that are not dispatched yet
    running,        \* the task that is dispatched
    replans, started, spent, rounds,
    outcome         \* terminal_status

plannerVars ==
    <<goal, fixture, plan, version, taskStates, outputs, checkpoint, batch, running,
      replans, started, spent, rounds, outcome>>

\* Tasks by name, as sorted() puts them.
TaskNames ==
    <<"compare-routes", "quality-checkpoint", "read-adaptive-rag-primary",
      "read-implementation-guidance", "read-missing-evidence", "read-rag-foundation",
      "read-replacement-guidance", "reconcile-conflicting-evidence", "synthesize-report">>
NoTask == "none"
Check == "quality-checkpoint"
Reconciliation == "reconcile-conflicting-evidence"

Node(deps, tries) == [deps |-> deps, tries |-> tries]

\* build_initial_plan
InitialPlan ==
    LET sources == {"read-adaptive-rag-primary", "read-rag-foundation", "read-implementation-guidance"} IN
    [t \in sources \cup {"compare-routes", Check, "synthesize-report"} |->
        CASE t = "read-adaptive-rag-primary" -> Node({}, 2)
          [] t = "compare-routes" -> Node(sources, 1)
          [] t = Check -> Node({"compare-routes"}, 1)
          [] t = "synthesize-report" -> Node({Check}, 1)
          [] OTHER -> Node({}, 1)]

(* ------------------------------ plan patches --------------------------- *)

\* [remove, add, cut, tie]; an edge is <<prerequisite, dependent>>.
SourceReplacement ==
    [remove |-> {}, add |-> [t \in {"read-replacement-guidance"} |-> Node({}, 1)],
     cut |-> {<<"read-implementation-guidance", "compare-routes">>},
     tie |-> {<<"read-replacement-guidance", "compare-routes">>}]
ConflictReconciliation ==
    [remove |-> {Check},
     add |-> [t \in {Reconciliation, Check} |->
                IF t = Check THEN Node({Reconciliation}, 2) ELSE Node({"compare-routes"}, 1)],
     cut |-> {}, tie |-> {}]
MissingEvidence ==
    [remove |-> {Check},
     add |-> [t \in {"read-missing-evidence", Check} |->
                IF t = Check THEN Node({"compare-routes", "read-missing-evidence"}, 2)
                ELSE Node({}, 1)],
     cut |-> {}, tie |-> {}]

\* validate_dag: Kahn's algorithm, layer by layer.
Acyclic(p) ==
    LET n == Cardinality(DOMAIN p)
        sorted[i \in 0 .. n] ==
            IF i = 0 THEN {}
            ELSE LET before == sorted[i - 1] IN {t \in DOMAIN p : p[t].deps \subseteq before}
    IN sorted[n] = DOMAIN p

\* Every attempt of every task is estimated at 4 (in units of 0.005 dollars).
Estimate == 4
Tries(p, t) == IF t \in DOMAIN p THEN p[t].tries ELSE 0
PlannedAttempts(p) ==
    LET first[n \in 0 .. Len(TaskNames)] ==
            IF n = 0 THEN 0 ELSE first[n - 1] + Tries(p, TaskNames[n])
    IN first[Len(TaskNames)]

\* validate_plan
ValidPlan(p) ==
    /\ \A t \in DOMAIN p : p[t].deps \subseteq DOMAIN p /\ p[t].tries <= goal.perTask
    /\ Acyclic(p)
    /\ PlannedAttempts(p) <= goal.attempts
    /\ Estimate * PlannedAttempts(p) <= goal.cost

\* apply_plan_patch
Fits(patch) ==
    LET kept == DOMAIN plan \ patch.remove IN
    /\ DOMAIN patch.add \cap kept = {}
    /\ \A e \in patch.cut : e[1] \in plan[e[2]].deps
Patched(patch) ==
    LET kept == DOMAIN plan \ patch.remove
        node(t) == IF t \in kept THEN plan[t] ELSE patch.add[t]
    IN [t \in kept \cup DOMAIN patch.add |->
          [node(t) EXCEPT !.deps = (@ \ {e[1] : e \in {f \in patch.cut : f[2] = t}})
                                   \cup {e[1] : e \in {f \in patch.tie : f[2] = t}}]]
Applicable(patch) ==
    /\ replans < goal.replans
    /\ Fits(patch) /\ ValidPlan(Patched(patch))

(* -------------------------------- the loop ----------------------------- *)

PlannerInit ==
    /\ goal \in GoalContracts
    /\ fixture \in RunOptions
    /\ plan = InitialPlan /\ ValidPlan(plan)
    /\ version = 1
    /\ taskStates = [t \in DOMAIN plan |-> [status |-> "PENDING", attempt |-> 0]]
    /\ outputs = << >>
    /\ checkpoint = "NONE"
    /\ batch = {}
    /\ running = NoTask
    /\ replans = 0 /\ started = 0 /\ spent = 0 /\ rounds = 0
    /\ outcome = "RUNNING"

StatusIs(t, statuses) == taskStates[t].status \in statuses

\* get_ready_tasks; the first of them by name is dispatched first.
ReadyTasks ==
    {t \in DOMAIN plan : /\ StatusIs(t, {"PENDING"})
                         /\ \A d \in plan[t].deps : StatusIs(d, {"SUCCEEDED"})}
FirstByName(tasks) ==
    TaskNames[CHOOSE i \in DOMAIN TaskNames :
                /\ TaskNames[i] \in tasks
                /\ \A j \in DOMAIN TaskNames : TaskNames[j] \in tasks => i <= j]

\* get_blocked_tasks: the pending tasks behind a failed or blocked one.
BlockedTasks ==
    LET pending == {t \in DOMAIN plan : StatusIs(t, {"PENDING"})}
        dead == {t \in DOMAIN taskStates : StatusIs(t, {"FAILED", "BLOCKED"})}
        Holding(S) == \A t \in pending : plan[t].deps \cap (dead \cup S) # {} => t \in S
    IN {t \in pending : \A S \in SUBSET pending : Holding(S) => t \in S}

\* The produced artifacts, by task.
OutputOf(t) == outputs[CHOOSE i \in DOMAIN outputs : outputs[i].task = t]
Produced == {outputs[i].task : i \in DOMAIN outputs}

Stop(status) == outcome' = status

BetweenTasks == outcome = "RUNNING" /\ running = NoTask

StartBatch ==
    /\ BetweenTasks /\ batch = {}
    /\ ReadyTasks # {}
    /\ batch' = ReadyTasks
    /\ rounds' = rounds + 1
    /\ UNCHANGED <<goal, fixture, plan, version, taskStates, outputs, checkpoint, running,
                   replans, started, spent, outcome>>

\* evaluate_run_status
Completed(states) ==
    /\ checkpoint = "PASS"
    /\ \A t \in DOMAIN states : states[t].status \in {"SUCCEEDED", "FAILED"}
    /\ "synthesize-report" \in Produced
    /\ OutputOf("synthesize-report").docs

NothingReady ==
    /\ BetweenTasks /\ batch = {}
    /\ ReadyTasks = {}
    /\ taskStates' = [t \in DOMAIN taskStates |->
                        IF t \in BlockedTasks THEN [taskStates[t] EXCEPT !.status = "BLOCKED"]
                        ELSE taskStates[t]]
    /\ Stop(IF Completed(taskStates') THEN "COMPLETED" ELSE "BLOCKED")
    /\ UNCHANGED <<goal, fixture, plan, version, outputs, checkpoint, batch, running,
                   replans, started, spent, rounds>>

(* ------------------------------- dispatch ------------------------------ *)

\* can_attempt
MayTry(t, attempt) == attempt < plan[t].tries /\ attempt < goal.perTask

\* validate_execution_approval: an approval names a task and a plan version.
ApprovedTask(t) == t \in fixture.gated => <<t, version>> \in fixture.approvals

OverBudget(t) ==
    \/ started >= goal.attempts
    \/ ~MayTry(t, taskStates[t].attempt)
    \/ spent + Estimate > goal.cost

RefuseTask ==
    /\ BetweenTasks /\ batch # {}
    /\ LET t == FirstByName(batch) IN
       \/ /\ OverBudget(t)
          /\ taskStates' = [taskStates EXCEPT ![t].status = "READY"]
          /\ Stop("BUDGET_EXHAUSTED")
       \/ /\ ~OverBudget(t) /\ ~ApprovedTask(t)
          /\ taskStates' = [taskStates EXCEPT ![t].status = "BLOCKED"]
          /\ Stop("ESCALATED")
    /\ UNCHANGED <<goal, fixture, plan, version, outputs, checkpoint, batch, running,
                   replans, started, spent, rounds>>

\* The dependencies have succeeded, so validate_task_inputs finds their artifacts.
StartTask ==
    /\ BetweenTasks /\ batch # {}
    /\ LET t == FirstByName(batch) IN
       /\ ~OverBudget(t) /\ ApprovedTask(t)
       /\ running' = t /\ batch' = batch \ {t}
       /\ taskStates' = [taskStates EXCEPT ![t].status = "RUNNING", ![t].attempt = @ + 1]
    /\ started' = started + 1
    /\ UNCHANGED <<goal, fixture, plan, version, outputs, checkpoint, replans, spent, rounds, outcome>>

(* -------------------------- DeterministicExecutor ---------------------- *)

Artifact(t, mark, docs) == [task |-> t, version |-> version, mark |-> mark, docs |-> docs]

\* evidence the direct inputs, or all artifacts, carry
InputDocs(t) == \E d \in plan[t].deps : OutputOf(d).docs
AnyDocs == \E i \in DOMAIN outputs : outputs[i].docs

ArtifactOf(t) ==
    CASE t \in {"read-replacement-guidance"} -> Artifact(t, "PLAIN", ~fixture.missing)
      [] t = "read-missing-evidence" -> Artifact(t, "PLAIN", TRUE)
      [] t = "compare-routes" ->
            Artifact(t, IF fixture.conflict THEN "CONFLICT" ELSE "PLAIN", InputDocs(t))
      [] t = Reconciliation -> Artifact(t, "RESOLVED", InputDocs(t))
      [] t \in {Check, "synthesize-report"} -> Artifact(t, "PLAIN", AnyDocs)
      [] OTHER -> Artifact(t, "PLAIN", FALSE)

\* evaluate_checkpoint
Marked(mark) == \E d \in plan[Check].deps : OutputOf(d).mark = mark
\* Wrong: a conflict is not looked for.
EvidenceStatus == IF ~AnyDocs THEN "MISSING_EVIDENCE" ELSE "PASS"
CheckpointStatus ==
    IF Marked("CONFLICT") /\ ~Marked("RESOLVED") THEN "CONFLICT"
    ELSE IF ~AnyDocs THEN "MISSING_EVIDENCE" ELSE "PASS"

\* What the fixture answers: the injected failures come once, in this order.
FirstTry(t) == taskStates[t].attempt = 1
Answer ==
    LET t == running
        second == fixture.timeout = t IN
    IF fixture.timeout = t /\ FirstTry(t) THEN "TIMEOUT"
    ELSE IF fixture.invalid = t /\ taskStates[t].attempt = (IF second THEN 2 ELSE 1) THEN "INVALID_OUTPUT"
    ELSE IF t = "read-implementation-guidance" THEN "SOURCE_UNAVAILABLE"
    ELSE IF t = Check THEN CheckpointStatus ELSE "OK"

\* cost_usd of the answers, in the unit of Estimate
Cost(t, answer) ==
    IF answer \in {"TIMEOUT", "INVALID_OUTPUT", "SOURCE_UNAVAILABLE"} THEN 1
    ELSE CASE t = Check -> 2
           [] t = "compare-routes" -> 6
           [] t = "synthesize-report" -> 8
           [] OTHER -> 4

\* The answer arrives and is paid for.
Paid == spent' = spent + Cost(running, Answer)

Answering == running # NoTask /\ outcome = "RUNNING"

\* _record_success
Succeed ==
    /\ Answering /\ Answer \in {"OK", "PASS"}
    /\ Paid
    /\ taskStates' = [taskStates EXCEPT ![running].status = "SUCCEEDED"]
    /\ outputs' = Append(outputs, ArtifactOf(running))
    /\ checkpoint' = IF running = Check THEN "PASS" ELSE checkpoint
    /\ running' = NoTask
    /\ UNCHANGED <<goal, fixture, plan, version, batch, replans, started, rounds, outcome>>

Transient == {"TIMEOUT", "INVALID_OUTPUT"}

\* failure_action: bounded retry or repair
RetryTask ==
    /\ Answering /\ Answer \in Transient /\ MayTry(running, taskStates[running].attempt)
    /\ Paid
    /\ taskStates' = [taskStates EXCEPT ![running].status = "PENDING"]
    /\ running' = NoTask
    /\ UNCHANGED <<goal, fixture, plan, version, outputs, checkpoint, batch,
                   replans, started, rounds, outcome>>

GiveUp ==
    /\ Answering /\ Answer \in Transient /\ ~MayTry(running, taskStates[running].attempt)
    /\ Paid
    /\ taskStates' = [taskStates EXCEPT ![running].status = "FAILED"]
    /\ Stop("ESCALATED")
    /\ UNCHANGED <<goal, fixture, plan, version, outputs, checkpoint, batch, running,
                   replans, started, rounds>>

\* REPLAN and RECONCILE; the rest of the batch is dropped.
PatchFor(answer) ==
    CASE answer = "SOURCE_UNAVAILABLE" -> SourceReplacement
      [] answer = "MISSING_EVIDENCE" -> MissingEvidence
      [] answer = "CONFLICT" -> ConflictReconciliation
Replanning == {"SOURCE_UNAVAILABLE", "MISSING_EVIDENCE", "CONFLICT"}

\* The task has failed; of a checkpoint the result is kept.
FailedStates == [taskStates EXCEPT ![running].status = "FAILED"]
KeepCheckpoint == checkpoint' = IF running = Check THEN Answer ELSE checkpoint

Replan ==
    /\ Answering /\ Answer \in Replanning
    /\ LET patch == PatchFor(Answer) IN
       /\ Applicable(patch)
       /\ plan' = Patched(patch)
       /\ taskStates' = [t \in DOMAIN taskStates \cup DOMAIN patch.add |->
                            IF t \notin DOMAIN taskStates THEN [status |-> "PENDING", attempt |-> 0]
                            ELSE IF t = Check /\ running = Check
                                 THEN [taskStates[t] EXCEPT !.status = "PENDING"]
                            ELSE FailedStates[t]]
    /\ Paid /\ KeepCheckpoint
    /\ version' = version + 1 /\ replans' = replans + 1
    /\ running' = NoTask /\ batch' = {}
    /\ UNCHANGED <<goal, fixture, outputs, started, rounds, outcome>>

CannotReplan ==
    /\ Answering /\ Answer \in Replanning /\ ~Applicable(PatchFor(Answer))
    /\ Paid /\ KeepCheckpoint
    /\ taskStates' = FailedStates
    /\ Stop("ESCALATED")
    /\ UNCHANGED <<goal, fixture, plan, version, outputs, batch, running, replans, started, rounds>>

PlannerNext ==
    \/ StartBatch \/ NothingReady
    \/ RefuseTask \/ StartTask
    \/ Succeed \/ RetryTask \/ GiveUp \/ Replan \/ CannotReplan

PlannerSpec == PlannerInit /\ [][PlannerNext]_plannerVars

(* ------------------------------- properties ---------------------------- *)

PlannerTypeOK ==
    /\ DOMAIN plan \subseteq DOMAIN taskStates
    /\ \A t \in DOMAIN taskStates :
         /\ taskStates[t].status \in {"PENDING", "READY", "RUNNING", "SUCCEEDED", "FAILED", "BLOCKED"}
         /\ taskStates[t].attempt \in 0 .. 2
    /\ checkpoint \in {"NONE", "PASS", "CONFLICT", "MISSING_EVIDENCE"}
    /\ running \in DOMAIN plan \cup {NoTask}
    /\ outcome \in {"RUNNING", "COMPLETED", "BLOCKED", "BUDGET_EXHAUSTED", "ESCALATED"}

\* The place of a task's artifact among the outputs.
Place(t) == CHOOSE i \in DOMAIN outputs : outputs[i].task = t

\* A run is completed only if the checkpoint passed in the last plan and after
\* everything but the report, each of whose prerequisites succeeded; a
\* conflict was reconciled before, and the evidence is complete
\* (evaluate_run_status; README.md, "Stop rule").
CompletedMeansChecked ==
    outcome = "COMPLETED" =>
        /\ {Check, "synthesize-report"} \subseteq Produced
        /\ Place("synthesize-report") = Len(outputs) /\ Place(Check) = Len(outputs) - 1
        /\ OutputOf(Check).version = version
        /\ \A t \in Produced : \A d \in plan[t].deps : d \in Produced /\ Place(d) < Place(t)
        /\ (\E t \in Produced : OutputOf(t).mark = "CONFLICT") =>
             \E t \in plan[Check].deps : t \in Produced /\ OutputOf(t).mark = "RESOLVED"
        /\ OutputOf(Check).docs

\* Replanning keeps finished work: what has produced its artifact is in every
\* later plan, has succeeded and stays so, and is never started again
\* (README.md, "preserves unaffected state").
FinishedWorkStays ==
    /\ \A i, j \in DOMAIN outputs : outputs[i].task = outputs[j].task => i = j
    /\ \A t \in Produced : t \in DOMAIN plan /\ taskStates[t].status = "SUCCEEDED"
    /\ running \notin Produced

\* A plan that was validated, patched or not, never runs over what it was
\* validated for: every answer can be paid, the attempts suffice and the
\* iterations too.  Only a task that has used its own attempts ends a run
\* with an exhausted budget (validate_plan beside run_research_plan).
PlansFitTheirBudgets ==
    /\ running # NoTask /\ outcome = "RUNNING" => spent + Cost(running, Answer) <= goal.cost
    /\ started <= goal.attempts /\ rounds < 50
    /\ outcome = "BUDGET_EXHAUSTED" =>
         \E t \in DOMAIN plan : StatusIs(t, {"READY"}) /\ taskStates[t].attempt = plan[t].tries

\* Finished work is kept, a run is completed by it alone, and within what its
\* plans were validated for.
ResultsAreEarned == FinishedWorkStays /\ CompletedMeansChecked /\ PlansFitTheirBudgets
=============================================================================
