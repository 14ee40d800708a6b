------------------------------ MODULE CrewFlow ------------------------------
(***************************************************************************)
(* The flow that controls the crews of advanced/03: the application starts *)
(* a crew for a task whose dependencies are accepted, admits what comes    *)
(* back as an artifact, answers a manager's proposals, and closes the run. *)
(*                                                                         *)
(* A fixture task is executed in one call (execute_fixture_task); a crew   *)
(* of the framework works between assert_crew_may_start and                *)
(* admit_crewai_output, while operators and managers go on.  The state may *)
(* be saved, and a run resumed from the file.  Of an artifact the model    *)
(* keeps what it cites and whether its facts support its claims.           *)
(***************************************************************************)
EXTENDS Naturals, FiniteSets, Sequences

CONSTANTS
    Leaves,        \* the tasks that collect evidence, each its own
    Fallback,      \* a second source for the evidence FallbackOf collects
    FallbackOf,
    CrewBudget,    \* what the flow may use of each kind
    Ideas,         \* what a manager may propose: [gap, lawful, depth, cost]
    NoFlow

ASSUME CrewAssumption ==
    CrewBudget \in [tasks : Nat, calls : Nat, attempts : Nat, cost : Nat, managers : Nat,
                    delegations : Nat, replans : Nat, depth : Nat]

VARIABLES
    flow,          \* the FlowState in memory
    kept,          \* the FlowState in the file
    crew           \* the task a crew is working on

crewVars == <<flow, kept, crew>>

Synthesis == "synthesize-incident"
CrewReview == "review-incident"
CrewTasks == Leaves \cup {Synthesis, CrewReview}

TaskStates == {"PENDING", "READY", "RUNNING", "SUCCEEDED", "FAILED", "BLOCKED", "RETRYABLE", "CANCELLED"}
CrewStatuses == {"RUNNING", "COMPLETED", "ESCALATED", "CANCELLED", "BLOCKED"}

\* build_tasks
Dependencies(t) ==
    CASE t = Synthesis -> Leaves [] t = CrewReview -> {Synthesis} [] OTHER -> {}
AttemptsOf(t) == IF t = CrewReview THEN 1 ELSE 2
CostOf(t) == IF t = Synthesis THEN 2 ELSE 1

\* The evidence a task is allowed to read, and what the fixture cites for it.
Readable(t) ==
    IF t \notin Leaves THEN Leaves \cup {Fallback}
    ELSE IF t = FallbackOf THEN {t, Fallback} ELSE {t}
FixtureEvidence(t) == IF t \in Leaves THEN {t} ELSE Leaves

AcceptedArtifacts == [task : CrewTasks, cites : SUBSET (Leaves \cup {Fallback})]
FlowStates ==
    [tasks : [CrewTasks -> TaskStates], accepted : Seq(AcceptedArtifacts), pending : BOOLEAN,
     status : CrewStatuses, calls : Nat, managers : Nat, delegations : Nat, cost : Nat,
     executed : SUBSET CrewTasks, attempted : SUBSET (CrewTasks \X Nat),
     signatures : SUBSET {idea.gap : idea \in Ideas}]

\* build_flow_state
FreshFlow ==
    [tasks |-> [t \in CrewTasks |-> "PENDING"], accepted |-> << >>, pending |-> FALSE,
     status |-> "RUNNING", calls |-> 0, managers |-> 0, delegations |-> 0, cost |-> 0,
     executed |-> {}, attempted |-> {}, signatures |-> {}]

CrewInit == flow = FreshFlow /\ kept = NoFlow /\ crew = "none"

Done(f) == {t \in CrewTasks : f.tasks[t] = "SUCCEEDED"}
AcceptedTasks(f) == {f.accepted[i].task : i \in DOMAIN f.accepted}

\* ready_task_ids; a resumed run also takes up what tasks_to_resume lists, in
\* the order of the tasks.
ReadyTaskIds(f) ==
    {t \in CrewTasks : f.tasks[t] \in {"PENDING", "READY"} /\ Dependencies(t) \subseteq Done(f)}
ToResume(f) == CrewTasks \ Done(f)
InTurn(f) == ReadyTaskIds(f) \cup {t \in ToResume(f) : Dependencies(t) \subseteq Done(f)}

\* assert_crew_may_start
MayStart(f) ==
    f.status = "RUNNING" /\ f.calls < CrewBudget.calls /\ f.cost < CrewBudget.cost

(* ------------------------------- artifacts ----------------------------- *)

\* validate_artifact, of an envelope the application has built itself
ValidArtifact(a) == a.cites \subseteq Readable(a.task) /\ a.supported

\* An artifact of a task takes the place of an earlier one.
Accept(f, a) ==
    LET old == {i \in DOMAIN f.accepted : f.accepted[i].task = a.task}
        new == [task |-> a.task, cites |-> a.cites] IN
    [f EXCEPT !.tasks[a.task] = "SUCCEEDED",
              !.accepted = IF old = {} THEN Append(@, new)
                           ELSE [i \in DOMAIN @ |-> IF i \in old THEN new ELSE @[i]]]

(* ------------------------------- execution ----------------------------- *)

\* register_execution; a caller's clock says whether the deadline still holds.
Registrable(f, t, n, inTime) ==
    /\ f.status # "CANCELLED"
    /\ <<t, n>> \notin f.attempted /\ t \notin f.executed
    /\ Cardinality(f.executed) < CrewBudget.tasks
    /\ f.calls < CrewBudget.calls
    /\ n <= AttemptsOf(t) /\ n <= CrewBudget.attempts
    /\ f.cost + CostOf(t) <= CrewBudget.cost
    /\ inTime
Register(f, t, n, status) ==
    [f EXCEPT !.attempted = @ \cup {<<t, n>>}, !.calls = @ + 1, !.cost = @ + CostOf(t),
              !.executed = IF status = "SUCCEEDED" THEN @ \cup {t} ELSE @]

\* execute_fixture_task leaves a task RUNNING that cannot be registered.
ExecuteFixtureTask(t, n, inTime) ==
    LET started == [flow EXCEPT !.tasks[t] = "RUNNING"]
        fixture == [task |-> t, cites |-> FixtureEvidence(t), supported |-> TRUE] IN
    /\ crew = "none" /\ t \in InTurn(flow) /\ MayStart(flow)
    /\ flow' = IF ~Registrable(flow, t, n, inTime) THEN started
               ELSE Accept(Register(started, t, n, "SUCCEEDED"), fixture)
    /\ UNCHANGED <<kept, crew>>

\* An attempt that timed out, or brought nothing valid, is registered as well.
RegisterFailure(t, n) ==
    /\ Registrable(flow, t, n, TRUE)
    /\ flow' = Register(flow, t, n, "RETRYABLE")
    /\ UNCHANGED <<kept, crew>>

\* run_live_sequential_if_configured, up to the kickoff and after it.
Kickoff(t) ==
    /\ crew = "none" /\ t \in InTurn(flow) /\ MayStart(flow)
    /\ crew' = t
    /\ UNCHANGED <<flow, kept>>

\* admit_crewai_output asks neither whether the run is still active nor for
\* the worker budget.
AdmitCrewOutput(cites, supported) ==
    LET a == [task |-> crew, cites |-> cites, supported |-> supported] IN
    /\ crew # "none"
    /\ flow' = IF ValidArtifact(a) THEN Accept(flow, a) ELSE flow
    /\ crew' = "none"
    /\ UNCHANGED kept

(* ------------------------------- delegation ---------------------------- *)

\* validate_manager_decision counts the call, then the proposal if it passes.
Admissible(f, idea) ==
    /\ idea.lawful /\ idea.depth <= CrewBudget.depth
    /\ idea.gap \notin f.signatures
    /\ f.delegations < CrewBudget.delegations /\ f.delegations < CrewBudget.replans
    /\ f.cost + idea.cost <= CrewBudget.cost
Delegate(idea) ==
    LET called == [flow EXCEPT !.managers = @ + 1] IN
    /\ flow.status # "CANCELLED" /\ flow.managers < CrewBudget.managers
    /\ flow' = IF Admissible(flow, idea)
               THEN [called EXCEPT !.delegations = @ + 1, !.signatures = @ \cup {idea.gap}]
               ELSE called
    /\ UNCHANGED <<kept, crew>>

(* --------------------------------- events ------------------------------ *)

\* Wrong: a citation per task is taken for the evidence that was required.
CompletedByTasks(f) ==
    /\ CrewTasks \subseteq AcceptedTasks(f)
    /\ \A t \in CrewTasks : f.tasks[t] \notin {"FAILED", "BLOCKED", "RETRYABLE"}
    /\ ~f.pending

\* validate_completion; build_artifact has made every review one that passes.
ValidCompletion(f) ==
    /\ CrewTasks \subseteq AcceptedTasks(f)
    /\ Leaves \subseteq UNION {f.accepted[i].cites : i \in DOMAIN f.accepted}
    /\ \A t \in CrewTasks : f.tasks[t] \notin {"FAILED", "BLOCKED", "RETRYABLE"}
    /\ ~f.pending

CancelFlow(f) ==
    [f EXCEPT !.status = "CANCELLED",
              !.tasks = [t \in CrewTasks |-> IF @[t] \in {"SUCCEEDED", "FAILED"} THEN @[t]
                                              ELSE "CANCELLED"]]

\* apply_flow_event: closed runs take no event.
CancelRun == flow.status = "RUNNING" /\ flow' = CancelFlow(flow) /\ UNCHANGED <<kept, crew>>
Escalate ==
    /\ flow.status = "RUNNING"
    /\ flow' = [flow EXCEPT !.status = "ESCALATED"]
    /\ UNCHANGED <<kept, crew>>
RequireReview ==
    /\ flow.status = "RUNNING"
    /\ flow' = [flow EXCEPT !.pending = TRUE]
    /\ UNCHANGED <<kept, crew>>

\* run_flow_controlled clears the review, validates the run and completes it.
Conclude ==
    LET cleared == [flow EXCEPT !.pending = FALSE] IN
    /\ flow.status = "RUNNING" /\ crew = "none" /\ ToResume(flow) = {}
    /\ flow' = IF ValidCompletion(cleared) THEN [cleared EXCEPT !.status = "COMPLETED"] ELSE cleared
    /\ UNCHANGED <<kept, crew>>

SaveFlow == kept' = flow /\ UNCHANGED <<flow, crew>>

\* The process ends; another one loads the file.
ResumeFlow ==
    /\ kept # NoFlow
    /\ flow' = kept /\ crew' = "none"
    /\ UNCHANGED kept

CrewNext ==
    \/ \E t \in CrewTasks, n \in 1 .. CrewBudget.attempts :
          \/ \E inTime \in BOOLEAN : ExecuteFixtureTask(t, n, inTime)
          \/ RegisterFailure(t, n)
    \/ \E t \in CrewTasks : Kickoff(t)
    \/ \E cites \in SUBSET (Leaves \cup {Fallback}) \ {{}}, supported \in BOOLEAN :
          AdmitCrewOutput(cites, supported)
    \/ \E idea \in Ideas : Delegate(idea)
    \/ CancelRun \/ Escalate \/ RequireReview \/ Conclude \/ SaveFlow \/ ResumeFlow

CrewSpec == CrewInit /\ [][CrewNext]_crewVars

(* ------------------------------ correctness ---------------------------- *)

\* What is counted is what was done, within the budget, where a synthesis costs
\* two and any other attempt one; a task is done when an artifact of it is
\* accepted, after those it depends on; and a run that is complete has them all
\* and the evidence it was to collect (register_execution, accept_artifact,
\* validate_manager_decision, validate_completion).
AddsUp(f) ==
    /\ f \in FlowStates
    /\ f.calls = Cardinality(f.attempted) /\ f.calls <= CrewBudget.calls
    /\ f.cost = f.calls + Cardinality({a \in f.attempted : a[1] = Synthesis})
    /\ f.cost <= CrewBudget.cost
    /\ f.delegations = Cardinality(f.signatures)
    /\ f.delegations <= f.managers /\ f.managers <= CrewBudget.managers
    /\ f.executed \subseteq Done(f) /\ Done(f) = AcceptedTasks(f)
    /\ \A i \in DOMAIN f.accepted :
          Dependencies(f.accepted[i].task) \subseteq {f.accepted[j].task : j \in 1 .. i - 1}
    /\ f.status = "COMPLETED" =>
          /\ Done(f) = CrewTasks
          /\ Leaves \subseteq UNION {f.accepted[i].cites : i \in DOMAIN f.accepted}

\* Nothing the file has as done is to be done again.
FileIsBehind == kept # NoFlow => AddsUp(kept) /\ Done(kept) \subseteq Done(flow)

\* A run that is closed stays closed in its process, and no crew is started for
\* it; once it is cancelled, neither the workers' nor the managers' counter
\* moves (CREWAI_FLOWS.md:42).
ClosedRunsStay ==
    flow.status # "RUNNING" /\ flow' # kept =>
       /\ flow'.status = flow.status
       /\ crew' \in {crew, "none"}
       /\ flow.status = "CANCELLED" =>
             flow'.calls = flow.calls /\ flow'.managers = flow.managers

\* A run keeps its record, through failures, cancellation and restarts.
CrewKeepsItsRecord == [](AddsUp(flow) /\ FileIsBehind) /\ [][ClosedRunsStay]_crewVars
=============================================================================
