# TLA+ verification of the agent curriculum's reference runtimes

The repository is a curriculum: each lesson under `src/curriculum/` pairs text
with a runnable reference implementation, most of them a `policy.py` (decisions)
and a `lab.py` (state, storage, workers). The implementations are separate
programs; what they share is a subject: an agent proposes, the application
decides, records and executes. This project specifies the ones that keep durable
or shared state, model-checks them with TLC and proves most of the safety
properties with TLAPS.

Contents: 1 inventory, 2 state of the project, 3 long-running run, 4 MCP gateway,
5 notification delivery, 6 event intake, 7 labs that keep a store, 8 labs that
spend a budget, 9 what is proved, 10 what is only model-checked, 11 what is not
modelled.

## 1. Inventory

| component (lesson) | state it keeps | operations | what is hard |
|---|---|---|---|
| long-running run (`advanced/10`) | SQLite tables: run, inbox, approvals, timers, operations, attempt receipts, outbox | process_event, claim_lease, prepare_operation, record_operation_result, recover_expired_inflight, record_reconciliation, complete_after_verification | every operation is a transaction of its own; workers crash between them, leases expire, answers are lost, events race |
| MCP gateway (`advanced/13`) | approvals and their claims, attempts, receipts, used and reserved budgets, cancellation | issue_approval, prepare_tool_call, record_dispatch, complete_tool_call, reconcile, read_resource, cancel | reservation and release, ambiguous outcomes, two callers and one approval |
| proactive engine, delivery (`advanced/08`) | notifications, delivery attempts, dead letters, escalations | deliver_notification, reconcile_unknown_delivery, execute_due_escalations, acknowledge_incident, resolve_incident | autocommit: every statement is a commit; stale reads, unknown deliveries, late acknowledgements |
| proactive engine, intake (`advanced/08`) | processed events, incidents, metric samples, fingerprint claims, cooldowns | process_event, resolve_incident, acknowledge_incident | duplicates, out-of-order events, creation races, compare and set |
| LangGraph runtime (`intermediate/10`) | checkpoints, tombstones, the state in memory, executor commits | step, save, load, fork, delete, purge, revise, cancel, decide, execute | a save in two statements, old processes, forks, replay of a side effect |
| agent memory (`advanced/06`) | memory rows, tombstones, job results | write_atomic, delete, invalidate_source, retrieve, consolidate | deletion and revocation against late, replayed jobs |
| skill runtime (`advanced/14`) | registry, grants, activations, budgets | activate, activate_child, authorize, execute, quarantine | nested authority, withdrawal while running, one budget for several threads |
| approved rollback (`intermediate/03`) | decisions, audit, idempotency records | process_decision, check_idempotency, record_execution | check and use across processes, changing policy and evidence |
| crew flow (`advanced/03`) | the flow state, its file | fixture and framework tasks, admission, delegation, events, resume | late answers, restarts from an older file |
| control plane (`advanced/04`) | contract, architecture transition, receipts | classify, decide, contract, run, gate, admit transition | context or policy changes between the steps |
| password reset (`advanced/04`) | the reset and its file | begin, submit_otp, authorize, update, cancel, save, load | restarts, late answers |
| model router (`advanced/09`) | circuit breakers, attempts, spend | run_routing_case, CircuitBreakerRegistry | breakers shared by concurrent requests, budget while recovering |
| incident response (`advanced/05`) | copies of the run state, evidence, approval, orchestrator receipt | lease, investigate, propose, approve, execute, reconcile, verify, take over | unknown outcome, several copies of one run |
| planning executor (`intermediate/08`) | plan, task states, outputs, spend | batch, dispatch, retry, patch, stop | patches over finished and failed work |
| selector team (`advanced/02`) | evidence, diagnosis, review, turns, controls | select, validate, take a turn, control | decisions validated before and used after a change |
| single or multi agent, world models, judges, benchmarks (`advanced/01`, `07`, `11`, `12`) | none beyond one call | policy and scoring | boundaries of comparisons |
| agentic RAG (`intermediate/09`) | one bounded loop | retrieve, assess, refine | - |
| tools, context, guardrails, evaluation, trajectories (`intermediate/01`, `02`, `04`..`06`) | counters of one call | dispatch_tool, select, validate, score | - |
| beginner lessons (`beginner/04`..`07`) | approval of a single action | validate, approve, act | - |
| lessons without a lab (`advanced/15`..`31`) | none: notebook and text | - | - |
| hub site (`app/`), quiz (`quiz/`) | the browser's state | render, answer | presentation only |
| tooling (`scripts/`, `awsome_agents/`, `.github/`) | none | validate content, execute notebooks, mock model | - |

The components do not call one another: each lesson is loaded on its own. Inside
a lesson the interactions are function calls into one store, plus external
systems (provider, ledger, scheduler, reviewers, deployment API) that the lab
stands in for.

What makes each component correct, most important first:

- long-running run: the effect happens at most once per attempt paid for, only when
  approved, is never forgotten by a run that closes, and every wait ends;
- MCP gateway: no second attempt of an operation whose first may have had an effect,
  the budget reserved is what unfinished attempts hold, a confirmed receipt stays;
- proactive engine: an event is one occurrence of one incident, a spike alone
  interrupts nobody, a cooldown is quiet, a resolution is not overlooked, no
  notification reaches its recipient twice, every page ends in a result;
- LangGraph runtime: no work or spending is lost along a lineage, an execution
  follows the approval of what was checkpointed;
- agent memory: one current truth per key, and what was forgotten comes back only by a job's write;
- skill runtime: delegation never widens authority, threads never overdraw a budget;
- approved rollback, password reset, control plane: an effect is what the right
  people, or the right code, allowed;
- crew flow, planner, team: what is counted is what was done, and a run is complete
  only by finished work;
- router and incident response: recovery stays in its budgets and has its reason; one
  rollback at most; a person keeps control.

The hazards of `PROJECT.json` list, line by line, where each of these could go wrong
(the 40 that matter most; sections 3 to 8 name more).

## 2. State of the project

Done: the four components with the richest concurrency (sections 3 to 6), and eleven
smaller labs that share two model-checking modules (sections 7 and 8), with proofs
(section 9). The labs of one such module are independent: a variable `lab` says in
the first state which of them runs, the others' variables stay as they are, so a run
explores the sum of their state spaces and each conjunct of the next-state relation is
one lab.

Left for later: `migrate_run` of `advanced/10`, digest dispatch and backpressure of
`advanced/08`, discovery and the audit chain of `advanced/13`, and the lessons of section 11
that have control worth modelling. Every invariant and action property of a passing run has
a theorem, but for those section 10 gives the reason for.

How properties are grouped: several conjuncts that one reader asks about together are
one named property (`EveryWaitHasOneEnding`, `EventTablesAgree`, `RunsSettle`, ...), its
parts named above it in the module. Type invariants are not run properties: the modules
with a theorem prove theirs. Every property has a mutant in `PROJECT.json`: a plausible
bug in one definition that makes TLC find it violated under the run's own configuration.

## 3. Long-running run (`advanced/10-long-running-asynchronous-agents`)

| module | what it models |
|---|---|
| `RunPolicy` | `policy.py`: statuses, legal transitions, authorised sources; the outcome a control intent imposes, the meaning of a provider answer |
| `DurableStore` | every transaction of `DurableStore` in `lab.py` but `migrate_run`, one operator each |
| `WorkflowRuntime` | the processes between the transactions: starter, workers (claim, dispatch, call, record; query, reconcile), provider, ledger, reviewers, sources, clock |
| `WorkflowSafety` | invariants, action properties, the refinement of `RefundContract` |
| `RefundContract` | the abstract specification: nothing refunded before it is authorised, books close with the truth and stay true |
| `WorkflowLiveness` | fairness and what eventually happens |
| `MCWorkflowRuntime` | the constants of the runs |
| `WorkflowSafety_proofs` | the theorems |

Each transaction of the code is one atomic action, because it runs under
`BEGIN IMMEDIATE`; between two of them any process may be delayed, killed or given
another worker's claim by an at-least-once queue. `start_approval_run` is four
commits, `execute` three steps (marker, call, record), `reconcile` two (query,
commit). A transaction that raises rolls back and is a step that is not enabled.

Left out, and why it does not matter to the properties: one run per model (the
transactions touch one run's rows; the event tables' uniqueness is over the events
of that run); `state_version` (a comparison inside a transaction cannot fail, and a
stale one commits nothing); `transition_history`, `current_step` and reconciliation
receipts (nothing reads them back); the outbox but its newest message (no code
publishes it). Signatures, digests and tenant bindings are one flag `trusted` of an
event; the proposal's preconditions, the policy version, the approver's role and the
subject are one flag `authority`, which the environment may flip at any time. Money
is counted in units of one attempt's cost. A lease is kept as the ticks it has left;
the clock stops at `Horizon`, after every deadline, which only merges times that no
guard tells apart. The provider is idempotent in the operation id and never forgets,
as `DeterministicProvider` is.

| run | question | bounds |
|---|---|---|
| `Execution` | do the tables agree, is no attempt called twice, is money moved only as approved, does a wait end once, are refused events inert, do closed receipts and live leases hold | two studies (`OneStudy`): with timeout policy EXPIRE, 2 workers, 2 attempts, approval and cancellation; with ESCALATE, 1 worker, 1 attempt and 6 events (approval, its rewrapped copy, approval by another receipt, rejection, timeout, an unsigned event) |
| `Contract` | does the store implement `RefundContract` if leases are held across what they protect | 2 workers, 2 attempts, approval, cancellation, an unsupported callback |
| `Closure` | is COMPLETED only said of a verified effect, is a stop never lost, do waits, calls and verifications end (`RunsSettle`) | 1 worker, 2 attempts, approval, timeout, cancellation, takeover; fair services |
| `StalledCall` (violation) | can a closed run hide a refund | 2 workers, 2 attempts, approval and cancellation |

Two attempts are the least with a retry, two workers the least that can race, and the
deadline lies two instants after the start so that a delivery can be before, at and
after it. A lease of one tick can be live, expire between any two steps, and be taken
over. The sources of `Execution` run up to one instant ahead of the clock, as far as
admission tolerates (`EnvSkew = MaxFutureSkew = 1`): a timer event can come before its
deadline, be refused and stay in the inbox, its envelope spent. In the other runs no source
is ahead, because a wait whose only timer event is spent has no end.

`OneStudy` keeps what races for the wait apart from what races for the operation:
the events act on a run before it is ready, the workers after. It also lets `authority`
change only while no worker holds a claim, because only a claim and the transaction
that follows read it. Workers are symmetric in the runs without liveness. Deadlock is
not checked: a closed run with a stopped clock is meant to stop.

`StalledCall`: a finding of no effect belongs to the moment of the query. A caller that
outlives its lease (or a query older than a retry) makes it false before it is
recorded. `Contract` shows the discipline that repairs it: a call ends before its
lease does, and who reconciles holds the lease from query to commit
(`DisciplinedSpec`).

Two more behaviours of the code are states of the model without a run of their own.
`recover_expired_inflight` looks for a dispatched operation, `claim_lease` for a run
that is READY_TO_RESUME or RECONCILING, and `prepare_operation` answers BUSY: a worker
that dies between its claim and its dispatch marker leaves the run EXECUTING until an
operator cancels it. And the wait and its timer are two commits, so a starter that dies
between them leaves a wait without a timer: `WaitEnds` speaks of waits whose timer was
stored. More lines where this component is delicate, covered by the same properties:
`lab.py` 1162, 1556, 1985; `migrate_run` at 511 is not modelled.

Fairness: `FairSpec` assumes the clock ticks, the sweeper recovers what it may, the
ledger observer and the verifier are called again until they succeed, and the timer
service delivers a due timer it finds stored. These are the repeated calls the lesson's
text gives to services outside the process; the lab itself calls them in sequence.
Workers and people may stop for ever.

## 4. MCP gateway (`advanced/13-mcp-model-context-protocol`)

| module | what it models |
|---|---|
| `ToolGateway` | `NorthstarMCPGateway`, its callers and the tool backend |
| `ToolGatewaySafety` | invariants, action properties, the refinement of `ApprovedEffect`, `QuietSpec` |
| `ApprovedEffect` | the abstract specification: an approval is claimed, may have its effect, and is spent or free again only with the truth about the effect |
| `MCToolGateway`, `MCAgents`, `ToolGateway_proofs` | the instances; the theorems |

`attempts`, `claims`, `receipts`, `used` and `reserved` are the tables and dictionaries of
the gateway; `procs` is where each thread that uses the gateway is. A call is
`Admit` (the checks of `prepare_tool_call` before the lock), `Reserve` (those under it),
`RecordDispatch`, `Send`, `Complete` and `Settle` (`complete_tool_call`, up to its receipt
and after it). A request travels on its own (`sent`): the backend may carry it out
(`Handle`) after its caller has gone, or never get it (`Lose`).

| run | question | bounds |
|---|---|---|
| `GatewayClaims` | do attempts, claims, reservations and receipts agree, is nothing retried blindly, does each approval keep `ApprovedEffect` | 2 callers, one approved refund proposed in 2 sessions, 3 rate slots |
| `Agents` (lab `gateway`) | do used and reserved calls stay in the budget (`BudgetHolds`), whatever is abandoned, cancelled or reconciled in flight | 2 callers, a draft and a query in one session with 2 calls left; one thing around the calls is amiss at a time (`FewChanges`) |

`GatewayClaims` runs `QuietSpec`: an operator reconciles an operation that no caller works
on, that has no request under way and no attempt left open. The code does not enforce
that; without it, `reconcile` takes the newest attempt of an operation from under its
caller, which lab `gateway` (the unrestricted `Next`) includes. Three rate slots allow an
attempt, a retry after absence and one more that must be refused.

Known behaviours that no run checks: an approval's claim is the approval's own, so two
approvals issued for one operation let two callers dispatch it (the text at `README.md:239`
of the lesson ties the claim to the operation); a READ or WRITE call that names an approval
moves that approval's claim (the theorems about claims suppose `OneCallEach`: an operation
is one invocation of one tool, approved at most once, and only a consequential call carries
an approval; `MCToolGateway` has TLC confirm it of the instance); `reconcile` of an operation
whose newest attempt was abandoned open closes it without releasing its reservation (`~Open`
in `QuietReconcile` excludes it); `read_resource` checks the budget as it stands, adds to it
afterwards without reserving, and so may pass the server-call limit (`README.md:362`);
`backend_confirmed_absent` is never cleared. More delicate lines under the same properties:
`lab.py` 693, 697, 1031, 1057, 1064, 1193, 1211, 1243.

Abstractions: credential, snapshot and descriptor checks are one `context`; one principal,
one server. `complete_tool_call` is one step up to its receipt, although the code leaves the
lock between the accounting and the receipt, and `read_resource` is one step, although its
check and its update are not under the lock: interleavings inside these two are not
explored. Elapsed time and cost budgets, discovery filtering, prompts, protocol negotiation
and the audit chain are left out.

## 5. Notification delivery (`advanced/08-proactive-agents`)

| module | what it models |
|---|---|
| `NotificationDelivery` | `deliver_notification`, `execute_due_escalations`, `reconcile_unknown_delivery`, the delivery side of `acknowledge_incident` and `resolve_incident`, over the rows of one incident |
| `NotificationSafety` | its properties and `FairSpec` |
| `MCNotification`, `NotificationSafety_proofs` | the instances; the theorems |

The store's connection is in autocommit mode, so an action is one SQL statement and
whatever Python does around it: a worker reads a row (`Load`), inserts an attempt
(`Attempt`, on the primary channel and on the fallback), and updates the row it read
(`Finish`), while others do the same. What keeps a message from being sent twice is the
UNIQUE constraint on attempt numbers (`Taken`) together with the receipt in the row.

| run | question | bounds |
|---|---|---|
| `Delivery` | does a confirmation stay, does a saved page end in a result | 2 deliverers, one page, 3 attempts, 1 crash; liveness |
| `Escalation` | does nothing reach its recipient twice, are attempts counted, is SENT only said of a delivered escalation | 2 deliverers, 1 job, a page, a low-priority notification, one role, 3 attempts, 1 crash |
| `BlockedEscalation` (violation) | is every due role paged | 1 job, 2 roles, 1 attempt |

Three attempts are what it takes for a fallback and a later retry. In `Escalation` the
constraint `OneInDelivery` lets one row at a time have attempts: rows share nothing but
the incident's status and the escalation table, which the actions of the other rows do
not read. `FairSpec` assumes that a process that does not die goes on (weak fairness of
`Proceed`), that a caller keeps asking for the page (strong fairness, because a
concurrent attempt disables and enables it again) and that the escalation job runs
again; the code leaves both callers to a scheduler. `PageSettles` promises nothing after
a crash: an attempt whose row was never updated occupies the next number, every later
delivery of the row raises, and nothing in the code repairs it.

`BlockedEscalation`: `execute_due_escalations` does not handle an error of
`deliver_notification`, so a first role whose notification is exhausted or unknown ends
every sweep before the second is reached.

Other known behaviours that no run checks: a deferral read before a delivery may
overwrite its DELIVERED receipt (only for low priorities: `ConfirmedPageStays` is about
the others); a sweep that has read the incident as ACTIVE pages a role after the
acknowledgment; a crash between the page and its escalation rows leaves it without them.

Abstractions: a dead letter and the row's update are one step, and so is a
reconciliation (nobody else writes an unknown row); channels, recipients, preferences and
quiet hours are the choice a load makes; every role of `role_routes` has a recipient.

## 6. Event intake (`advanced/08-proactive-agents`)

| module | what it models |
|---|---|
| `IncidentEngine` | `process_event` for metric and recovery events of one correlation key, statement by statement, by several workers; `resolve_incident`, `acknowledge_incident` |
| `IncidentSafety` | its properties |
| `MCIncident`, `IncidentSafety_proofs` | the instances; the theorems |

An event is its place in the producer's sequence; `recorded`, `links`, `incidents`,
`samples` and `notified` are the tables. A worker records an event, correlates it (creating
the incident, opening a new occurrence, updating, or refusing it as stale), binds it,
inserts its reading, judges the trigger with the hysteresis of
`evaluate_metric_trigger`, passes the fingerprint claim and the cooldown, activates and
saves a notification. Every incident write is the compare and set of `update_incident`
(`Fresh`); a conflict ends the call, as the exception does. A notification saved here is
what `SaveNotification` of `NotificationDelivery` starts from, and the incident's status
there follows `Activate`, `Close`, `Resolve` and `Acknowledge`.

| run | question | bounds |
|---|---|---|
| `Intake` | are events counted once and linked to what counted them, does a spike alone notify, is a cooldown quiet, does anything go back, is a resolution overlooked | 2 workers, 5 streams of 3 events with one redelivery, command or crash, one of 2 events with two of them |
| `ReopenedIncident` (violation) | does an event reopen a resolved incident | 2 workers, 2 breaches, an operator's resolution |

The streams are the shapes that take different branches: two breaches that sustain and a
P1 that escalates; three that sustain within a cooldown; an immediate P1 pair with its
recovery; a P1 that must stay quiet; a pause longer than the correlation window, with a
recovery event. Three events are the least in which an activation can be followed by
something that must not interrupt again. `FewFaults` bounds the faults of such a run to
one, and those of two breaches to two, so that an event refused as older than an
operator's resolution is delivered again and raises `last` (`Repeat`). The 15 minutes of a
cooldown, the 5 of a claim and the age of a stale reading may end at any moment, which
includes every real timing.

`ReopenedIncident`: the worker that loses `create_incident` reads the winner's incident
again and updates it without the checks of the branch beside it, so an event from before
a resolution makes the resolved incident PENDING or ACTIVE again.

Other known behaviours that no run checks: an event whose call ends in a version conflict,
or whose worker dies, after `record_event` is recorded and linked to nothing, and its
redelivery is then a duplicate without an incident (`EVENT_DEDUPLICATION.md:50` of the
lesson says an interleaving cannot leave that); a missing or healthy reading that is not
inserted yet does not break the streak another worker reads; a recovery resolves as of its
call's time, over evidence that came later; an acknowledgment of a resolved incident makes
it ACKNOWLEDGED; a fingerprint claim is kept when the activation after it fails.

Abstractions: an operator's command is one step; events that `admit_event` rejects change
nothing; the duplicate-telemetry counter and an incident's severity field at its creation
are not kept; digests, backpressure, read-only enrichment and non-metric triggers are left
out.

## 7. Labs that keep a store (`MCStores`, run `Stores`)

Two processes `p1`, `p2` stand for whatever the lab that runs has several of. The
constraint `FewDisturbances` counts, per lab, what is out of the ordinary (a restart, a
withdrawn grant, a revoked source, a cancelled run, ...) and bounds the count, mostly at
two: enough for two of them to meet in any order, on top of the ordinary work, which is
not bounded. Symmetry of the two processes is sound, because no property of this run is
a liveness property. Deadlock is not checked: work ends.

**`CheckpointRuntime`** (`intermediate/10`): `rows` and `tombstones` are the tables,
`runtime` what each process has in memory, `commits` the executor's commits. A runtime
works in memory and saves in two steps (`save` reads the next sequence, then inserts), so
an insert may fail or a process die between them. Start, resume, fork, deletion,
retention, decision, revision, cancellation and execution are actions. `CheckpointsKeepTheRun`:
along every lineage evidence, nodes and spending only grow and add up to the budget, and what
is executed was checkpointed, approved by a person within its life, and is not of a fork.
`MCHistories` starts from an empty thread's tables of two kinds, an interrupted
investigation and one that has met a timeout and a contradicting monitor, so that the
bounds reach the end of a run. Known behaviour: a cancelled run can still be approved from another checkpoint of its
thread (`README.md:274` of the lesson has a decision after CANCELLED denied).

**`AgentMemory`** (`advanced/06`): `memories`, `graves` and `results` are the tables,
`worker` where each job is. A write is one transaction; a job reads the version it expects
before it, deletion and invalidation select rows in one statement and change them in
another. `MemoriesKeepTheirLine` (one active truth per key, a line of versions that does not fork,
sources and trust that only grow) and `ForgettingHolds`: a row in quarantine stays there and is
retrieved under its id neither as current nor as history, until a hard deletion leaves a
tombstone (`QuarantineHolds`); only a job's write stores what is not stored
(`ErasedStaysErased`); nothing is admitted on a revoked source, an active row comes to rest on
one only by a job admitted before, and the rows a sweep found end in quarantine
(`RevocationHolds`). A version superseded before the revocation stays in history. Four candidates are the least with an
agreement, a conflict and a second key; two jobs the least with a race. Known behaviours,
inside what the properties leave open: a replayed job can create a hard-deleted first
record again under its old id; versions start again after a deletion; a job admitted
before a revocation writes an active memory from the revoked source; an expired active row
makes every later consolidation of its key a conflict; windows read `AS_OF` may overlap.

**`SkillRuntime`** (`advanced/14`): grants, health, tenant policy, registry and package
digests are shared, `thread` is where each caller is between routing, check, charge, build
and use; only the budget is under a lock. `SkillsStayInBounds`: every use is of a capability the
principal may hold and every skill from the root down asked for, a read-only skill only reads,
and what a request has spent stays in its budget and covers what was activated and completed. Known behaviours: a diamond of dependencies builds more
activations than were charged, and a charge is not returned when the build fails.

**`ApprovedRollback`** (`intermediate/03`): `payloads`, `decided`, `audit`, `commands`,
`records`, and `executors` between check, rollback and record. `RollbacksKeepTheirPromise`:
what was carried out was approved as its risk demands by different, entitled people on
record, and, as long as executors of one action take turns and none dies, once. The roster
has one person of each kind that a rule tells apart. Known behaviours: the idempotency key
omits the environment, so a staging rollback makes the production one ALREADY_EXECUTED
(`DEEP_DIVE_IDEMPOTENCY.md` gives another key); the CONFLICT answer cannot occur; a rejected
payload may be approved by a later call; a command stays valid when policy, evidence or
time move on; two executors may check before either records.

**`CrewFlow`** (`advanced/03`): `flow` is the flow state, `kept` its file, `crew` the
framework's crew under way. `CrewKeepsItsRecord`: what is counted is what was done and lies
in the budget, artifacts come after those they depend on, a complete run has them all, a
closed run stays closed in its process, and the file never knows of more than was done.
Three ideas cover the branches of a manager's proposal. Known behaviours: an answer after
CANCELLED is admitted and makes its task SUCCEEDED, and counts no worker call;
`build_artifact` overwrites a reviewer's decision with REVIEW_PASS (`CREWAI_FLOWS.md:46`); a
task that cannot be registered stays RUNNING; `run_flow_controlled` clears the pending review
itself; a delegated fallback task can never be accepted; a run resumed from an older file
forgets its cancellation.

**`HybridPlane`** (`advanced/04`): one request from its text to the gate. `context` and
`deployed` may change between any two steps. `PlaneKeepsItsMandate`: what is written is what
the text asks for, by a capability the caller had, a rollback by a receipt for this request;
a success shows accepted evidence and keeps its architecture's budget; a worker cannot
argue its way past one change of architecture. The nine texts have one reading of each kind
and those that mix two. Known behaviours: a result is gated after its write, so a write may
stay behind a DEADLINE_EXCEEDED; after an admitted transition the original classification
demands evidence the team never brings; HUMAN_ESCALATION is an allowed target without a
remedy; `build_execution_contract` compares the decision with the context's policy, not with
the deployed one; the same receipt may serve a second rollback.

**`PasswordReset`** (`advanced/04`): `working` is the process's state, `filed` the file.
`ChangesAreVerified` (a password is changed only by a reset answered rightly, in time and
within its attempts, and never by one its file calls over) and `FilesGoForward`. Known
behaviours: nothing in `src/` saves after a step and `begin_password_reset` does not look for
a file, so a crash or a new beginning restarts count and expiry (`README.md:127` and
`SINGLE_AGENT_VS_WORKFLOW.md:9` say a restart cannot); each `run_control_plane` begins a reset
of its own; an older file lets an update run again.

## 8. Labs that spend a budget (`MCAgents`, run `Agents`)

The layout is that of section 7, with `FewAtOnce` as the constraint. The gateway lab is
described in section 4.

**`ModelRouter`** (`advanced/09`): `breakers` is the registry all requests share, `routing`
what each client's request has done. Between the look at the routes and the question to the
breaker, and while a model answers, other requests go on. `RequestsRecoverInBounds`: calls
really made keep attempts, providers, fallbacks and retries of the context, and each later
call has its reason in the call before. Three routes on two providers are the least with a
retry, a fallback to another provider and a promotion. Known behaviours: a half-open probe
that ends in an error not worth a retry records nothing (`FALLBACKS_AND_RELIABILITY.md:49`
says a failed probe opens); a late success closes an OPEN breaker; a late failure reopens a
HALF_OPEN one and lets a second probe start; a fallback after a promotion may be of lower
quality; an AUTH error with blocked fallbacks is reported as PROVIDER_BUDGET_EXHAUSTED.

**`IncidentResponse`** (`advanced/05`): `desks` are the copies of the run state that
coordinators hold, `saved` the file, `order` the orchestrator's receipt. `RollbackIsSettled`
(one rollback at most, a run is resolved only of one it knows of) and `PersonKeepsControl`.
`OneSave` and `FewTroubles` bound the disturbances at two. Known behaviours: leases live in
each copy; a coordinator restarted from an older file gets the receipt but never reaches
VERIFYING; after a failed verification the same rollback is never tried again; an unsaved
takeover is forgotten by a restart; several functions change state before they raise
(execute in ESCALATED, reconcile in MANUAL_CONTROL, verify in RESOLVED) and the model keeps
what they have changed; a reconciliation may say FAILED and the rollback land later; the
tool budget of 10 never binds.

**`PlanExecutor`** (`intermediate/08`): `plan`, `taskStates`, `outputs` and counters of one
run, with the three patches. `ResultsAreEarned`: finished work stays in every later plan and is
never started again, a completed run passed the checkpoint of its last plan over everything
but the report, and plans never run over what they were validated for. The contracts put each limit
just where it binds. Known behaviours: with an injected conflict and missing evidence no
run completes; an approval names a plan version, so any patch invalidates it; the stops at
cost, deadline and 50 iterations are unreachable.

**`SelectorTeam`** (`advanced/02`): `gathered`, `candidate`, `review`, `turns`, `choice` and
controls of one team. `DiagnosisIsGrounded`: a diagnosis stands on complete evidence that has
not changed since, nobody speaks twice in a row to one gap, and bounds count real turns.
Known behaviours: `detect_duplicate_selection` refuses the same agent and target twice in a
row, so nothing valid follows a failed review, and a gap that a turn reported as a conflict
cannot be reconciled next (`README.md:155` of the lesson routes it there).

## 9. What is proved

All theorems hold for every value of the constants that satisfies the named assumptions of
the component's module, any number of workers, events, messages and attempts. The proofs are
checked by TLAPS with Z3, Zenon and LS4; an inductive invariant is stated as an operator of
the proof module and was found with TLC before it was proved.

| module | theorems | argument |
|---|---|---|
| `WorkflowSafety_proofs` | `TypesHold`, `TablesAgree`, `ClosedReceiptsStay`, `CallsStayInBudget`, `EffectsAreAuthorised`, `CompletedRunsHaveTheirEffect`, `IntentsAreKept`, `WaitsEndOnce`, `LiveLeasesProtect`, `RefusalsAreInert`, `DisciplineErasesNoEffect`, `RefundContractHolds` | see below |
| `ToolGateway_proofs` | `GatewayTypes`, `GatewayBudget`, `ReservationsMatch`, `ClaimsMatch`, `EffectsSettle`, `PromisesKept` | `BookInv`: each caller agrees with its attempt (`CallerInv`), only the newest attempt of an operation may be open (`NewestInv`), a receipt tells what the newest attempt says (`ReceiptInv`); over it `ClaimsInv`. `ReservationsMatch` and the three after it are about `QuietSpec`; `ClaimsMatch`, `EffectsSettle` and `PromisesKept` suppose `OneCallEach` (section 4) |
| `NotificationSafety_proofs` | `NotificationTypes`, `NotificationReachesOnce`, `NotificationsCountAttempts`, `SentEscalationsReached`, `ConfirmedPagesStay` | every row has at most the attempts it counts and one more, which belongs to the worker that inserted it; that worker's position says what its attempt has come to, and an attempt of unknown result is the last |
| `IncidentSafety_proofs` | `IntakeTypes`, `SpikeAloneActivatesNothing`, `IncidentsOnlyGrow`, `CooldownsAreQuiet`, `ResolutionsAreSeen`, `EventsAgree` | `IInv`: types, `CallOK` (what a call holds was once stored, and is what is stored if the versions agree) and `IncidentOK`; lemma `OthersKeep` carries the calls of the other workers over a write. `EventsAgree` needs a ledger: a credit function gives every source event to at most one occurrence, and a call that has not written yet still owns its event (`LedgerInv`) |
| `Stores_proofs` | `RollbacksArePromised`, `SkillsKeepBounds`, `CheckpointsCarryOn`, `MemoriesStayInLine`, `OnlyWritesBringBack` | see below |
| `ControlPlane_proofs` | `MandatesAreKept`, `ChangesOfPasswordsAreVerified`, `ResetFilesGoForward` | plane: `MandateInvariant` = the property's two halves (a write is what the text asks for and, for a rollback, has its receipt; a success shows its evidence within the budget of a mandated architecture), the types of what the request holds (`PlaneFits`) and `OneTransition`, which ends at the team; reset: `ResetInvariant`, each state is `Sound`, its attempts are `Counted`, and the working state of a reset descends from the file's |
| `IncidentResponse_proofs` | `CopiesAgree`, `RollbackSettled`, `PersonKeeps` | `ResponseInv`: types, `SoundOrder` of the orchestrator, and `SoundRun` of every copy, in memory or in the file, against it |
| `BoundedAgents_proofs` | `TeamTypes`, `DiagnosesAreGrounded`, `RouterTypes`, `RequestsRecover`, `CrewRecordsAreKept`, `ResultsComeFromWork` | crew: `FlowInv` of the flow in memory and of the one in the file (`Spent`: the counters are those of the attempts registered, where synthesis costs two; `Proceeded`: tasks follow what they depend on), the file is behind the memory, and the crew works on a task that could start; team: the last turn looks like the present, and the diagnosis is grounded; router: `RequestInv` = what the calls made have used (`Past`), the next call is paid for before it is made and remembers what it recovers from (`Coming`), admission leaves an attempt (`Admission`); planner: see below |

The invariant of the long-running run, `WorkflowSafety_proofs`: `TypeInv` says beside the
types that the answer a worker holds is one the provider gives. `BooksInv` is
`RunMatchesOperation` with the bound on attempts; it is inductive by a case split over kinds
of steps rather than actions, because many transactions change the tables in the same way:
`Resting`, `Starting`, `Claiming`, `Answering`, `Recovering`, `Settling`, `Completing`,
arriving events. One lemma per transaction says which kind it is, one per kind that it keeps
the books. On the books stand `CallsInv` (calls made, and the one being dispatched, are no
more than the attempts paid for), `IntentInv` (a run that is to stop executes only what was
dispatched before), `AuthorityInv` (an effect has a spent receipt and an open end of its
wait), `CompletionInv` and `WaitInv` (the inbox row that ended the wait is the one the tables
show). `DisciplineErasesNoEffect` adds what the discipline gives, that a live claim and the
query of a reconciliation see the provider as it is; with it every step of `DisciplinedSpec`
is a step of `RefundContract` or leaves its variables alone (`RefundContractHolds`), and
without it `StalledCall` finds the opposite.

The invariants in `Stores_proofs`. Rollbacks: `RollbackInvariant` = `ReviewsHold` (decisions
and audit agree), `ExecutionsTyped`, `TurnsHold`: an action nobody is unsure of is `Orderly`,
its record says what its one execution came to. Skills: `SkillInvariant`; the property counts
activated skills and finished artifacts against what was spent, and is not inductive, because
a thread is charged before it has anything to show; `Covered` says that what is there and
what the calls under way have paid for (`ToActivate`, `ToFinish`) is together no more than
what was spent, `TreesApart` that two calls never pay for the same thing, and
`AuthorityNarrows` that an activation holds at most what every skill above it asked for.
Checkpoints: `CkptInvariant`; the property compares a row with its parent, but a save writes
what a process holds, which was loaded long ago and worked on since. `Fit` therefore says of
every state, in the table or in memory, that it `Follows` the row it came from if that row is
still there; `Follows` is `CarriesOn` with `AuditFollows`, and each operation `Works`: it
completes at most one node and pays for a read. A row inserted is nobody's parent yet, and
identifiers are never used again (`InsertFits`), so two processes on stale copies of one
row make two lineages, each in order. Memories: `MemoryInvariant`; a deletion and a sweep
write rows they selected earlier, so `Lines` speaks of the table, of these copies and of the
ids that are gone: a copy whose row is not gone says of identity, version and value what the
row says, and a row that is gone leaves its id to the next write of the same version. With it
every step takes each stored row `Onward`: what it rests on only grows while it is active.
Forgetting goes by the two kinds of step: a write (`WriteMakes`) makes rows only out of the
record of its job or out of an active row, and a deletion or a sweep (`ForgettingMakes`) only
rows in quarantine, each under an id that is stored.
`OneSweep` adds that the sweep under way is one statement's selection.

The planner, in `BoundedAgents_proofs`: `PlannerInvariant`. The three patches applied in any
order give only the plans of `PlanShape`, which name what each task waits for; a task is
tried after what it needs (`StatesShape`), so each artifact comes after those it rests on,
and the checkpoint's, once it has passed, last but for the report (`OutputsShape`: the
evidence that was looked for is below it, so no patch can follow). The property's bounds on
money and attempts are not inductive, because they do not say what the tasks that are left
may still cost: `BooksShape` bounds what is spent by `Ceilings`, what the answers so far
can have cost task by task, and `CapsAre` that by `Caps`, what each task can ever cost.
An answer may cost more than its estimate of 4 (a comparison 6, a report 8), and what pays
for it is the second attempt of the primary source, the checkpoint (at most 2) and the
guidance, which is never found and costs 1; `Sum(Caps)` stays 2 below what any plan was validated for. `Sum` is written out
over the nine names of tasks, and `PlannedAre` shows that the recursive function of the model
computes it.

Assumptions on constants are those the modules name (`...Assumption`): numbers are numbers,
markers are not values, a budget is positive where the code's is. Five are about use:
`OneCallEach` above; `TeamAssumption`, which says that the analyst, the reviewer and
the marker `none` own no gap, as in `GAP_TO_AGENT`; `SkillAssumption`, that the catalog is
finite; `MemoryAssumption`, that a candidate is what the schemas accept (known key, at least
one known source) and is verified by a source of the type its policy names; and
`CkptAssumption`, that a table a process finds at the start was left by an
investigation nobody has approved yet (`LeftBehind`: identifiers in the order of insertion,
parents before their children and `CarriesOn` between them), which is what this runtime
leaves before an approval. The initial tables of the `Stores` run satisfy it: TLC evaluates
the assumption.

`EventTablesAgree` is stated with a credit function (an assignment of source events to
occurrences) and not with the equivalent sum of counters, because a sum over a set is
defined by recursion, whose properties need induction over data.
`RequestsRecover` leaves the breakers untyped: it holds whatever they say.

## 10. What is only model-checked

- Liveness, `PageSettles` and `RunsSettle`: fairness needs ENABLED, which these provers do
  not treat.
- `NoEffectErased`, `EveryDueRoleIsPaged` and `EventsDoNotReopen` are refuted by their runs.

## 11. What is not modelled

- `migrate_run` of `advanced/10` (the schema of a stored run changes once, between two
  deployments); signatures, digests, tenants and canonical JSON everywhere: their checks are
  one flag of the message.
- Discovery, prompts, protocol negotiation and the audit chain of `advanced/13`; digest
  dispatch, backpressure, enrichment and non-metric triggers of `advanced/08`; projections,
  metrics, evaluation harnesses and framework adapters of every lab.
- The planner of `advanced/07`, the judges and benchmarks of `advanced/11`, `advanced/12`,
  `intermediate/05` and `intermediate/06`: numerical scoring of one call. The validators of
  `intermediate/01`, `02`, `04` and of the beginner lessons, the loop of `intermediate/09` and
  the handoffs of `advanced/01`: one sequential call over text, without state that outlives
  it. Their bounds are conditions that unit tests reach.
- The hub site, the quiz and the tooling: presentation and files.
- Notebooks repeat the modules of their lessons, with prose.

`PROJECT.json` maps every definition to the lines it stands for; the mapped lines are about
a fifth of the implementation, nearly all of the control of the labs named in section 1.
