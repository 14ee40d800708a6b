---------------------------- MODULE DurableStore ----------------------------
(***************************************************************************)
(* DurableStore of advanced/10-long-running-asynchronous-agents/lab.py: a  *)
(* SQLite file whose tables hold one run, its inbox, approval receipts,    *)
(* timer, logical operation, attempt receipts and outbox.  Every operator  *)
(* of the second half is the body of one BEGIN IMMEDIATE transaction; a    *)
(* transaction that raises rolls back, so here it is simply not enabled.   *)
(*                                                                         *)
(* A save inside a transaction compares state_version with the value read  *)
(* under the same lock and so cannot fail.  The two calls that compare a   *)
(* version read earlier (claim_lease, transition) commit nothing when it   *)
(* is stale, which is a stuttering step; state_version itself is not kept. *)
(* Also left out: transition_history, an audit log nothing reads back; of   *)
(* the outbox, which nothing reads either, the newest message is kept.     *)
(***************************************************************************)
EXTENDS RunPolicy, FiniteSets

CONSTANTS
    Workers,          \* worker identifiers, the values of lease_owner
    NoWorker,         \* lease_owner = None
    Events,           \* the event envelopes a source may deliver
    Receipts,         \* approval receipts a reviewer may store
    NoReceipt,        \* validated_approval_id = None
    ReceiptBound,     \* receipt -> do its ids and digests match run and proposal
    ReceiptIssued,    \* receipt -> issued_at
    ReceiptExpires,   \* receipt -> expires_at
    Deadline,         \* proposal.expires_at, also the timer's due_at
    TimeoutPolicies,  \* the policies the timer may be scheduled with
    MaxFutureSkew,    \* EVENT_MAX_FUTURE_SKEW
    LeaseTicks,       \* lease_seconds
    MaxAttempts,      \* budgets.max_activity_attempts
    MaxActions,       \* budgets.max_external_actions
    MaxCost,          \* budgets.max_cost_usd, in units of one attempt's cost
    Horizon           \* the clock saturates here, past every deadline

CreatedAt == 1    \* one instant for created_at and wait_started_at

EventRecord == [id: Nat, src: STRING, sid: Nat, type: EventType, gen: Nat,
                at: Nat, trusted: BOOLEAN, ref: Receipts \cup {"TIMER", "NONE"}]

ASSUME StoreAssumption ==
    /\ NoWorker \notin Workers
    /\ NoReceipt \notin Receipts
    /\ "TIMER" \notin Receipts /\ "NONE" \notin Receipts
    /\ \A e \in Events : e \in EventRecord
    /\ ReceiptBound \in [Receipts -> BOOLEAN]
    /\ ReceiptIssued \in [Receipts -> Nat]
    /\ ReceiptExpires \in [Receipts -> Nat]
    /\ Deadline \in Nat /\ Deadline > CreatedAt
    /\ TimeoutPolicies \subseteq {"EXPIRE", "ESCALATE", "CANCEL"}
    /\ MaxFutureSkew \in Nat /\ LeaseTicks \in Nat \ {0}
    /\ MaxAttempts \in Nat \ {0} /\ MaxActions \in Nat /\ MaxCost \in Nat
    /\ Horizon \in Nat /\ Horizon > CreatedAt

VARIABLES
    run,        \* the runs row
    leaseLeft,  \* lease_expires_at - now, 0 once expired
    inbox,      \* envelope -> disposition stored for it
    approvals,  \* receipt -> has it been stored, has it been consumed
    timer,      \* the timers row
    op,         \* the operations row
    attempts,   \* attempt number -> status of its execution receipt
    outbox,     \* the newest outbox message: its kind and the status it carries
    now,        \* the clock callers pass as `now`
    authority   \* does the current trusted context still agree with the receipt

storeVars == <<run, leaseLeft, inbox, approvals, timer, op, attempts, outbox>>

Disposition == {"ABSENT", "PROCESSED", "REJECTED", "STALE"}

\* RunRecord and the operations row.
RunRecord == [status: RunStatus, gen: Nat,
              approval: Receipts \cup {NoReceipt},
              cancelReq: BOOLEAN, manualReq: BOOLEAN,
              owner: Workers \cup {NoWorker},
              attemptsUsed: Nat, actionsUsed: Nat]

OperationRow == [status: OperationStatus, owner: Workers \cup {NoWorker},
                 attempt: Nat, dispatched: BOOLEAN]

TypeOK ==
    /\ run \in RunRecord
    /\ leaseLeft \in 0..LeaseTicks
    /\ inbox \in [Events -> Disposition]
    /\ approvals \in [Receipts -> {"ABSENT", "STORED", "CONSUMED"}]
    /\ timer \in [status: {"ABSENT", "PENDING", "FIRED"},
                  policy: TimeoutPolicies]
    /\ op \in OperationRow
    /\ attempts \in [1..MaxAttempts -> AttemptStatus]
    /\ outbox \in {"NONE", "STATE", "CONTROL"} \X RunStatus
    /\ now \in Nat
    /\ authority \in BOOLEAN

-----------------------------------------------------------------------------
\* Reads and writes the transactions share.

\* create_run has committed the CREATED row; every other table is empty.
StoreInit ==
    /\ run = [status |-> "CREATED", gen |-> 0, approval |-> NoReceipt,
              cancelReq |-> FALSE, manualReq |-> FALSE, owner |-> NoWorker,
              attemptsUsed |-> 0, actionsUsed |-> 0]
    /\ leaseLeft = 0
    /\ inbox = [e \in Events |-> "ABSENT"]
    /\ approvals = [r \in Receipts |-> "ABSENT"]
    /\ timer \in [status: {"ABSENT"}, policy: TimeoutPolicies]
    /\ op = [status |-> "ABSENT", owner |-> NoWorker, attempt |-> 0,
             dispatched |-> FALSE]
    /\ attempts = [n \in 1..MaxAttempts |-> "ABSENT"]
    /\ outbox = <<"NONE", "CREATED">>
    /\ now = CreatedAt
    /\ authority = TRUE

\* _transition_tx: a legal move of record r (the run with its updates) and the
\* message announcing it, in one commit.
TransitionTo(r, target) ==
    /\ CanMove(run.status, target)
    /\ run' = [r EXCEPT !.status = target]
    /\ outbox' = <<"STATE", target>>

\* _update_in_place_tx: control metadata changes, the status does not.
UpdateInPlace(r) ==
    /\ run' = r
    /\ outbox' = <<"CONTROL", r.status>>

\* Wrong: a delivery rewrapped under a new envelope id passes.
SeenByEnvelope(e) == \E f \in Events : inbox[f] # "ABSENT" /\ f.id = e.id

\* An envelope or its source delivery already has a row: nothing is written.
Seen(e) ==
    \E f \in Events : /\ inbox[f] # "ABSENT"
                      /\ \/ f.id = e.id
                         \/ f.src = e.src /\ f.sid = e.sid

InsertEvent(e, disposition) == inbox' = [inbox EXCEPT ![e] = disposition]

\* The event is recorded and nothing else changes.
Dismiss(e, disposition) ==
    /\ InsertEvent(e, disposition)
    /\ UNCHANGED <<run, leaseLeft, approvals, timer, op, attempts, outbox>>

\* validate_event.
StaleEvent(e) ==
    \/ e.gen # run.gen
    \/ run.gen > 0 /\ e.at < CreatedAt
    \/ run.status \in Terminal

\* `trusted` stands for the signature, the payload digest and the bindings to
\* tenant and run.
Admissible(e) ==
    /\ e.trusted /\ e.src = AuthorizedSource(e.type)
    /\ ~StaleEvent(e)
    /\ e.at <= now + MaxFutureSkew

\* Wrong: the windows and the context are checked, the receipt's bindings are not.
ApprovalInWindow(r) ==
    /\ now <= Deadline
    /\ ReceiptIssued[r] <= now /\ now <= ReceiptExpires[r]
    /\ authority

\* validate_approval: the bindings of the receipt, the windows of the proposal
\* and the receipt, and the current context.
ApprovalValid(r) ==
    /\ ReceiptBound[r]
    /\ now <= Deadline
    /\ ReceiptIssued[r] >= CreatedAt
    /\ ReceiptIssued[r] <= now /\ now <= ReceiptExpires[r]
    /\ authority

\* The run's approval was consumed for it and is still valid now.
AuthorityHolds ==
    /\ run.approval # NoReceipt
    /\ approvals[run.approval] = "CONSUMED"
    /\ ApprovalValid(run.approval)

ActivityBudgetLeft ==
    run.attemptsUsed + 1 <= MaxAttempts /\ run.attemptsUsed + 1 <= MaxCost

-----------------------------------------------------------------------------
\* process_event and its handlers.

\* _simple_wait_transition_tx: end the run and drop its lease, or record the
\* event as stale when the move is not legal from here.
EndRun(e, target) ==
    /\ \/ /\ TransitionTo([run EXCEPT !.owner = NoWorker], target)
          /\ leaseLeft' = 0
          /\ InsertEvent(e, "PROCESSED")
       \/ /\ ~CanMove(run.status, target)
          /\ InsertEvent(e, "STALE")
          /\ UNCHANGED <<run, leaseLeft, outbox>>
    /\ UNCHANGED <<approvals, timer>>

Consumable(e) ==
    /\ e.ref \in Receipts
    /\ approvals[e.ref] = "STORED"
    /\ ApprovalValid(e.ref)

\* _process_approval_tx: the receipt is spent in the transaction that resumes
\* the run.
ProcessApproval(e) ==
    \/ run.status # "WAITING_APPROVAL" /\ Dismiss(e, "STALE")
    \/ run.status = "WAITING_APPROVAL" /\ ~Consumable(e) /\ Dismiss(e, "REJECTED")
    \/ /\ run.status = "WAITING_APPROVAL" /\ Consumable(e)
       /\ approvals' = [approvals EXCEPT ![e.ref] = "CONSUMED"]
       /\ TransitionTo([run EXCEPT !.approval = e.ref], "READY_TO_RESUME")
       /\ InsertEvent(e, "PROCESSED")
       /\ UNCHANGED <<leaseLeft, timer, op, attempts>>

TimerDue(e) == e.ref = "TIMER" /\ timer.status = "PENDING" /\ now >= Deadline

\* Wrong: the timer is spent before the run is known to wait for it.
SpendTimer(e) ==
    \/ ~TimerDue(e) /\ Dismiss(e, "REJECTED")
    \/ /\ TimerDue(e)
       /\ timer' = [timer EXCEPT !.status = "FIRED"]
       /\ \/ run.status \notin Waiting /\ InsertEvent(e, "STALE") /\ UNCHANGED <<run, outbox>>
          \/ /\ run.status \in Waiting /\ InsertEvent(e, "PROCESSED")
             /\ TransitionTo(run, TimeoutTarget(timer.policy))
       /\ UNCHANGED <<leaseLeft, approvals, op, attempts>>

\* _process_timer_tx: the persisted policy, not the event, picks the outcome.
ProcessTimer(e) ==
    \/ ~TimerDue(e) /\ Dismiss(e, "REJECTED")
    \/ TimerDue(e) /\ run.status \notin Waiting /\ Dismiss(e, "STALE")
    \/ /\ TimerDue(e) /\ run.status \in Waiting
       /\ TransitionTo(run, TimeoutTarget(timer.policy))
       /\ timer' = [timer EXCEPT !.status = "FIRED"]
       /\ InsertEvent(e, "PROCESSED")
       /\ UNCHANGED <<leaseLeft, approvals, op, attempts>>

\* Wrong: a call still in flight counts as no effect.
EffectReported ==
    /\ run.status \in {"EXECUTING", "RECONCILING", "VERIFYING"}
    /\ op.status \in {"UNKNOWN_OUTCOME", "SUCCEEDED"}

\* The provider may hold an effect of the operation that the run must account
\* for before it ends.
EffectMayExist ==
    /\ run.status \in {"EXECUTING", "RECONCILING", "VERIFYING"}
    /\ op.dispatched \/ op.status \in {"UNKNOWN_OUTCOME", "SUCCEEDED"}

\* Wrong: the run ends and its claim stays in flight.
LeaveUndispatched == UNCHANGED <<op, attempts>>

\* A claim that never crossed the call boundary is closed with the run.
CloseUndispatched ==
    /\ op' = IF op.status = "IN_FLIGHT" /\ ~op.dispatched
              THEN [op EXCEPT !.status = "FAILED"] ELSE op
    /\ attempts' =
          [n \in DOMAIN attempts |->
              IF /\ op.status = "IN_FLIGHT" /\ n = op.attempt
                 /\ attempts[n] = "STARTED"
              THEN "TERMINAL_FAILURE" ELSE attempts[n]]

\* The intent is kept until the effect is settled.
WithIntent(manual) ==
    [run EXCEPT !.manualReq = @ \/ manual, !.cancelReq = @ \/ ~manual]

\* _process_control_event_tx: cancellation or manual takeover.
ProcessControl(e) ==
    LET manual == e.type = "MANUAL_TAKEOVER" IN
    \/ /\ EffectMayExist
       /\ UpdateInPlace(WithIntent(manual))
       /\ InsertEvent(e, "PROCESSED")
       /\ UNCHANGED <<leaseLeft, approvals, timer, op, attempts>>
    \/ /\ ~EffectMayExist
       /\ CloseUndispatched
       /\ EndRun(e, IF manual THEN "MANUAL_CONTROL" ELSE "CANCELLED")

\* process_event: one transaction admits, deduplicates, validates and applies.
ProcessEvent(e) ==
    /\ ~Seen(e)
    /\ \/ ~Admissible(e) /\ Dismiss(e, IF StaleEvent(e) THEN "STALE" ELSE "REJECTED")
       \/ /\ Admissible(e)
          /\ \/ e.type = "APPROVAL_AVAILABLE" /\ ProcessApproval(e)
             \/ e.type = "APPROVAL_REJECTED" /\ EndRun(e, "REJECTED")
                                            /\ UNCHANGED <<op, attempts>>
             \/ e.type \in {"APPROVAL_TIMEOUT", "TIMER_FIRED"} /\ ProcessTimer(e)
             \/ e.type \in {"CANCEL_REQUESTED", "MANUAL_TAKEOVER"} /\ ProcessControl(e)
             \/ e.type = "EXTERNAL_CALLBACK" /\ Dismiss(e, "REJECTED")

-----------------------------------------------------------------------------
\* Worker calls: lease, claim, dispatch, record, recover, reconcile, complete.

\* claim_lease
ClaimLease(w) ==
    /\ run.status \in {"READY_TO_RESUME", "RECONCILING"}
    /\ run.owner = w \/ leaseLeft = 0
    /\ run' = [run EXCEPT !.owner = w]
    /\ leaseLeft' = LeaseTicks
    /\ UNCHANGED <<inbox, approvals, timer, op, attempts, outbox>>

\* consume_activity: every attempt is paid for, the external action only once.
ChargedRun ==
    [run EXCEPT !.attemptsUsed = @ + 1,
                !.actionsUsed = @ + (IF op.status = "ABSENT" THEN 1 ELSE 0)]

\* prepare_operation, disposition CLAIMED: worker w opens the next attempt of
\* the logical operation and pays for it.  Every other disposition and every
\* refusal leaves the tables as they are.
PrepareOperation(w) ==
    /\ run.status = "READY_TO_RESUME"
    /\ run.owner = w /\ leaseLeft > 0
    /\ AuthorityHolds
    /\ op.status \notin {"SUCCEEDED", "UNKNOWN_OUTCOME", "IN_FLIGHT"}
    /\ ActivityBudgetLeft
    /\ op.status = "ABSENT" => run.actionsUsed + 1 <= MaxActions
    /\ TransitionTo(ChargedRun, "EXECUTING")
    /\ op' = [status |-> "IN_FLIGHT", owner |-> w, attempt |-> op.attempt + 1,
              dispatched |-> FALSE]
    /\ attempts' = [attempts EXCEPT ![op.attempt + 1] = "STARTED"]
    /\ UNCHANGED <<leaseLeft, inbox, approvals, timer>>

\* Wrong: any claim of the operation's owner counts, whatever its attempt.
OwnersClaim(h) ==
    /\ run.status = "EXECUTING"
    /\ op.status = "IN_FLIGHT"
    /\ op.owner = h.owner

\* The claim h (owner and attempt of a PreparedOperation) is the active one.
ActiveClaim(h) ==
    /\ run.status = "EXECUTING"
    /\ op.status = "IN_FLIGHT"
    /\ op.attempt = h.attempt /\ op.owner = h.owner
    /\ attempts[h.attempt] = "STARTED"

\* Wrong: the marker of an earlier delivery of the same claim is not looked at.
CallAllowedAgain(h) ==
    /\ ActiveClaim(h)
    /\ ~run.cancelReq /\ ~run.manualReq
    /\ run.owner = op.owner /\ leaseLeft > 0

\* assert_operation_call_allowed: leave the dispatch marker, once, before the
\* provider is called.
CallAllowed(h) ==
    /\ ActiveClaim(h)
    /\ ~op.dispatched
    /\ ~run.cancelReq /\ ~run.manualReq
    /\ run.owner = op.owner /\ leaseLeft > 0

MarkDispatched(h) ==
    /\ CallAllowed(h)
    /\ op' = [op EXCEPT !.dispatched = TRUE]
    /\ UNCHANGED <<run, leaseLeft, inbox, approvals, timer, attempts, outbox>>

\* record_operation_result
ResultCurrent(h) == ActiveClaim(h) /\ op.dispatched

RecordOperationResult(h, answer) ==
    /\ ResultCurrent(h)
    /\ op' = [op EXCEPT !.status = OperationAfter(answer)]
    /\ attempts' = [attempts EXCEPT ![h.attempt] = AttemptAfter(answer)]
    /\ TransitionTo(run, RunAfter(answer, run.manualReq, run.cancelReq))
    /\ UNCHANGED <<leaseLeft, inbox, approvals, timer>>

\* Wrong: a live lease does not protect the worker that is still calling.
AbandonedOrNot == run.owner # NoWorker

\* Wrong: the sweeper looks for a run nobody owns.
Unowned == run.owner = NoWorker /\ leaseLeft = 0

\* The worker that dispatched has lost its lease.
Abandoned == run.owner # NoWorker /\ leaseLeft = 0

\* recover_expired_inflight: an abandoned dispatch becomes an unknown outcome.
RecoverExpiredInflight ==
    /\ run.status = "EXECUTING"
    /\ Abandoned
    /\ op.status = "IN_FLIGHT" /\ op.dispatched
    /\ op' = [op EXCEPT !.status = "UNKNOWN_OUTCOME"]
    /\ attempts' = [attempts EXCEPT ![op.attempt] =
                       IF @ = "STARTED" THEN "UNKNOWN_OUTCOME" ELSE @]
    /\ TransitionTo(run, "RECONCILING")
    /\ UNCHANGED <<leaseLeft, inbox, approvals, timer>>

Reconciling == run.status = "RECONCILING" /\ op.status = "UNKNOWN_OUTCOME"

\* record_reconciliation: confirmed absence retries only under current
\* authority and budget, and never against a control intent.
RecordReconciliation(finding) ==
    /\ Reconciling
    /\ \/ /\ finding = "CONFIRMED_EFFECT"
          /\ op' = [op EXCEPT !.status = "SUCCEEDED"]
          /\ TransitionTo(run, "VERIFYING")
       \/ /\ finding = "CONFIRMED_NO_EFFECT"
          /\ op' = [op EXCEPT !.status = "CONFIRMED_NO_EFFECT"]
          /\ TransitionTo(run,
                UnderIntent(run.manualReq, run.cancelReq,
                            IF AuthorityHolds /\ ActivityBudgetLeft
                            THEN "READY_TO_RESUME" ELSE "FAILED"))
       \/ /\ finding = "STILL_UNKNOWN"
          /\ UpdateInPlace(run)
          /\ UNCHANGED op
    /\ UNCHANGED <<leaseLeft, inbox, approvals, timer, attempts>>

\* Wrong: the provider's word is enough.
ProviderVerified(providerSees, businessSees) == op.status = "SUCCEEDED" /\ providerSees

\* Provider receipt and business record, both matching the operation.
EffectVerified(providerSees, businessSees) ==
    op.status = "SUCCEEDED" /\ providerSees /\ businessSees

\* complete_after_verification
CompleteAfterVerification(providerSees, businessSees) ==
    /\ run.status = "VERIFYING"
    /\ EffectVerified(providerSees, businessSees)
    /\ TransitionTo(run, UnderIntent(run.manualReq, run.cancelReq, "COMPLETED"))
    /\ UNCHANGED <<leaseLeft, inbox, approvals, timer, op, attempts>>

-----------------------------------------------------------------------------
\* transition, put_approval, schedule_timer: one transaction each.

StartRunning ==
    /\ TransitionTo(run, "RUNNING")
    /\ UNCHANGED <<leaseLeft, inbox, approvals, timer, op, attempts>>

EnterWait ==
    /\ TransitionTo([run EXCEPT !.gen = @ + 1], "WAITING_APPROVAL")
    /\ UNCHANGED <<leaseLeft, inbox, approvals, timer, op, attempts>>

ScheduleTimer ==
    /\ timer.status = "ABSENT"
    /\ timer' = [timer EXCEPT !.status = "PENDING"]
    /\ UNCHANGED <<run, leaseLeft, inbox, approvals, op, attempts, outbox>>

PutApproval(r) ==
    /\ approvals[r] = "ABSENT"
    /\ approvals' = [approvals EXCEPT ![r] = "STORED"]
    /\ UNCHANGED <<run, leaseLeft, inbox, timer, op, attempts, outbox>>
=============================================================================
