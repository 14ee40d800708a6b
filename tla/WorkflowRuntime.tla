-------------------------- MODULE WorkflowRuntime --------------------------
(***************************************************************************)
(* The processes around one DurableStore file: the starter of the run,     *)
(* worker processes that claim, call and record or that query and          *)
(* reconcile, the effect provider, the business ledger, reviewers, event   *)
(* sources and the clock.  WorkflowRuntime and DeterministicProvider of    *)
(* advanced/10-long-running-asynchronous-agents/lab.py.                    *)
(*                                                                         *)
(* Between two transactions a process may be delayed for as long as it     *)
(* likes, handed to another process by an at-least-once queue, or killed.  *)
(***************************************************************************)
EXTENDS DurableStore

CONSTANT EnvSkew    \* how far a source's clock may run ahead of ours

ASSUME EnvAssumption == EnvSkew \in Nat

VARIABLES
    starter,   \* what start_approval_run has committed so far
    procs,     \* worker process -> its position, its claim, its last answer
    effect,    \* the provider has committed the refund
    calls,     \* provider.calls
    ledger     \* the business ledger has recorded the refund

vars == <<run, leaseLeft, inbox, approvals, timer, op, attempts, outbox, now,
          authority, starter, procs, effect, calls, ledger>>

world == <<now, authority, starter, effect, calls, ledger>>

\* A process works for the worker id of the same name; the claim it holds may
\* belong to another one when the queue delivered the work twice.
ProcState == [pc: {"idle", "prepared", "dispatched", "answered", "queried"},
              owner: Workers \cup {NoWorker}, attempt: Nat,
              answer: Answers \cup ReconciliationStatus \cup {"NONE"}]

Idle == [pc |-> "idle", owner |-> NoWorker, attempt |-> 0, answer |-> "NONE"]

RuntimeTypeOK ==
    /\ TypeOK
    /\ starter \in {"created", "running", "waiting", "done"}
    /\ procs \in [Workers -> ProcState]
    /\ effect \in BOOLEAN /\ ledger \in BOOLEAN
    /\ calls \in Nat

Init ==
    /\ StoreInit
    /\ starter = "created"
    /\ procs = [p \in Workers |-> Idle]
    /\ effect = FALSE /\ calls = 0 /\ ledger = FALSE

-----------------------------------------------------------------------------
\* start_approval_run: four commits after one another.  A run that was ended
\* meanwhile makes the next one raise, and a crash stops the starter.

Start ==
    /\ starter = "created" /\ StartRunning
    /\ starter' = "running"
    /\ UNCHANGED <<now, authority, procs, effect, calls, ledger>>

Wait ==
    /\ starter = "running" /\ EnterWait
    /\ starter' = "waiting"
    /\ UNCHANGED <<now, authority, procs, effect, calls, ledger>>

Schedule ==
    /\ starter = "waiting" /\ ScheduleTimer
    /\ starter' = "done"
    /\ UNCHANGED <<now, authority, procs, effect, calls, ledger>>

StarterStops ==
    /\ starter # "done"
    /\ starter' = "done"
    /\ UNCHANGED <<storeVars, now, authority, procs, effect, calls, ledger>>

-----------------------------------------------------------------------------
\* A worker process.

Claim(p) == ClaimLease(p) /\ UNCHANGED <<world, procs>>

Goto(p, s) == procs' = [procs EXCEPT ![p] = s]

Prepare(p) ==
    /\ procs[p].pc = "idle"
    /\ PrepareOperation(p)
    /\ Goto(p, [pc |-> "prepared", owner |-> p, attempt |-> op'.attempt,
                answer |-> "NONE"])
    /\ UNCHANGED world

\* The queue delivers q's prepared operation a second time, to p.
Redeliver(p, q) ==
    /\ procs[p].pc = "idle"
    /\ procs[q].pc \in {"prepared", "dispatched", "answered"}
    /\ Goto(p, [procs[q] EXCEPT !.pc = "prepared", !.answer = "NONE"])
    /\ UNCHANGED <<storeVars, world>>

\* execute, first commit: dispatch, or stop before the call.
Dispatch(p) ==
    /\ procs[p].pc = "prepared"
    /\ \/ MarkDispatched(procs[p]) /\ Goto(p, [procs[p] EXCEPT !.pc = "dispatched"])
       \/ /\ ~CallAllowed(procs[p]) /\ Goto(p, Idle)
          /\ UNCHANGED storeVars
    /\ UNCHANGED world

\* What the provider may answer; a known operation returns its first result.
Outcomes == IF effect THEN {"SUCCESS"} ELSE Answers

\* provider.execute: idempotent in the logical operation.  UNKNOWN_OUTCOME is
\* the response lost after the commit.
Call(p) ==
    /\ procs[p].pc = "dispatched"
    /\ \E answer \in Outcomes :
          /\ effect' = (effect \/ answer \in {"SUCCESS", "UNKNOWN_OUTCOME"})
          /\ Goto(p, [procs[p] EXCEPT !.pc = "answered", !.answer = answer])
    /\ calls' = calls + 1
    /\ UNCHANGED <<storeVars, now, authority, starter, ledger>>

\* execute, last commit: record the answer, or find the attempt stale.
Record(p) ==
    /\ procs[p].pc = "answered"
    /\ \/ RecordOperationResult(procs[p], procs[p].answer)
       \/ ~ResultCurrent(procs[p]) /\ UNCHANGED storeVars
    /\ Goto(p, Idle)
    /\ UNCHANGED world

\* reconcile, the query: outside any transaction, by the operation's id alone.
Query(p) ==
    /\ procs[p].pc = "idle"
    /\ op.status # "ABSENT"
    /\ \E finding \in {"STILL_UNKNOWN", IF effect THEN "CONFIRMED_EFFECT"
                                                  ELSE "CONFIRMED_NO_EFFECT"} :
          Goto(p, [Idle EXCEPT !.pc = "queried", !.answer = finding])
    /\ UNCHANGED <<storeVars, world>>

\* reconcile, the commit: record_reconciliation takes the finding it is given.
Reconcile(p) ==
    /\ procs[p].pc = "queried"
    /\ \/ RecordReconciliation(procs[p].answer)
       \/ ~Reconciling /\ UNCHANGED storeVars
    /\ Goto(p, Idle)
    /\ UNCHANGED world

\* A killed process forgets its claim and its answer; the store keeps its row.
Crash(p) ==
    /\ procs[p].pc # "idle"
    /\ Goto(p, Idle)
    /\ UNCHANGED <<storeVars, world>>

-----------------------------------------------------------------------------
\* Calls that hold no state between transactions.

Recover == RecoverExpiredInflight /\ UNCHANGED <<world, procs>>

\* observe_business_effect
Observe ==
    /\ effect /\ ~ledger
    /\ ledger' = TRUE
    /\ UNCHANGED <<storeVars, now, authority, starter, procs, effect, calls>>

\* verify_and_complete reads provider and ledger; neither ever forgets.
Verify == CompleteAfterVerification(effect, ledger) /\ UNCHANGED <<world, procs>>

-----------------------------------------------------------------------------
\* The environment.

\* Any source delivers any of its events, once or more, in any order, at any
\* time its own clock has reached.
Deliver(e) ==
    /\ e.at <= now + EnvSkew
    /\ ProcessEvent(e)
    /\ UNCHANGED <<world, procs>>

Review(r) ==
    /\ ReceiptIssued[r] <= now
    /\ PutApproval(r)
    /\ UNCHANGED <<world, procs>>

\* Policy, permissions, approver roles or preconditions change, or change back.
ChangeContext ==
    /\ authority' = ~authority
    /\ UNCHANGED <<storeVars, now, starter, procs, effect, calls, ledger>>

Tick ==
    /\ now < Horizon \/ leaseLeft > 0
    /\ now' = IF now < Horizon THEN now + 1 ELSE now
    /\ leaseLeft' = IF leaseLeft > 0 THEN leaseLeft - 1 ELSE 0
    /\ UNCHANGED <<run, inbox, approvals, timer, op, attempts, outbox,
                   authority, starter, procs, effect, calls, ledger>>

-----------------------------------------------------------------------------

Worker(p) ==
    \/ Claim(p) \/ Prepare(p) \/ Dispatch(p) \/ Call(p) \/ Record(p)
    \/ Query(p) \/ Reconcile(p) \/ Crash(p)
    \/ \E q \in Workers : Redeliver(p, q)

Next ==
    \/ Start \/ Wait \/ Schedule \/ StarterStops
    \/ \E p \in Workers : Worker(p)
    \/ Recover \/ Observe \/ Verify
    \/ \E e \in Events : Deliver(e)
    \/ \E r \in Receipts : Review(r)
    \/ ChangeContext \/ Tick

Spec == Init /\ [][Next]_vars
=============================================================================
