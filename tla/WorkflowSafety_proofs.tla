----------------------- MODULE WorkflowSafety_proofs -----------------------
(***************************************************************************)
(* Theorems about WorkflowRuntime for any number of workers, events,       *)
(* receipts and attempts.                                                  *)
(***************************************************************************)
EXTENDS WorkflowSafety, FiniteSetTheorems, TLAPS

\* An answered process holds a provider answer, not a finding.
AnswersTyped == \A p \in Workers : procs[p].pc = "answered" => procs[p].answer \in Answers

TypeInv == RuntimeTypeOK /\ AnswersTyped

-----------------------------------------------------------------------------
\* Type correctness of the store's transactions.

\* The statuses policy.py computes are statuses.
LEMMA PolicyTypes ==
    /\ \A a \in Answers : OperationAfter(a) \in OperationStatus
    /\ \A a \in Answers : AttemptAfter(a) \in AttemptStatus
    /\ \A a \in Answers, m \in BOOLEAN, c \in BOOLEAN : RunAfter(a, m, c) \in RunStatus
    /\ \A m \in BOOLEAN, c \in BOOLEAN, t \in RunStatus : UnderIntent(m, c, t) \in RunStatus
    /\ \A q \in {"EXPIRE", "ESCALATE", "CANCEL"} : TimeoutTarget(q) \in RunStatus
    BY DEF OperationAfter, AttemptAfter, RunAfter, UnderIntent, TimeoutTarget, Answers,
           OperationStatus, AttemptStatus, RunStatus, Terminal, Waiting

\* A transition saves a well-formed run and announces it.
LEMMA TransitionType ==
    ASSUME NEW r \in RunRecord, NEW target \in RunStatus, TransitionTo(r, target)
    PROVE  run' \in RunRecord /\ outbox' \in {"NONE", "STATE", "CONTROL"} \X RunStatus
    BY DEF TransitionTo, RunRecord

LEMMA UpdateType ==
    ASSUME NEW r \in RunRecord, UpdateInPlace(r)
    PROVE  run' \in RunRecord /\ outbox' \in {"NONE", "STATE", "CONTROL"} \X RunStatus
    BY DEF UpdateInPlace, RunRecord

\* Recording a disposition keeps the inbox well-formed.
LEMMA InsertType ==
    ASSUME TypeOK, NEW e \in Events, NEW d \in Disposition, InsertEvent(e, d)
    PROVE  inbox' \in [Events -> Disposition]
    BY DEF InsertEvent, TypeOK

LEMMA DismissType ==
    ASSUME TypeOK, NEW e \in Events, NEW d \in Disposition, Dismiss(e, d),
           UNCHANGED <<now, authority>>
    PROVE  TypeOK'
    BY InsertType DEF Dismiss, TypeOK

LEMMA EndRunType ==
    ASSUME TypeOK, NEW e \in Events, NEW target \in RunStatus,
           EndRun(e, target), UNCHANGED <<now, authority>>,
           op' \in OperationRow, attempts' \in [1..MaxAttempts -> AttemptStatus]
    PROVE  TypeOK'
<1>1. [run EXCEPT !.owner = NoWorker] \in RunRecord
    BY DEF TypeOK, RunRecord
<1>2. run' \in RunRecord /\ outbox' \in {"NONE", "STATE", "CONTROL"} \X RunStatus
    BY <1>1, TransitionType DEF EndRun, TypeOK
<1>3. leaseLeft' \in 0..LeaseTicks
    BY StoreAssumption DEF EndRun, TypeOK
<1>4. inbox' \in [Events -> Disposition]
    BY InsertType DEF EndRun, Disposition
<1> QED BY <1>2, <1>3, <1>4 DEF EndRun, TypeOK

LEMMA ApprovalType ==
    ASSUME TypeOK, NEW e \in Events, ProcessApproval(e), UNCHANGED <<now, authority>>
    PROVE  TypeOK'
<1>1. CASE Dismiss(e, "STALE") \/ Dismiss(e, "REJECTED")
    BY <1>1, DismissType DEF Disposition
<1>2. CASE /\ Consumable(e)
           /\ approvals' = [approvals EXCEPT ![e.ref] = "CONSUMED"]
           /\ TransitionTo([run EXCEPT !.approval = e.ref], "READY_TO_RESUME")
           /\ InsertEvent(e, "PROCESSED")
           /\ UNCHANGED <<leaseLeft, timer, op, attempts>>
  <2>1. [run EXCEPT !.approval = e.ref] \in RunRecord
    BY <1>2 DEF TypeOK, RunRecord, Consumable
  <2>2. run' \in RunRecord /\ outbox' \in {"NONE", "STATE", "CONTROL"} \X RunStatus
    BY <1>2, <2>1, TransitionType DEF RunStatus
  <2>3. inbox' \in [Events -> Disposition]
    BY <1>2, InsertType DEF Disposition
  <2>4. approvals' \in [Receipts -> {"ABSENT", "STORED", "CONSUMED"}]
    BY <1>2 DEF TypeOK
  <2> QED BY <1>2, <2>2, <2>3, <2>4 DEF TypeOK
<1> QED BY <1>1, <1>2 DEF ProcessApproval

LEMMA TimerType ==
    ASSUME TypeOK, NEW e \in Events, ProcessTimer(e), UNCHANGED <<now, authority>>
    PROVE  TypeOK'
<1>1. CASE Dismiss(e, "STALE") \/ Dismiss(e, "REJECTED")
    BY <1>1, DismissType DEF Disposition
<1>2. CASE /\ TransitionTo(run, TimeoutTarget(timer.policy))
           /\ timer' = [timer EXCEPT !.status = "FIRED"]
           /\ InsertEvent(e, "PROCESSED")
           /\ UNCHANGED <<leaseLeft, approvals, op, attempts>>
  <2>1. TimeoutTarget(timer.policy) \in RunStatus
    BY PolicyTypes, StoreAssumption DEF TypeOK
  <2>2. run' \in RunRecord /\ outbox' \in {"NONE", "STATE", "CONTROL"} \X RunStatus
    BY <1>2, <2>1, TransitionType DEF TypeOK
  <2>3. inbox' \in [Events -> Disposition]
    BY <1>2, InsertType DEF Disposition
  <2> QED BY <1>2, <2>2, <2>3 DEF TypeOK
<1> QED BY <1>1, <1>2 DEF ProcessTimer

LEMMA CloseType ==
    ASSUME TypeOK, CloseUndispatched
    PROVE  op' \in OperationRow /\ attempts' \in [1..MaxAttempts -> AttemptStatus]
    BY DEF CloseUndispatched, TypeOK, OperationRow, OperationStatus, AttemptStatus

LEMMA ControlType ==
    ASSUME TypeOK, NEW e \in Events, ProcessControl(e), UNCHANGED <<now, authority>>
    PROVE  TypeOK'
<1>1. CASE EffectMayExist
  <2>a. \A m \in BOOLEAN : WithIntent(m) \in RunRecord
    BY DEF TypeOK, RunRecord, WithIntent
  <2>b. UpdateInPlace(WithIntent(e.type = "MANUAL_TAKEOVER"))
    BY <1>1 DEF ProcessControl
  <2>1. run' \in RunRecord /\ outbox' \in {"NONE", "STATE", "CONTROL"} \X RunStatus
    BY <2>a, <2>b, UpdateType
  <2>2. inbox' \in [Events -> Disposition]
    BY <1>1, InsertType DEF ProcessControl, Disposition
  <2> QED BY <1>1, <2>1, <2>2 DEF ProcessControl, TypeOK
<1>2. CASE ~EffectMayExist
  <2>1. CloseUndispatched /\ (EndRun(e, "MANUAL_CONTROL") \/ EndRun(e, "CANCELLED"))
    BY <1>2 DEF ProcessControl
  <2>2. "MANUAL_CONTROL" \in RunStatus /\ "CANCELLED" \in RunStatus
    BY DEF RunStatus, Terminal
  <2>3. op' \in OperationRow /\ attempts' \in [1..MaxAttempts -> AttemptStatus]
    BY <2>1, CloseType
  <2> QED BY <2>1, <2>2, <2>3, EndRunType
<1> QED BY <1>1, <1>2

LEMMA ProcessEventType ==
    ASSUME TypeOK, NEW e \in Events, ProcessEvent(e), UNCHANGED <<now, authority>>
    PROVE  TypeOK'
<1>1. CASE Dismiss(e, "STALE") \/ Dismiss(e, "REJECTED")
    BY <1>1, DismissType DEF Disposition
<1>2. CASE EndRun(e, "REJECTED") /\ UNCHANGED <<op, attempts>>
    BY <1>2, EndRunType DEF TypeOK, RunStatus, Terminal
<1> QED BY <1>1, <1>2, ApprovalType, TimerType, ControlType DEF ProcessEvent

\* The transactions of the workers, recovery, reconciliation and verification.
LEMMA WorkerCallTypes ==
    ASSUME TypeOK, UNCHANGED <<now, authority>>
    PROVE  /\ \A w \in Workers : ClaimLease(w) => TypeOK'
           /\ \A w \in Workers : PrepareOperation(w) => TypeOK'
           /\ \A h : MarkDispatched(h) => TypeOK'
           /\ \A h : \A a \in Answers : RecordOperationResult(h, a) => TypeOK'
           /\ RecoverExpiredInflight => TypeOK'
           /\ \A f : RecordReconciliation(f) => TypeOK'
           /\ \A x, y : CompleteAfterVerification(x, y) => TypeOK'
<1>0. run \in RunRecord /\ op \in OperationRow /\ run.cancelReq \in BOOLEAN
      /\ run.manualReq \in BOOLEAN
    BY DEF TypeOK, RunRecord
<1>1. ASSUME NEW w \in Workers, ClaimLease(w) PROVE TypeOK'
  <2>1. run' \in RunRecord
    BY <1>0, <1>1 DEF ClaimLease, RunRecord
  <2>2. leaseLeft' \in 0..LeaseTicks
    BY <1>1, StoreAssumption DEF ClaimLease
  <2> QED BY <1>1, <2>1, <2>2 DEF ClaimLease, TypeOK
<1>2. ASSUME NEW w \in Workers, PrepareOperation(w) PROVE TypeOK'
  <2>1. ChargedRun \in RunRecord
    <3>1. PICK n \in {0, 1} : n = IF op.status = "ABSENT" THEN 1 ELSE 0
      OBVIOUS
    <3>2. /\ run.attemptsUsed + 1 \in Nat
          /\ run.actionsUsed + n \in Nat
      BY <1>0, <3>1 DEF RunRecord
    <3>3. ChargedRun = [run EXCEPT !.attemptsUsed = run.attemptsUsed + 1,
                                   !.actionsUsed = run.actionsUsed + n]
      BY <1>0, <3>1 DEF ChargedRun, RunRecord
    <3> QED BY <1>0, <3>2, <3>3 DEF RunRecord
  <2>2. run' \in RunRecord /\ outbox' \in {"NONE", "STATE", "CONTROL"} \X RunStatus
    BY <1>2, <2>1, TransitionType DEF PrepareOperation, RunStatus
  <2>3. op' \in OperationRow
    BY <1>0, <1>2 DEF PrepareOperation, OperationRow, OperationStatus
  <2>4. attempts' \in [1..MaxAttempts -> AttemptStatus]
    BY <1>2 DEF PrepareOperation, TypeOK, AttemptStatus
  <2> QED BY <1>2, <2>2, <2>3, <2>4 DEF PrepareOperation, TypeOK
<1>3. ASSUME NEW h, MarkDispatched(h) PROVE TypeOK'
    BY <1>3 DEF MarkDispatched, TypeOK, OperationRow
<1>4. ASSUME NEW h, NEW a \in Answers, RecordOperationResult(h, a) PROVE TypeOK'
  <2>1. run' \in RunRecord /\ outbox' \in {"NONE", "STATE", "CONTROL"} \X RunStatus
    BY <1>0, <1>4, PolicyTypes, TransitionType DEF RecordOperationResult
  <2>2. op' \in OperationRow
    BY <1>0, <1>4, PolicyTypes DEF RecordOperationResult, OperationRow
  <2>3. attempts' \in [1..MaxAttempts -> AttemptStatus]
    BY <1>4, PolicyTypes DEF RecordOperationResult, TypeOK
  <2> QED BY <1>4, <2>1, <2>2, <2>3 DEF RecordOperationResult, TypeOK
<1>5. ASSUME RecoverExpiredInflight PROVE TypeOK'
  <2>1. run' \in RunRecord /\ outbox' \in {"NONE", "STATE", "CONTROL"} \X RunStatus
    BY <1>0, <1>5, TransitionType DEF RecoverExpiredInflight, RunStatus
  <2>2. op' \in OperationRow /\ attempts' \in [1..MaxAttempts -> AttemptStatus]
    BY <1>0, <1>5 DEF RecoverExpiredInflight, TypeOK, OperationRow, OperationStatus,
                      AttemptStatus
  <2> QED BY <1>5, <2>1, <2>2 DEF RecoverExpiredInflight, TypeOK
<1>6. ASSUME NEW f, RecordReconciliation(f) PROVE TypeOK'
  <2>1. run' \in RunRecord /\ outbox' \in {"NONE", "STATE", "CONTROL"} \X RunStatus
    <3>1. CASE UpdateInPlace(run)
      BY <1>0, <3>1, UpdateType
    <3>2. CASE \E t \in RunStatus : TransitionTo(run, t)
      BY <1>0, <3>2, TransitionType
    <3>3. \A t \in RunStatus : UnderIntent(run.manualReq, run.cancelReq, t) \in RunStatus
      BY <1>0, PolicyTypes
    <3>4. {"VERIFYING", "READY_TO_RESUME", "FAILED"} \subseteq RunStatus
      BY DEF RunStatus, Terminal
    <3> QED BY <1>6, <3>1, <3>2, <3>3, <3>4 DEF RecordReconciliation
  <2>2. op' \in OperationRow
    BY <1>0, <1>6 DEF RecordReconciliation, OperationRow, OperationStatus
  <2> QED BY <1>6, <2>1, <2>2 DEF RecordReconciliation, TypeOK
<1>7. ASSUME NEW x, NEW y, CompleteAfterVerification(x, y) PROVE TypeOK'
  <2>1. UnderIntent(run.manualReq, run.cancelReq, "COMPLETED") \in RunStatus
    BY <1>0, PolicyTypes DEF RunStatus, Terminal
  <2>2. run' \in RunRecord /\ outbox' \in {"NONE", "STATE", "CONTROL"} \X RunStatus
    BY <1>0, <1>7, <2>1, TransitionType DEF CompleteAfterVerification
  <2> QED BY <1>7, <2>2 DEF CompleteAfterVerification, TypeOK
<1> QED BY <1>1, <1>2, <1>3, <1>4, <1>5, <1>6, <1>7

\* The commits of start_approval_run, put_approval and the clock.
LEMMA StarterTypes ==
    ASSUME TypeOK
    PROVE  /\ StartRunning /\ UNCHANGED <<now, authority>> => TypeOK'
           /\ EnterWait /\ UNCHANGED <<now, authority>> => TypeOK'
           /\ ScheduleTimer /\ UNCHANGED <<now, authority>> => TypeOK'
           /\ \A r \in Receipts : PutApproval(r) /\ UNCHANGED <<now, authority>> => TypeOK'
<1>0. run \in RunRecord /\ [run EXCEPT !.gen = @ + 1] \in RunRecord
    BY DEF TypeOK, RunRecord
<1>1. ASSUME StartRunning, UNCHANGED <<now, authority>> PROVE TypeOK'
  <2>1. run' \in RunRecord /\ outbox' \in {"NONE", "STATE", "CONTROL"} \X RunStatus
    BY <1>0, <1>1, TransitionType DEF StartRunning, RunStatus
  <2> QED BY <1>1, <2>1 DEF StartRunning, TypeOK
<1>2. ASSUME EnterWait, UNCHANGED <<now, authority>> PROVE TypeOK'
  <2>1. run' \in RunRecord /\ outbox' \in {"NONE", "STATE", "CONTROL"} \X RunStatus
    BY <1>0, <1>2, TransitionType DEF EnterWait, RunStatus, Waiting
  <2> QED BY <1>2, <2>1 DEF EnterWait, TypeOK
<1>3. ASSUME ScheduleTimer, UNCHANGED <<now, authority>> PROVE TypeOK'
    BY <1>3 DEF ScheduleTimer, TypeOK
<1>4. ASSUME NEW r \in Receipts, PutApproval(r), UNCHANGED <<now, authority>> PROVE TypeOK'
    BY <1>4 DEF PutApproval, TypeOK
<1> QED BY <1>1, <1>2, <1>3, <1>4

-----------------------------------------------------------------------------
\* Type correctness of the processes around the store.

WorldTypeOK ==
    /\ starter \in {"created", "running", "waiting", "done"}
    /\ procs \in [Workers -> ProcState] /\ AnswersTyped
    /\ effect \in BOOLEAN /\ ledger \in BOOLEAN
    /\ calls \in Nat

LEMMA GotoType ==
    ASSUME WorldTypeOK, NEW p \in Workers, NEW s \in ProcState, Goto(p, s),
           s.pc = "answered" => s.answer \in Answers
    PROVE  procs' \in [Workers -> ProcState] /\ AnswersTyped'
    BY DEF WorldTypeOK, AnswersTyped, Goto

LEMMA StepTypes == TypeInv /\ [Next]_vars => TypeInv'
<1> SUFFICES ASSUME TypeInv, [Next]_vars PROVE TypeOK' /\ WorldTypeOK'
    BY DEF TypeInv, RuntimeTypeOK, WorldTypeOK
<1>0. TypeOK /\ WorldTypeOK
    BY DEF TypeInv, RuntimeTypeOK, WorldTypeOK
<1>1. CASE UNCHANGED vars
    BY <1>0, <1>1 DEF vars, TypeOK, WorldTypeOK, AnswersTyped, RunRecord, OperationRow
<1>2. CASE Start \/ Wait \/ Schedule
  <2>1. TypeOK'
    BY <1>0, <1>2, StarterTypes DEF Start, Wait, Schedule
  <2> QED BY <1>0, <1>2, <2>1 DEF Start, Wait, Schedule, WorldTypeOK, AnswersTyped
<1>3. CASE StarterStops
    BY <1>0, <1>3 DEF StarterStops, storeVars, TypeOK, WorldTypeOK, AnswersTyped
<1>4. ASSUME NEW p \in Workers, Worker(p) PROVE TypeOK' /\ WorldTypeOK'
  <2>0. procs[p] \in ProcState /\ Idle \in ProcState
    BY <1>0 DEF WorldTypeOK, ProcState, Idle
  <2>1. CASE Claim(p)
    BY <1>0, <2>1, WorkerCallTypes DEF Claim, world, WorldTypeOK, AnswersTyped
  <2>2. CASE Prepare(p)
    <3>1. TypeOK'
      BY <1>0, <2>2, WorkerCallTypes DEF Prepare, world
    <3>2. op'.attempt \in Nat
      BY <3>1 DEF TypeOK, OperationRow
    <3>3. [pc |-> "prepared", owner |-> p, attempt |-> op'.attempt, answer |-> "NONE"]
             \in ProcState
      BY <3>2 DEF ProcState
    <3>4. procs' \in [Workers -> ProcState] /\ AnswersTyped'
      BY <1>0, <2>2, <3>3, GotoType DEF Prepare
    <3> QED BY <1>0, <2>2, <3>1, <3>4 DEF Prepare, world, WorldTypeOK
  <2>3. CASE Dispatch(p)
    <3>1. TypeOK'
      BY <1>0, <2>3, WorkerCallTypes DEF Dispatch, world, storeVars, TypeOK
    <3>2. [procs[p] EXCEPT !.pc = "dispatched"] \in ProcState
      BY <2>0 DEF ProcState
    <3>3. [procs[p] EXCEPT !.pc = "dispatched"].pc # "answered" /\ Idle.pc # "answered"
      BY <2>0 DEF ProcState, Idle
    <3>4. procs' \in [Workers -> ProcState] /\ AnswersTyped'
      BY <1>0, <2>0, <2>3, <3>2, <3>3, GotoType DEF Dispatch
    <3> QED BY <1>0, <2>3, <3>1, <3>4 DEF Dispatch, world, WorldTypeOK
  <2>4. CASE Call(p)
    <3>1. PICK a \in Outcomes :
             /\ effect' = (effect \/ a \in {"SUCCESS", "UNKNOWN_OUTCOME"})
             /\ Goto(p, [procs[p] EXCEPT !.pc = "answered", !.answer = a])
      BY <2>4 DEF Call
    <3>2. a \in Answers
      BY DEF Outcomes, Answers
    <3>3. /\ [procs[p] EXCEPT !.pc = "answered", !.answer = a] \in ProcState
          /\ [procs[p] EXCEPT !.pc = "answered", !.answer = a].answer \in Answers
      BY <2>0, <3>2 DEF ProcState
    <3>4. procs' \in [Workers -> ProcState] /\ AnswersTyped'
      BY <1>0, <3>1, <3>3, GotoType
    <3>5. effect' \in BOOLEAN
      BY <3>1
    <3>6. TypeOK' /\ UNCHANGED <<starter, ledger>> /\ calls' = calls + 1
      BY <1>0, <2>4 DEF Call, storeVars, TypeOK
    <3> QED BY <1>0, <3>4, <3>5, <3>6 DEF WorldTypeOK
  <2>5. CASE Record(p)
    <3>1. procs[p].answer \in Answers
      BY <1>0, <2>5 DEF Record, WorldTypeOK, AnswersTyped
    <3>2. TypeOK'
      <4>0. TypeOK /\ UNCHANGED <<now, authority>>
        BY <1>0, <2>5 DEF Record, world
      <4>1. CASE RecordOperationResult(procs[p], procs[p].answer)
        <5>1. \A a \in Answers : RecordOperationResult(procs[p], a) => TypeOK'
          BY <4>0, WorkerCallTypes
        <5> QED BY <3>1, <4>1, <5>1
      <4>2. CASE UNCHANGED storeVars
        BY <1>0, <2>5, <4>2 DEF Record, world, storeVars, TypeOK
      <4> QED BY <2>5, <4>1, <4>2 DEF Record
    <3>3. procs' \in [Workers -> ProcState] /\ AnswersTyped'
      BY <1>0, <2>0, <2>5, GotoType DEF Record, Idle
    <3> QED BY <1>0, <2>5, <3>2, <3>3 DEF Record, world, WorldTypeOK
  <2>6. CASE Query(p)
    <3>1. PICK f \in ReconciliationStatus : Goto(p, [Idle EXCEPT !.pc = "queried", !.answer = f])
      BY <2>6 DEF Query, ReconciliationStatus
    <3>2. /\ [Idle EXCEPT !.pc = "queried", !.answer = f] \in ProcState
          /\ [Idle EXCEPT !.pc = "queried", !.answer = f].pc # "answered"
      BY DEF Idle, ProcState
    <3>3. procs' \in [Workers -> ProcState] /\ AnswersTyped'
      BY <1>0, <3>1, <3>2, GotoType
    <3> QED BY <1>0, <2>6, <3>3 DEF Query, storeVars, world, TypeOK, WorldTypeOK
  <2>7. CASE Reconcile(p)
    <3>1. TypeOK'
      BY <1>0, <2>7, WorkerCallTypes DEF Reconcile, world, storeVars, TypeOK
    <3>2. procs' \in [Workers -> ProcState] /\ AnswersTyped'
      BY <1>0, <2>0, <2>7, GotoType DEF Reconcile, Idle
    <3> QED BY <1>0, <2>7, <3>1, <3>2 DEF Reconcile, world, WorldTypeOK
  <2>8. CASE Crash(p)
    <3>1. procs' \in [Workers -> ProcState] /\ AnswersTyped'
      BY <1>0, <2>0, <2>8, GotoType DEF Crash, Idle
    <3> QED BY <1>0, <2>8, <3>1 DEF Crash, storeVars, world, TypeOK, WorldTypeOK
  <2>9. ASSUME NEW q \in Workers, Redeliver(p, q) PROVE TypeOK' /\ WorldTypeOK'
    <3>1. /\ [procs[q] EXCEPT !.pc = "prepared", !.answer = "NONE"] \in ProcState
          /\ [procs[q] EXCEPT !.pc = "prepared", !.answer = "NONE"].pc # "answered"
      BY <1>0 DEF WorldTypeOK, ProcState
    <3>2. procs' \in [Workers -> ProcState] /\ AnswersTyped'
      BY <1>0, <2>9, <3>1, GotoType DEF Redeliver
    <3> QED BY <1>0, <2>9, <3>2 DEF Redeliver, storeVars, world, TypeOK, WorldTypeOK
  <2> QED BY <1>4, <2>1, <2>2, <2>3, <2>4, <2>5, <2>6, <2>7, <2>8, <2>9 DEF Worker
<1>5. CASE Recover \/ Verify
  <2>1. TypeOK'
    BY <1>0, <1>5, WorkerCallTypes DEF Recover, Verify, world
  <2> QED BY <1>0, <1>5, <2>1 DEF Recover, Verify, world, WorldTypeOK, AnswersTyped
<1>6. CASE Observe
    BY <1>0, <1>6 DEF Observe, storeVars, TypeOK, WorldTypeOK, AnswersTyped
<1>7. ASSUME NEW e \in Events, Deliver(e) PROVE TypeOK' /\ WorldTypeOK'
    BY <1>0, <1>7, ProcessEventType DEF Deliver, world, WorldTypeOK, AnswersTyped
<1>8. ASSUME NEW r \in Receipts, Review(r) PROVE TypeOK' /\ WorldTypeOK'
    BY <1>0, <1>8, StarterTypes DEF Review, world, WorldTypeOK, AnswersTyped
<1>9. CASE ChangeContext
    BY <1>0, <1>9 DEF ChangeContext, storeVars, TypeOK, WorldTypeOK, AnswersTyped
<1>10. CASE Tick
  <2>1. now' \in Nat /\ leaseLeft' \in 0..LeaseTicks
    BY <1>0, <1>10, StoreAssumption DEF Tick, TypeOK
  <2> QED BY <1>0, <1>10, <2>1 DEF Tick, TypeOK, WorldTypeOK, AnswersTyped
<1> QED BY <1>1, <1>2, <1>3, <1>4, <1>5, <1>6, <1>7, <1>8, <1>9, <1>10 DEF Next

LEMMA InitTypes == Init => TypeInv
<1> SUFFICES ASSUME Init PROVE TypeOK /\ WorldTypeOK
    BY DEF TypeInv, RuntimeTypeOK, WorldTypeOK
<1>1. run \in RunRecord /\ op \in OperationRow
    BY DEF Init, StoreInit, RunRecord, OperationRow, RunStatus, OperationStatus
<1>2. /\ leaseLeft \in 0..LeaseTicks /\ now \in Nat
      /\ outbox \in {"NONE", "STATE", "CONTROL"} \X RunStatus
    BY StoreAssumption DEF Init, StoreInit, CreatedAt, RunStatus
<1>3. TypeOK
    BY <1>1, <1>2 DEF Init, StoreInit, TypeOK, Disposition, AttemptStatus
<1>4. WorldTypeOK
    BY DEF Init, WorldTypeOK, AnswersTyped, ProcState, Idle
<1> QED BY <1>3, <1>4

\* Every reachable state of the workflow has the declared types.
THEOREM TypesHold == Spec => []RuntimeTypeOK
<1>1. TypeInv => RuntimeTypeOK
    BY DEF TypeInv
<1> QED BY <1>1, InitTypes, StepTypes, PTL DEF Spec

-----------------------------------------------------------------------------
\* The rows of the run agree.  The bound on the attempts is what makes
\* RunMatchesOperation inductive: without it a claim could open an attempt that
\* has no receipt.

BooksInv == RunMatchesOperation /\ run.attemptsUsed <= MaxAttempts

books == <<run.status, run.attemptsUsed, op, attempts>>

LEMMA BooksUnchanged ==
    ASSUME BooksInv, UNCHANGED books
    PROVE  BooksInv'
    BY DEF BooksInv, RunMatchesOperation, books

\* What a committed transition leaves in the run row.
LEMMA TransitionRow ==
    ASSUME NEW r \in RunRecord, NEW target, TransitionTo(r, target)
    PROVE  /\ run'.status = target /\ run'.attemptsUsed = r.attemptsUsed
           /\ run'.approval = r.approval
           /\ run'.cancelReq = r.cancelReq /\ run'.manualReq = r.manualReq
           /\ target \in Successors(run.status)
    BY DEF TransitionTo, RunRecord, CanMove

LEMMA EventBooks ==
    ASSUME TypeOK, BooksInv, NEW e \in Events, ProcessEvent(e)
    PROVE  BooksInv'
<1>0. run \in RunRecord /\ [run EXCEPT !.owner = NoWorker] \in RunRecord
      /\ [run EXCEPT !.owner = NoWorker].attemptsUsed = run.attemptsUsed
    BY DEF TypeOK, RunRecord
<1>1. CASE Dismiss(e, "STALE") \/ Dismiss(e, "REJECTED")
    BY <1>1, BooksUnchanged DEF Dismiss, books
<1>2. CASE ProcessApproval(e)
  <2>1. CASE /\ Consumable(e) /\ run.status = "WAITING_APPROVAL"
             /\ TransitionTo([run EXCEPT !.approval = e.ref], "READY_TO_RESUME")
             /\ UNCHANGED <<leaseLeft, timer, op, attempts>>
    <3>1. [run EXCEPT !.approval = e.ref] \in RunRecord
          /\ [run EXCEPT !.approval = e.ref].attemptsUsed = run.attemptsUsed
      BY <1>0, <2>1 DEF RunRecord, Consumable
    <3>2. run'.status = "READY_TO_RESUME" /\ run'.attemptsUsed = run.attemptsUsed
      BY <2>1, <3>1, TransitionRow
    <3> QED BY <2>1, <3>2 DEF BooksInv, RunMatchesOperation, Waiting
  <2> QED BY <1>1, <1>2, <2>1 DEF ProcessApproval
<1>3. CASE EndRun(e, "REJECTED") /\ UNCHANGED <<op, attempts>>
  <2>1. CASE TransitionTo([run EXCEPT !.owner = NoWorker], "REJECTED")
    <3>1. /\ run'.status = "REJECTED" /\ run'.attemptsUsed = run.attemptsUsed
          /\ "REJECTED" \in Successors(run.status)
      BY <1>0, <2>1, TransitionRow
    <3>2. run.status \in Waiting
      BY <3>1 DEF Successors, AfterWait, Waiting
    <3> QED BY <1>3, <3>1, <3>2 DEF BooksInv, RunMatchesOperation, Waiting
  <2> QED BY <1>3, <2>1, BooksUnchanged DEF EndRun, books
<1>4. CASE ProcessTimer(e)
  <2>1. CASE /\ run.status \in Waiting
             /\ TransitionTo(run, TimeoutTarget(timer.policy))
             /\ UNCHANGED <<leaseLeft, approvals, op, attempts>>
    <3>1. run'.status \in {"EXPIRED", "ESCALATED", "CANCELLED"}
          /\ run'.attemptsUsed = run.attemptsUsed
      BY <1>0, <2>1, TransitionRow, StoreAssumption DEF TimeoutTarget, TypeOK
    <3> QED BY <2>1, <3>1 DEF BooksInv, RunMatchesOperation, Waiting
  <2> QED BY <1>1, <1>4, <2>1 DEF ProcessTimer
<1>5. CASE ProcessControl(e)
  <2>1. CASE EffectMayExist
    <3>1. run' = WithIntent(e.type = "MANUAL_TAKEOVER") /\ UNCHANGED <<op, attempts>>
      BY <1>5, <2>1 DEF ProcessControl, UpdateInPlace
    <3>2. run'.status = run.status /\ run'.attemptsUsed = run.attemptsUsed
      BY <1>0, <3>1 DEF WithIntent, RunRecord
    <3> QED BY <3>1, <3>2, BooksUnchanged DEF books
  <2>2. ASSUME NEW t \in {"MANUAL_CONTROL", "CANCELLED"},
               ~EffectMayExist, CloseUndispatched, EndRun(e, t)
        PROVE  BooksInv'
    <3>1. op.status # "IN_FLIGHT" => UNCHANGED <<op, attempts>>
      <4>1. ASSUME op.status # "IN_FLIGHT" PROVE attempts' = attempts
        BY <2>2, <4>1 DEF CloseUndispatched, TypeOK
      <4> QED BY <2>2, <4>1 DEF CloseUndispatched
    <3>2. run.status # "RECONCILING" /\ op.status # "UNKNOWN_OUTCOME"
      BY <2>2 DEF EffectMayExist, BooksInv, RunMatchesOperation
    <3>3. CASE run.status = "EXECUTING"
      <4>1. op.status = "IN_FLIGHT" /\ ~op.dispatched
        BY <2>2, <3>3 DEF EffectMayExist, BooksInv, RunMatchesOperation
      <4>2. op'.status = "FAILED" /\ op'.attempt = op.attempt
        BY <2>2, <4>1 DEF CloseUndispatched, TypeOK, OperationRow
      <4>3. CanMove(run.status, t)
        BY <3>3 DEF CanMove, Successors
      <4>4. run'.status = t /\ run'.attemptsUsed = run.attemptsUsed
        BY <1>0, <2>2, <4>3, TransitionRow DEF EndRun
      <4>5. \A n \in 1..MaxAttempts :
               /\ attempts'[n] # "STARTED"
               /\ attempts'[n] = "ABSENT" <=> attempts[n] = "ABSENT"
        BY <2>2, <4>1 DEF CloseUndispatched, TypeOK, BooksInv, RunMatchesOperation
      <4> QED BY <4>2, <4>4, <4>5 DEF BooksInv, RunMatchesOperation, Waiting
    <3>4. CASE run.status # "EXECUTING"
      <4>1. op.status # "IN_FLIGHT" /\ UNCHANGED <<op, attempts>>
        BY <3>1, <3>4 DEF BooksInv, RunMatchesOperation
      <4>2. CASE UNCHANGED run
        BY <4>1, <4>2, BooksUnchanged DEF books
      <4>3. CASE TransitionTo([run EXCEPT !.owner = NoWorker], t)
        <5>1. run'.status = t /\ run'.attemptsUsed = run.attemptsUsed
          BY <1>0, <4>3, TransitionRow
        <5> QED BY <3>2, <4>1, <5>1 DEF BooksInv, RunMatchesOperation, Waiting
      <4> QED BY <2>2, <4>2, <4>3 DEF EndRun
    <3> QED BY <3>3, <3>4
  <2> QED BY <1>5, <2>1, <2>2 DEF ProcessControl
<1> QED BY <1>1, <1>2, <1>3, <1>4, <1>5 DEF ProcessEvent

LEMMA PrepareBooks ==
    ASSUME TypeOK, BooksInv, NEW w \in Workers, PrepareOperation(w)
    PROVE  BooksInv'
<1>0. run \in RunRecord /\ ChargedRun \in RunRecord
      /\ ChargedRun.attemptsUsed = run.attemptsUsed + 1
  <2>1. run \in RunRecord
    BY DEF TypeOK
  <2>2. PICK n \in {0, 1} : n = IF op.status = "ABSENT" THEN 1 ELSE 0
    OBVIOUS
  <2>3. /\ run.attemptsUsed + 1 \in Nat
        /\ run.actionsUsed + n \in Nat
    BY <2>1, <2>2 DEF RunRecord
  <2>4. ChargedRun = [run EXCEPT !.attemptsUsed = run.attemptsUsed + 1,
                                 !.actionsUsed = run.actionsUsed + n]
    BY <2>1, <2>2 DEF ChargedRun, RunRecord
  <2> QED BY <2>1, <2>3, <2>4 DEF RunRecord
<1>1. run'.status = "EXECUTING" /\ run'.attemptsUsed = run.attemptsUsed + 1
    BY <1>0, TransitionRow DEF PrepareOperation
<1>2. run.attemptsUsed + 1 <= MaxAttempts
    BY DEF PrepareOperation, ActivityBudgetLeft
<1>3. op'.status = "IN_FLIGHT" /\ op'.attempt = op.attempt + 1
    BY DEF PrepareOperation
<1>4. op.attempt = run.attemptsUsed /\ op.attempt \in Nat
    BY DEF BooksInv, RunMatchesOperation, TypeOK, OperationRow
<1>5. \A n \in 1..MaxAttempts :
         attempts'[n] = IF n = op.attempt + 1 THEN "STARTED" ELSE attempts[n]
    BY DEF PrepareOperation, TypeOK
<1>6. \A n \in 1..MaxAttempts :
         attempts[n] # "STARTED" /\ (attempts[n] = "ABSENT" <=> n > op.attempt)
    BY DEF PrepareOperation, BooksInv, RunMatchesOperation
<1>7. \A n \in 1..MaxAttempts :
         /\ attempts'[n] = "STARTED" <=> n = op.attempt + 1
         /\ attempts'[n] = "ABSENT" <=> n > op.attempt + 1
    BY <1>4, <1>5, <1>6
<1> QED BY <1>1, <1>2, <1>3, <1>4, <1>7 DEF BooksInv, RunMatchesOperation, Waiting

\* Closing the attempt in flight with a status that is not ABSENT keeps the
\* attempt receipts in step with the operation.
LEMMA CloseAttempt ==
    ASSUME TypeOK, BooksInv, op.status = "IN_FLIGHT", NEW d \in AttemptStatus \ {"ABSENT", "STARTED"},
           attempts' = [attempts EXCEPT ![op.attempt] = d]
    PROVE  \A n \in 1..MaxAttempts :
              /\ attempts'[n] # "STARTED"
              /\ attempts'[n] = "ABSENT" <=> n > op.attempt
<1> SUFFICES ASSUME NEW n \in 1..MaxAttempts
             PROVE  /\ attempts'[n] # "STARTED"
                    /\ attempts'[n] = "ABSENT" <=> n > op.attempt
    OBVIOUS
<1>1. attempts'[n] = IF n = op.attempt THEN d ELSE attempts[n]
    BY DEF TypeOK
<1>2. /\ attempts[n] = "STARTED" <=> n = op.attempt
      /\ attempts[n] = "ABSENT" <=> n > op.attempt
    BY DEF BooksInv, RunMatchesOperation
<1> QED BY <1>1, <1>2 DEF TypeOK, OperationRow

LEMMA ResultBooks ==
    ASSUME TypeOK, BooksInv, NEW h, NEW a \in Answers, RecordOperationResult(h, a)
    PROVE  BooksInv'
<1>0. run \in RunRecord /\ run.manualReq \in BOOLEAN /\ run.cancelReq \in BOOLEAN
    BY DEF TypeOK, RunRecord
<1>1. h.attempt = op.attempt /\ op.status = "IN_FLIGHT"
    BY DEF RecordOperationResult, ResultCurrent, ActiveClaim
<1>2. AttemptAfter(a) \in AttemptStatus \ {"ABSENT", "STARTED"}
    BY DEF AttemptAfter, OperationAfter, Answers, AttemptStatus
<1>3. \A n \in 1..MaxAttempts :
         /\ attempts'[n] # "STARTED"
         /\ attempts'[n] = "ABSENT" <=> n > op.attempt
    BY <1>1, <1>2, CloseAttempt DEF RecordOperationResult
<1>4. op'.status = OperationAfter(a) /\ op'.attempt = op.attempt
    BY DEF RecordOperationResult, TypeOK, OperationRow
<1>5. /\ run'.status = RunAfter(a, run.manualReq, run.cancelReq)
      /\ run'.attemptsUsed = run.attemptsUsed
    BY <1>0, TransitionRow DEF RecordOperationResult
<1> QED BY <1>0, <1>3, <1>4, <1>5
    DEF BooksInv, RunMatchesOperation, OperationAfter, RunAfter, UnderIntent, Answers, Waiting

LEMMA RecoverBooks ==
    ASSUME TypeOK, BooksInv, RecoverExpiredInflight
    PROVE  BooksInv'
<1>0. run \in RunRecord /\ op.status = "IN_FLIGHT"
    BY DEF TypeOK, RecoverExpiredInflight
<1>1. run'.status = "RECONCILING" /\ run'.attemptsUsed = run.attemptsUsed
    BY <1>0, TransitionRow DEF RecoverExpiredInflight
<1>2. op'.status = "UNKNOWN_OUTCOME" /\ op'.attempt = op.attempt
    BY DEF RecoverExpiredInflight, TypeOK, OperationRow
<1>3. \A n \in 1..MaxAttempts :
         /\ attempts'[n] # "STARTED"
         /\ attempts'[n] = "ABSENT" <=> n > op.attempt
  <2> SUFFICES ASSUME NEW n \in 1..MaxAttempts
               PROVE  /\ attempts'[n] # "STARTED"
                      /\ attempts'[n] = "ABSENT" <=> n > op.attempt
      OBVIOUS
  <2>1. attempts'[n] = IF n = op.attempt /\ attempts[n] = "STARTED"
                       THEN "UNKNOWN_OUTCOME" ELSE attempts[n]
      BY DEF RecoverExpiredInflight, TypeOK
  <2> QED BY <1>0, <2>1 DEF BooksInv, RunMatchesOperation, TypeOK, OperationRow
<1> QED BY <1>1, <1>2, <1>3 DEF BooksInv, RunMatchesOperation, Waiting

LEMMA ReconciliationBooks ==
    ASSUME TypeOK, BooksInv, NEW f, RecordReconciliation(f)
    PROVE  BooksInv'
<1>0. run \in RunRecord /\ run.manualReq \in BOOLEAN /\ run.cancelReq \in BOOLEAN
      /\ op.status = "UNKNOWN_OUTCOME" /\ attempts' = attempts
    BY DEF TypeOK, RunRecord, RecordReconciliation, Reconciling
<1>1. CASE op' = [op EXCEPT !.status = "SUCCEEDED"] /\ TransitionTo(run, "VERIFYING")
  <2>1. run'.status = "VERIFYING" /\ run'.attemptsUsed = run.attemptsUsed
    BY <1>0, <1>1, TransitionRow
  <2> QED BY <1>0, <1>1, <2>1 DEF BooksInv, RunMatchesOperation, Waiting, TypeOK, OperationRow
<1>2. CASE /\ op' = [op EXCEPT !.status = "CONFIRMED_NO_EFFECT"]
           /\ \E t \in {"MANUAL_CONTROL", "CANCELLED", "READY_TO_RESUME", "FAILED"} :
                 TransitionTo(run, t)
  <2>1. /\ run'.status \in {"MANUAL_CONTROL", "CANCELLED", "READY_TO_RESUME", "FAILED"}
        /\ run'.attemptsUsed = run.attemptsUsed
    BY <1>0, <1>2, TransitionRow
  <2> QED BY <1>0, <1>2, <2>1 DEF BooksInv, RunMatchesOperation, Waiting, TypeOK, OperationRow
<1>3. CASE UpdateInPlace(run) /\ UNCHANGED op
    BY <1>0, <1>3, BooksUnchanged DEF UpdateInPlace, books
<1> QED BY <1>0, <1>1, <1>2, <1>3 DEF RecordReconciliation, UnderIntent

LEMMA CompletionBooks ==
    ASSUME TypeOK, BooksInv, NEW x, NEW y, CompleteAfterVerification(x, y)
    PROVE  BooksInv'
<1>0. run \in RunRecord /\ run.manualReq \in BOOLEAN /\ run.cancelReq \in BOOLEAN
      /\ op.status = "SUCCEEDED" /\ UNCHANGED <<op, attempts>>
    BY DEF TypeOK, RunRecord, CompleteAfterVerification, EffectVerified
<1>1. /\ run'.status \in {"MANUAL_CONTROL", "CANCELLED", "COMPLETED"}
      /\ run'.attemptsUsed = run.attemptsUsed
    BY <1>0, TransitionRow DEF CompleteAfterVerification, UnderIntent
<1> QED BY <1>0, <1>1 DEF BooksInv, RunMatchesOperation, Waiting

LEMMA StepBooks == TypeInv /\ BooksInv /\ [Next]_vars => BooksInv'
<1> SUFFICES ASSUME TypeOK, WorldTypeOK, BooksInv, [Next]_vars PROVE BooksInv'
    BY DEF TypeInv, RuntimeTypeOK, WorldTypeOK
<1>0. run \in RunRecord /\ [run EXCEPT !.gen = @ + 1] \in RunRecord
      /\ [run EXCEPT !.gen = @ + 1].attemptsUsed = run.attemptsUsed
    BY DEF TypeOK, RunRecord
<1>1. CASE UNCHANGED storeVars
    BY <1>1, BooksUnchanged DEF storeVars, books
<1>2. CASE Start
  <2>1. run'.status = "RUNNING" /\ run'.attemptsUsed = run.attemptsUsed
        /\ "RUNNING" \in Successors(run.status)
    BY <1>0, <1>2, TransitionRow DEF Start, StartRunning
  <2>2. run.status = "CREATED"
    BY <2>1 DEF Successors, AfterWait, Waiting
  <2> QED BY <1>2, <2>1, <2>2 DEF Start, StartRunning, BooksInv, RunMatchesOperation, Waiting
<1>3. CASE Wait
  <2>1. run'.status = "WAITING_APPROVAL" /\ run'.attemptsUsed = run.attemptsUsed
        /\ "WAITING_APPROVAL" \in Successors(run.status)
    BY <1>0, <1>3, TransitionRow DEF Wait, EnterWait
  <2>2. run.status = "RUNNING"
    BY <2>1 DEF Successors, AfterWait, Waiting
  <2> QED BY <1>3, <2>1, <2>2 DEF Wait, EnterWait, BooksInv, RunMatchesOperation, Waiting
<1>4. CASE Schedule \/ ChangeContext \/ StarterStops \/ Observe \/ Tick
    BY <1>4, BooksUnchanged DEF Schedule, ScheduleTimer, ChangeContext, StarterStops, Observe,
                                Tick, storeVars, books
<1>5. ASSUME NEW p \in Workers, Worker(p) PROVE BooksInv'
  <2>1. CASE Claim(p)
    <3>1. run'.status = run.status /\ run'.attemptsUsed = run.attemptsUsed
      BY <1>0, <2>1 DEF Claim, ClaimLease, RunRecord
    <3> QED BY <2>1, <3>1, BooksUnchanged DEF Claim, ClaimLease, books
  <2>2. CASE Prepare(p)
    BY <2>2, PrepareBooks DEF Prepare
  <2>3. CASE MarkDispatched(procs[p])
    <3>1. run' = run /\ attempts' = attempts /\ op'.status = op.status /\ op'.attempt = op.attempt
      BY <2>3 DEF MarkDispatched, TypeOK, OperationRow
    <3> QED BY <3>1 DEF BooksInv, RunMatchesOperation
  <2>4. CASE Record(p) /\ RecordOperationResult(procs[p], procs[p].answer)
    BY <2>4, ResultBooks DEF Record, WorldTypeOK, AnswersTyped
  <2>5. CASE RecordReconciliation(procs[p].answer)
    BY <2>5, ReconciliationBooks
  <2>6. CASE UNCHANGED storeVars
    BY <1>1, <2>6
  <2> QED BY <1>5, <2>1, <2>2, <2>3, <2>4, <2>5, <2>6
      DEF Worker, Dispatch, Call, Record, Query, Reconcile, Crash, Redeliver
<1>6. CASE Recover \/ Verify
    BY <1>6, RecoverBooks, CompletionBooks DEF Recover, Verify
<1>7. ASSUME NEW e \in Events, Deliver(e) PROVE BooksInv'
    BY <1>7, EventBooks DEF Deliver
<1>8. ASSUME NEW r \in Receipts, Review(r) PROVE BooksInv'
    BY <1>8, BooksUnchanged DEF Review, PutApproval, books
<1>9. CASE UNCHANGED vars
    BY <1>1, <1>9 DEF vars, storeVars
<1> QED BY <1>1, <1>2, <1>3, <1>4, <1>5, <1>6, <1>7, <1>8, <1>9 DEF Next

LEMMA InitBooks == Init => BooksInv
    BY StoreAssumption DEF Init, StoreInit, BooksInv, RunMatchesOperation, Waiting

\* The tables of one run never disagree about its operation and its attempts.
THEOREM TablesAgree == Spec => []RunMatchesOperation
<1>1. BooksInv => RunMatchesOperation
    BY DEF BooksInv
<1> QED BY <1>1, InitTypes, StepTypes, InitBooks, StepBooks, PTL DEF Spec

\* A closed attempt receipt is never rewritten, whatever answer arrives late.
THEOREM ClosedReceiptsStay == Spec => ReceiptsAreFinal
<1>1. ASSUME TypeInv, BooksInv, [Next]_vars
      PROVE  [\A n \in 1..MaxAttempts :
                 attempts[n] \notin {"ABSENT", "STARTED"} => attempts'[n] = attempts[n]]_vars
  <2>0. TypeOK
    BY <1>1 DEF TypeInv, RuntimeTypeOK
  <2> SUFFICES ASSUME NEW n \in 1..MaxAttempts, attempts[n] \notin {"ABSENT", "STARTED"},
                      attempts' # attempts
               PROVE  attempts'[n] = attempts[n]
      OBVIOUS
  <2>1. ASSUME NEW w \in Workers, PrepareOperation(w) PROVE attempts'[n] = attempts[n]
    <3>1. attempts' = [attempts EXCEPT ![op.attempt + 1] = "STARTED"]
      BY <2>1 DEF PrepareOperation
    <3>2. n # op.attempt + 1
      BY <1>1, <2>0 DEF BooksInv, RunMatchesOperation, TypeOK, OperationRow
    <3> QED BY <2>0, <3>1, <3>2 DEF TypeOK
  <2>2. ASSUME NEW h, NEW a, RecordOperationResult(h, a) PROVE attempts'[n] = attempts[n]
    BY <2>0, <2>2 DEF RecordOperationResult, ResultCurrent, ActiveClaim, TypeOK
  <2>3. ASSUME RecoverExpiredInflight PROVE attempts'[n] = attempts[n]
    BY <2>0, <2>3 DEF RecoverExpiredInflight, TypeOK
  <2>4. ASSUME CloseUndispatched PROVE attempts'[n] = attempts[n]
    BY <2>0, <2>4 DEF CloseUndispatched, TypeOK
  <2>5. CASE UNCHANGED vars
    BY <2>5 DEF vars
  <2>6. ASSUME NEW p \in Workers, Worker(p) PROVE attempts'[n] = attempts[n]
    BY <2>1, <2>2, <2>6
    DEF Worker, Claim, ClaimLease, Prepare, Dispatch, MarkDispatched, Call, Record, Query,
        Reconcile, RecordReconciliation, Crash, Redeliver, storeVars
  <2>7. ASSUME NEW e \in Events, ProcessEvent(e) PROVE attempts'[n] = attempts[n]
    BY <2>4, <2>7 DEF ProcessEvent, ProcessApproval, ProcessTimer, ProcessControl, Dismiss
  <2>8. CASE Recover \/ Verify
    BY <2>3, <2>8 DEF Recover, Verify, CompleteAfterVerification
  <2> QED BY <1>1, <2>5, <2>6, <2>7, <2>8
      DEF Next, Start, StartRunning, Wait, EnterWait, Schedule, ScheduleTimer, StarterStops,
          Observe, Deliver, Review, PutApproval, ChangeContext, Tick, storeVars
<1> QED BY <1>1, InitTypes, StepTypes, InitBooks, StepBooks, PTL DEF Spec, ReceiptsAreFinal

-----------------------------------------------------------------------------
\* The kinds of steps, as far as the run row, the wait and the operation go.

SameIntents == run'.cancelReq = run.cancelReq /\ run'.manualReq = run.manualReq
SameRow == run'.approval = run.approval /\ SameIntents

SameWait ==
    /\ inbox' = inbox
    /\ timer'.policy = timer.policy /\ (timer'.status = "FIRED" <=> timer.status = "FIRED")
    /\ \A r \in Receipts : approvals'[r] = "CONSUMED" <=> approvals[r] = "CONSUMED"

Moves(s, t) == run.status = s /\ run'.status = t

Resting ==
    /\ run'.status = run.status /\ SameRow /\ SameWait
    /\ op'.status = op.status /\ (op.dispatched => op'.dispatched)

Starting ==
    /\ Moves("CREATED", "RUNNING") \/ Moves("RUNNING", "WAITING_APPROVAL")
    /\ SameRow /\ SameWait /\ op' = op

Claiming ==
    /\ Moves("READY_TO_RESUME", "EXECUTING") /\ SameRow /\ SameWait
    /\ run.approval # NoReceipt /\ op'.status = "IN_FLIGHT"

Answering(a) ==
    /\ Moves("EXECUTING", RunAfter(a, run.manualReq, run.cancelReq)) /\ SameRow /\ SameWait
    /\ op.status = "IN_FLIGHT" /\ op.dispatched /\ op'.status = OperationAfter(a)

Recovering ==
    /\ Moves("EXECUTING", "RECONCILING") /\ SameRow /\ SameWait
    /\ op.status = "IN_FLIGHT" /\ op'.status = "UNKNOWN_OUTCOME"

Settling ==
    /\ op.status = "UNKNOWN_OUTCOME" /\ SameRow /\ SameWait
    /\ \/ Moves("RECONCILING", "VERIFYING") /\ op'.status = "SUCCEEDED"
       \/ /\ \E t \in {"READY_TO_RESUME", "FAILED"} :
                Moves("RECONCILING", UnderIntent(run.manualReq, run.cancelReq, t))
          /\ op'.status = "CONFIRMED_NO_EFFECT"

Completing ==
    /\ Moves("VERIFYING", UnderIntent(run.manualReq, run.cancelReq, "COMPLETED"))
    /\ SameRow /\ SameWait
    /\ op.status = "SUCCEEDED" /\ op' = op /\ effect /\ ledger

SameTimer == timer' = timer
SameReceipts == approvals' = approvals

\* An event that is dismissed: nothing else changes.
Dismissed(e) ==
    /\ \E d \in {"STALE", "REJECTED"} : inbox' = [inbox EXCEPT ![e] = d]
    /\ run' = run /\ op' = op /\ attempts' = attempts /\ SameTimer /\ SameReceipts

Processes(e) == inbox' = [inbox EXCEPT ![e] = "PROCESSED"]

Approving(e) ==
    /\ e.type = "APPROVAL_AVAILABLE" /\ e.ref \in Receipts /\ ReceiptBound[e.ref]
    /\ Moves("WAITING_APPROVAL", "READY_TO_RESUME") /\ run'.approval = e.ref /\ SameIntents
    /\ approvals' = [approvals EXCEPT ![e.ref] = "CONSUMED"]
    /\ Processes(e) /\ SameTimer /\ op' = op

Rejecting(e) ==
    /\ e.type = "APPROVAL_REJECTED"
    /\ Moves("WAITING_APPROVAL", "REJECTED") /\ SameRow
    /\ Processes(e) /\ SameTimer /\ SameReceipts /\ op' = op

TimingOut(e) ==
    /\ e.type \in {"APPROVAL_TIMEOUT", "TIMER_FIRED"}
    /\ run.status \in Waiting /\ run'.status = TimeoutTarget(timer.policy) /\ SameRow
    /\ timer'.status = "FIRED" /\ timer'.policy = timer.policy
    /\ Processes(e) /\ SameReceipts /\ op' = op

Intending(e) ==
    /\ e.type \in {"CANCEL_REQUESTED", "MANUAL_TAKEOVER"} /\ EffectMayExist
    /\ run'.status = run.status /\ run'.approval = run.approval
    /\ Processes(e) /\ SameTimer /\ SameReceipts /\ op' = op

Ending(e) ==
    /\ e.type \in {"CANCEL_REQUESTED", "MANUAL_TAKEOVER"} /\ ~EffectMayExist
    /\ \E t \in {"CANCELLED", "MANUAL_CONTROL"} : run'.status = t /\ t \in Successors(run.status)
    /\ SameRow /\ Processes(e) /\ SameTimer /\ SameReceipts
    /\ op'.dispatched = op.dispatched
    /\ op'.status = IF op.status = "IN_FLIGHT" THEN "FAILED" ELSE op.status

Arriving(e) ==
    /\ ~Seen(e)
    /\ Dismissed(e) \/ Approving(e) \/ Rejecting(e) \/ TimingOut(e) \/ Intending(e) \/ Ending(e)

\* What an event does is one of the kinds.
LEMMA EventKinds ==
    ASSUME TypeOK, BooksInv, NEW e \in Events, ProcessEvent(e)
    PROVE  Arriving(e)
<1>0. /\ run \in RunRecord /\ op \in OperationRow
      /\ [run EXCEPT !.owner = NoWorker] \in RunRecord
      /\ [run EXCEPT !.owner = NoWorker].approval = run.approval
      /\ [run EXCEPT !.owner = NoWorker].cancelReq = run.cancelReq
      /\ [run EXCEPT !.owner = NoWorker].manualReq = run.manualReq
    BY DEF TypeOK, RunRecord
<1>1. ~Seen(e) BY DEF ProcessEvent
<1>2. ASSUME NEW d \in {"STALE", "REJECTED"}, Dismiss(e, d) PROVE Dismissed(e)
    BY <1>2 DEF Dismiss, InsertEvent, Dismissed, SameTimer, SameReceipts
<1>3. ASSUME ProcessApproval(e), e.type = "APPROVAL_AVAILABLE" PROVE Dismissed(e) \/ Approving(e)
  <2>1. CASE /\ run.status = "WAITING_APPROVAL" /\ Consumable(e)
             /\ approvals' = [approvals EXCEPT ![e.ref] = "CONSUMED"]
             /\ TransitionTo([run EXCEPT !.approval = e.ref], "READY_TO_RESUME")
             /\ InsertEvent(e, "PROCESSED")
             /\ UNCHANGED <<leaseLeft, timer, op, attempts>>
    <3>1. e.ref \in Receipts /\ ReceiptBound[e.ref]
      BY <2>1 DEF Consumable, ApprovalValid
    <3>2. /\ [run EXCEPT !.approval = e.ref] \in RunRecord
          /\ [run EXCEPT !.approval = e.ref].approval = e.ref
          /\ [run EXCEPT !.approval = e.ref].cancelReq = run.cancelReq
          /\ [run EXCEPT !.approval = e.ref].manualReq = run.manualReq
      BY <1>0, <3>1 DEF RunRecord
    <3>3. /\ run'.status = "READY_TO_RESUME" /\ run'.approval = e.ref
          /\ run'.cancelReq = run.cancelReq /\ run'.manualReq = run.manualReq
      BY <2>1, <3>2, TransitionRow
    <3> QED BY <1>3, <2>1, <3>1, <3>3
        DEF Approving, Moves, SameIntents, Processes, InsertEvent, SameTimer
  <2> QED BY <1>2, <1>3, <2>1 DEF ProcessApproval
<1>4. ASSUME EndRun(e, "REJECTED"), UNCHANGED <<op, attempts>>, e.type = "APPROVAL_REJECTED"
      PROVE  Dismissed(e) \/ Rejecting(e)
  <2>1. CASE TransitionTo([run EXCEPT !.owner = NoWorker], "REJECTED") /\ InsertEvent(e, "PROCESSED")
    <3>1. /\ run'.status = "REJECTED" /\ "REJECTED" \in Successors(run.status)
          /\ run'.approval = run.approval
          /\ run'.cancelReq = run.cancelReq /\ run'.manualReq = run.manualReq
      BY <1>0, <2>1, TransitionRow
    <3>2. run.status = "WAITING_APPROVAL"
      BY <3>1 DEF Successors, AfterWait, Waiting
    <3> QED BY <1>4, <2>1, <3>1, <3>2
        DEF Rejecting, Moves, SameRow, SameIntents, Processes, InsertEvent, SameTimer,
            SameReceipts, EndRun
  <2> QED BY <1>4, <2>1 DEF EndRun, Dismissed, InsertEvent, SameTimer, SameReceipts
<1>5. ASSUME ProcessTimer(e), e.type \in {"APPROVAL_TIMEOUT", "TIMER_FIRED"}
      PROVE  Dismissed(e) \/ TimingOut(e)
  <2>1. CASE /\ TimerDue(e) /\ run.status \in Waiting
             /\ TransitionTo(run, TimeoutTarget(timer.policy))
             /\ timer' = [timer EXCEPT !.status = "FIRED"]
             /\ InsertEvent(e, "PROCESSED")
             /\ UNCHANGED <<leaseLeft, approvals, op, attempts>>
    <3>1. /\ run'.status = TimeoutTarget(timer.policy) /\ run'.approval = run.approval
          /\ run'.cancelReq = run.cancelReq /\ run'.manualReq = run.manualReq
      BY <1>0, <2>1, TransitionRow
    <3>2. timer'.status = "FIRED" /\ timer'.policy = timer.policy
      BY <2>1 DEF TypeOK
    <3> QED BY <1>5, <2>1, <3>1, <3>2
        DEF TimingOut, SameRow, SameIntents, Processes, InsertEvent, SameReceipts
  <2> QED BY <1>2, <1>5, <2>1 DEF ProcessTimer
<1>6. ASSUME ProcessControl(e), ~StaleEvent(e), e.type \in {"CANCEL_REQUESTED", "MANUAL_TAKEOVER"}
      PROVE  Dismissed(e) \/ Intending(e) \/ Ending(e)
  <2>1. CASE EffectMayExist
    <3>1. /\ run' = WithIntent(e.type = "MANUAL_TAKEOVER") /\ InsertEvent(e, "PROCESSED")
          /\ UNCHANGED <<leaseLeft, approvals, timer, op, attempts>>
      BY <1>6, <2>1 DEF ProcessControl, UpdateInPlace
    <3>2. run'.status = run.status /\ run'.approval = run.approval
      BY <1>0, <3>1 DEF WithIntent, RunRecord
    <3> QED BY <1>6, <2>1, <3>1, <3>2 DEF Intending, Processes, InsertEvent, SameTimer, SameReceipts
  <2>2. ASSUME NEW t \in {"MANUAL_CONTROL", "CANCELLED"},
               ~EffectMayExist, CloseUndispatched, EndRun(e, t)
        PROVE  Dismissed(e) \/ Ending(e)
    <3>1. op.status = "IN_FLIGHT" => ~op.dispatched
      BY <2>2 DEF EffectMayExist, BooksInv, RunMatchesOperation
    <3>2. /\ op'.status = IF op.status = "IN_FLIGHT" THEN "FAILED" ELSE op.status
          /\ op'.dispatched = op.dispatched
      BY <1>0, <2>2, <3>1 DEF CloseUndispatched, OperationRow
    <3>3. CASE TransitionTo([run EXCEPT !.owner = NoWorker], t) /\ InsertEvent(e, "PROCESSED")
      <4>1. /\ run'.status = t /\ t \in Successors(run.status) /\ run'.approval = run.approval
            /\ run'.cancelReq = run.cancelReq /\ run'.manualReq = run.manualReq
        BY <1>0, <3>3, TransitionRow
      <4> QED BY <1>6, <2>2, <3>2, <3>3, <4>1
          DEF Ending, SameRow, SameIntents, Processes, InsertEvent, SameTimer, SameReceipts, EndRun
    <3>4. CASE ~CanMove(run.status, t) /\ InsertEvent(e, "STALE") /\ UNCHANGED run
      <4>1. run.status = "CREATED"
        BY <1>6, <3>4, <1>0
           DEF StaleEvent, CanMove, Successors, AfterWait, RunRecord, RunStatus, Waiting, Terminal
      <4>2. op.status = "ABSENT"
        BY <4>1 DEF BooksInv, RunMatchesOperation
      <4>3. op' = op /\ attempts' = attempts
        BY <2>2, <4>2 DEF CloseUndispatched, TypeOK
      <4> QED BY <2>2, <3>4, <4>3
          DEF Dismissed, InsertEvent, SameTimer, SameReceipts, EndRun
    <3> QED BY <2>2, <3>3, <3>4 DEF EndRun
  <2> QED BY <1>6, <2>1, <2>2 DEF ProcessControl
<1> QED BY <1>1, <1>2, <1>3, <1>4, <1>5, <1>6 DEF ProcessEvent, Admissible, Arriving

\* What any step does is one of the kinds.
LEMMA StepKinds ==
    ASSUME TypeInv, BooksInv, [Next]_vars
    PROVE  \/ Resting \/ Starting \/ Claiming \/ (\E a \in Answers : Answering(a))
           \/ Recovering \/ Settling \/ Completing
           \/ \E e \in Events : Arriving(e)
<1>0. /\ TypeOK /\ WorldTypeOK /\ run \in RunRecord /\ op \in OperationRow
      /\ timer \in [status: {"ABSENT", "PENDING", "FIRED"}, policy: TimeoutPolicies]
    BY DEF TypeInv, RuntimeTypeOK, TypeOK, WorldTypeOK
<1>1. ASSUME UNCHANGED storeVars PROVE Resting
    BY <1>1 DEF Resting, SameRow, SameIntents, SameWait, storeVars
<1>2. ASSUME NEW w \in Workers, ClaimLease(w) PROVE Resting
  <2>1. SameRow /\ run'.status = run.status
    BY <1>0, <1>2 DEF ClaimLease, RunRecord, SameRow, SameIntents
  <2> QED BY <1>2, <2>1 DEF ClaimLease, Resting, SameWait
<1>3. ASSUME NEW w \in Workers, PrepareOperation(w) PROVE Claiming
  <2>1. /\ ChargedRun.approval = run.approval /\ ChargedRun.cancelReq = run.cancelReq
        /\ ChargedRun.manualReq = run.manualReq
    BY <1>0 DEF ChargedRun, RunRecord
  <2>2. run' = [ChargedRun EXCEPT !.status = "EXECUTING"]
    BY <1>3 DEF PrepareOperation, TransitionTo
  <2>3. SameRow /\ run'.status = "EXECUTING"
    BY <1>0, <2>1, <2>2 DEF ChargedRun, RunRecord, SameRow, SameIntents
  <2> QED BY <1>3, <2>3 DEF PrepareOperation, Claiming, Moves, SameWait, AuthorityHolds
<1>4. ASSUME NEW h, MarkDispatched(h) PROVE Resting
    BY <1>0, <1>4 DEF MarkDispatched, OperationRow, Resting, SameRow, SameIntents, SameWait
<1>5. ASSUME NEW h, NEW a \in Answers, RecordOperationResult(h, a) PROVE Answering(a)
  <2>1. run'.status = RunAfter(a, run.manualReq, run.cancelReq) /\ SameRow
    BY <1>0, <1>5, TransitionRow DEF RecordOperationResult, SameRow, SameIntents
  <2>2. op'.status = OperationAfter(a)
    BY <1>0, <1>5 DEF RecordOperationResult, OperationRow
  <2> QED BY <1>5, <2>1, <2>2
      DEF RecordOperationResult, ResultCurrent, ActiveClaim, Answering, Moves, SameWait
<1>6. ASSUME RecoverExpiredInflight PROVE Recovering
  <2>1. run'.status = "RECONCILING" /\ SameRow
    BY <1>0, <1>6, TransitionRow DEF RecoverExpiredInflight, SameRow, SameIntents
  <2>2. op'.status = "UNKNOWN_OUTCOME"
    BY <1>0, <1>6 DEF RecoverExpiredInflight, OperationRow
  <2> QED BY <1>6, <2>1, <2>2 DEF RecoverExpiredInflight, Recovering, Moves, SameWait
<1>7. ASSUME NEW f, RecordReconciliation(f) PROVE Resting \/ Settling
  <2>0. /\ run.status = "RECONCILING" /\ op.status = "UNKNOWN_OUTCOME"
        /\ UNCHANGED <<leaseLeft, inbox, approvals, timer, attempts>> /\ SameWait
    BY <1>7 DEF RecordReconciliation, Reconciling, SameWait
  <2>1. CASE op' = [op EXCEPT !.status = "SUCCEEDED"] /\ TransitionTo(run, "VERIFYING")
    <3>1. run'.status = "VERIFYING" /\ SameRow
      BY <1>0, <2>1, TransitionRow DEF SameRow, SameIntents
    <3>2. op'.status = "SUCCEEDED" BY <1>0, <2>1 DEF OperationRow
    <3> QED BY <2>0, <3>1, <3>2 DEF Settling, Moves
  <2>2. ASSUME NEW t \in {"READY_TO_RESUME", "FAILED"},
               op' = [op EXCEPT !.status = "CONFIRMED_NO_EFFECT"],
               TransitionTo(run, UnderIntent(run.manualReq, run.cancelReq, t))
        PROVE  Settling
    <3>1. run'.status = UnderIntent(run.manualReq, run.cancelReq, t) /\ SameRow
      BY <1>0, <2>2, TransitionRow DEF SameRow, SameIntents
    <3>2. op'.status = "CONFIRMED_NO_EFFECT" BY <1>0, <2>2 DEF OperationRow
    <3> QED BY <2>0, <3>1, <3>2 DEF Settling, Moves
  <2>3. CASE UpdateInPlace(run) /\ UNCHANGED op
    BY <2>0, <2>3 DEF UpdateInPlace, Resting, SameRow, SameIntents
  <2> QED BY <1>7, <2>1, <2>2, <2>3 DEF RecordReconciliation
<1>8. ASSUME CompleteAfterVerification(effect, ledger) PROVE Completing
  <2>1. run'.status = UnderIntent(run.manualReq, run.cancelReq, "COMPLETED") /\ SameRow
    BY <1>0, <1>8, TransitionRow DEF CompleteAfterVerification, SameRow, SameIntents
  <2> QED BY <1>8, <2>1
      DEF CompleteAfterVerification, EffectVerified, Completing, Moves, SameWait
<1>9. ASSUME StartRunning \/ EnterWait PROVE Starting
  <2>0. /\ [run EXCEPT !.gen = @ + 1] \in RunRecord
        /\ [run EXCEPT !.gen = @ + 1].approval = run.approval
        /\ [run EXCEPT !.gen = @ + 1].cancelReq = run.cancelReq
        /\ [run EXCEPT !.gen = @ + 1].manualReq = run.manualReq
    BY <1>0 DEF RunRecord
  <2>1. CASE StartRunning
    <3>1. run'.status = "RUNNING" /\ SameRow /\ "RUNNING" \in Successors(run.status)
      BY <1>0, <2>1, TransitionRow DEF StartRunning, SameRow, SameIntents
    <3>2. run.status = "CREATED"
      BY <3>1 DEF Successors, AfterWait, Waiting
    <3> QED BY <2>1, <3>1, <3>2 DEF StartRunning, Starting, Moves, SameWait
  <2>2. CASE EnterWait
    <3>1. run'.status = "WAITING_APPROVAL" /\ SameRow /\ "WAITING_APPROVAL" \in Successors(run.status)
      BY <2>0, <2>2, TransitionRow DEF EnterWait, SameRow, SameIntents
    <3>2. run.status = "RUNNING"
      BY <3>1 DEF Successors, AfterWait, Waiting
    <3> QED BY <2>2, <3>1, <3>2 DEF EnterWait, Starting, Moves, SameWait
  <2> QED BY <1>9, <2>1, <2>2
<1>10. ASSUME ScheduleTimer PROVE Resting
    BY <1>0, <1>10 DEF ScheduleTimer, Resting, SameRow, SameIntents, SameWait
<1>11. ASSUME NEW r \in Receipts, PutApproval(r) PROVE Resting
  <2>1. \A x \in Receipts : approvals'[x] = "CONSUMED" <=> approvals[x] = "CONSUMED"
    BY <1>0, <1>11 DEF PutApproval, TypeOK
  <2> QED BY <1>11, <2>1 DEF PutApproval, Resting, SameRow, SameIntents, SameWait
<1>12. CASE Tick
    BY <1>12 DEF Tick, Resting, SameRow, SameIntents, SameWait
<1>13. ASSUME NEW e \in Events, ProcessEvent(e) PROVE Arriving(e)
    BY <1>0, <1>13, EventKinds
<1>14. ASSUME NEW p \in Workers, Worker(p)
       PROVE  \/ Resting \/ Claiming \/ (\E a \in Answers : Answering(a)) \/ Settling
  <2>1. CASE Record(p) /\ RecordOperationResult(procs[p], procs[p].answer)
    <3>1. procs[p].answer \in Answers
      BY <1>0, <2>1 DEF Record, WorldTypeOK, AnswersTyped
    <3> QED BY <1>5, <2>1, <3>1
  <2>2. CASE Claim(p) \/ Prepare(p)
    BY <1>2, <1>3, <2>2 DEF Claim, Prepare
  <2>3. CASE Dispatch(p)
    BY <1>1, <1>4, <2>3, Zenon DEF Dispatch
  <2>4. CASE Reconcile(p)
    BY <1>1, <1>7, <2>4, Zenon DEF Reconcile
  <2>5. CASE Record(p) /\ UNCHANGED storeVars
    BY <1>1, <2>5
  <2>6. CASE Call(p) \/ Query(p) \/ Crash(p) \/ \E q \in Workers : Redeliver(p, q)
    BY <1>1, <2>6 DEF Call, Query, Crash, Redeliver
  <2> QED BY <1>14, <2>1, <2>2, <2>3, <2>4, <2>5, <2>6 DEF Worker, Record
<1>15. CASE UNCHANGED vars
    BY <1>1, <1>15 DEF vars, storeVars
<1> QED
    BY <1>1, <1>6, <1>8, <1>9, <1>10, <1>11, <1>12, <1>13, <1>14, <1>15
    DEF Next, Start, Wait, Schedule, StarterStops, Recover, Observe, Verify, Deliver, Review,
        ChangeContext

-----------------------------------------------------------------------------
\* Intents.  An intent is only accepted when an effect may exist; in a run that
\* executes that is a dispatched claim, and it stays one.

Unsettled == {"EXECUTING", "RECONCILING", "VERIFYING"}
Intended == run.cancelReq \/ run.manualReq

IntentInv ==
    /\ IntentIsKept
    /\ Intended /\ run.status = "EXECUTING" => op.dispatched

\* A terminal status has no successor.
LEMMA TerminalIsFinal ==
    ASSUME NEW s \in Terminal PROVE Successors(s) = {}
    BY DEF Terminal, Successors, Waiting

LEMMA StepIntents ==
    ASSUME TypeInv, BooksInv, IntentInv, [Next]_vars
    PROVE  IntentInv'
<1>0. run \in RunRecord /\ run.manualReq \in BOOLEAN /\ run.cancelReq \in BOOLEAN
    BY DEF TypeInv, RuntimeTypeOK, TypeOK, RunRecord
<1> DEFINE Kept == /\ Intended => run.status \in Unsettled \cup {"CANCELLED", "MANUAL_CONTROL"}
                   /\ run.manualReq /\ run.status \in Terminal => run.status = "MANUAL_CONTROL"
                   /\ Intended /\ run.status = "EXECUTING" => op.dispatched
<1>1. Kept
    BY Zenon DEF IntentInv, IntentIsKept, Intended, Unsettled
<1>2. Kept' => IntentInv'
    BY Zenon DEF IntentInv, IntentIsKept, Intended, Unsettled
<1>3. CASE Resting
    BY <1>1, <1>2, <1>3, Zenon DEF Resting, SameRow, SameIntents, Intended
<1>4. CASE Starting \/ Claiming
  <2>1. ~Intended'
    BY <1>1, <1>4 DEF Starting, Claiming, Moves, SameRow, SameIntents, Intended, Unsettled
  <2> QED BY <1>2, <2>1 DEF Intended
<1>5. ASSUME NEW t \in {"READY_TO_RESUME", "FAILED", "COMPLETED"}, SameIntents,
             run'.status = UnderIntent(run.manualReq, run.cancelReq, t)
      PROVE  IntentInv'
  <2>1. CASE run.manualReq
    BY <1>2, <1>5, <2>1 DEF UnderIntent, Intended
  <2>2. CASE ~run.manualReq /\ run.cancelReq
    BY <1>2, <1>5, <2>2 DEF UnderIntent, Intended, SameIntents
  <2>3. CASE ~run.manualReq /\ ~run.cancelReq
    BY <1>2, <1>5, <2>3 DEF Intended, SameIntents
  <2> QED BY <2>1, <2>2, <2>3
<1>6. ASSUME SameIntents, run'.status \in {"VERIFYING", "RECONCILING"}
      PROVE  IntentInv'
    BY <1>2, <1>6 DEF Unsettled, Terminal
<1>7. ASSUME NEW a \in Answers, Answering(a) PROVE IntentInv'
  <2>1. \/ run'.status \in {"VERIFYING", "RECONCILING"}
        \/ \E t \in {"READY_TO_RESUME", "FAILED"} :
              run'.status = UnderIntent(run.manualReq, run.cancelReq, t)
    BY <1>7 DEF Answering, Moves, RunAfter
  <2> QED BY <1>5, <1>6, <1>7, <2>1 DEF Answering, SameRow
<1>8. CASE Recovering \/ Settling \/ Completing
    BY <1>5, <1>6, <1>8 DEF Recovering, Settling, Completing, Moves, SameRow
<1>9. ASSUME NEW e \in Events, Arriving(e) PROVE IntentInv'
  <2>1. CASE Dismissed(e)
    BY <1>1, <1>2, <2>1, Zenon DEF Dismissed, Intended
  <2>2. CASE Approving(e) \/ Rejecting(e) \/ TimingOut(e)
    <3>1. ~Intended'
      BY <1>1, <2>2
         DEF Approving, Rejecting, TimingOut, Moves, SameRow, SameIntents, Intended, Unsettled, Waiting
    <3> QED BY <1>2, <3>1 DEF Intended
  <2>3. CASE Intending(e)
    <3>1. /\ run'.status \in Unsettled
          /\ run'.status = "EXECUTING" => op'.dispatched
      BY <2>3 DEF Intending, EffectMayExist, Unsettled, BooksInv, RunMatchesOperation
    <3> QED BY <1>2, <3>1 DEF Unsettled, Terminal
  <2>4. CASE Ending(e)
    <3>1. run.status \notin {"CANCELLED", "MANUAL_CONTROL"}
      BY <2>4, TerminalIsFinal DEF Ending, Terminal
    <3>2. ~Intended
      BY <1>1, <2>4, <3>1 DEF Ending, EffectMayExist, Unsettled, BooksInv, RunMatchesOperation
    <3>3. ~Intended'
      BY <2>4, <3>2 DEF Ending, SameRow, SameIntents, Intended
    <3> QED BY <1>2, <3>3 DEF Intended
  <2> QED BY <1>9, <2>1, <2>2, <2>3, <2>4 DEF Arriving
<1> QED BY <1>3, <1>4, <1>7, <1>8, <1>9, StepKinds

-----------------------------------------------------------------------------
\* Completion.  A closed run keeps its row; the operation of a completed one is
\* settled, and nobody forgets the effect.

CompletionInv == BooksInv /\ IntentInv /\ CompletedMeansEffect

\* The provider and the ledger never forget.
LEMMA EffectsStay ==
    ASSUME TypeInv, [Next]_vars
    PROVE  (effect => effect') /\ (ledger => ledger')
<1>1. ASSUME NEW p \in Workers, Worker(p) PROVE (effect => effect') /\ (ledger => ledger')
  <2>1. CASE Call(p)
    BY <2>1, Zenon DEF Call
  <2>2. ASSUME UNCHANGED world PROVE (effect => effect') /\ (ledger => ledger')
    BY <2>2 DEF world
  <2>3. CASE Claim(p) \/ Prepare(p) \/ Dispatch(p) \/ Record(p)
    BY <2>2, <2>3, Zenon DEF Claim, Prepare, Dispatch, Record
  <2>4. CASE Query(p) \/ Reconcile(p) \/ Crash(p) \/ \E q \in Workers : Redeliver(p, q)
    BY <2>4, <2>2 DEF Query, Reconcile, Crash, Redeliver
  <2> QED BY <1>1, <2>1, <2>3, <2>4, Zenon DEF Worker
<1>2. CASE \/ Start \/ Wait \/ Schedule \/ StarterStops \/ Recover \/ Observe \/ Verify
           \/ \E e \in Events : Deliver(e)
           \/ \E r \in Receipts : Review(r)
           \/ ChangeContext \/ Tick \/ UNCHANGED vars
    BY <1>2 DEF Start, Wait, Schedule, StarterStops, Recover, Observe, Verify, Deliver, Review,
                ChangeContext, Tick, world, vars
<1> QED BY <1>1, <1>2, Zenon DEF Next

LEMMA StepCompletion ==
    ASSUME TypeInv, CompletionInv, [Next]_vars
    PROVE  CompletedMeansEffect'
<1>0. BooksInv /\ IntentInv /\ CompletedMeansEffect
    BY DEF CompletionInv
<1>1. (effect => effect') /\ (ledger => ledger')
    BY EffectsStay
<1> SUFFICES ASSUME run'.status = "COMPLETED"
             PROVE  (effect /\ ledger /\ op.status = "SUCCEEDED" /\ ~run.cancelReq /\ ~run.manualReq)'
    BY Zenon DEF CompletedMeansEffect
<1>2. CASE run.status = "COMPLETED" /\ (Resting \/ \E e \in Events : Dismissed(e))
  <2>1. effect /\ ledger /\ op.status = "SUCCEEDED" /\ ~run.cancelReq /\ ~run.manualReq
    BY <1>0, <1>2, Zenon DEF CompletedMeansEffect
  <2> QED BY <1>1, <1>2, <2>1, Zenon DEF Resting, Dismissed, SameRow, SameIntents
<1>3. CASE Completing
  <2>1. ~run.manualReq /\ ~run.cancelReq
    BY <1>3 DEF Completing, Moves, UnderIntent
  <2> QED BY <1>1, <1>3, <2>1, Zenon DEF Completing, SameRow, SameIntents
<1>4. ~Starting /\ ~Claiming /\ ~Recovering
    BY DEF Starting, Claiming, Recovering, Moves
<1>5. ~Settling
    BY DEF Settling, Moves, UnderIntent
<1>6. ASSUME NEW a \in Answers, Answering(a) PROVE FALSE
    BY <1>6 DEF Answering, Moves, RunAfter, UnderIntent
<1>7. ASSUME NEW e \in Events PROVE ~Approving(e) /\ ~Rejecting(e) /\ ~Ending(e)
    BY DEF Approving, Rejecting, Ending, Moves
<1>8. ASSUME NEW e \in Events PROVE ~TimingOut(e)
  <2>1. timer.policy \in {"EXPIRE", "ESCALATE", "CANCEL"}
    BY StoreAssumption DEF TypeInv, RuntimeTypeOK, TypeOK
  <2> QED BY <2>1 DEF TimingOut, TimeoutTarget
<1>9. ASSUME NEW e \in Events PROVE ~Intending(e)
    BY DEF Intending, EffectMayExist
<1>10. ASSUME Resting PROVE run.status = "COMPLETED"
    BY <1>10 DEF Resting
<1>11. ASSUME NEW e \in Events, Dismissed(e) PROVE run.status = "COMPLETED"
    BY <1>11 DEF Dismissed
<1> QED
    BY <1>0, <1>2, <1>3, <1>4, <1>5, <1>6, <1>7, <1>8, <1>9, <1>10, <1>11, StepKinds, Zenon
    DEF Arriving

-----------------------------------------------------------------------------
\* Authority.  A receipt is spent before anything is claimed, a claim is made
\* before anything is called, and no run leaves the way it took for a rejection
\* or a timeout.

Early == {"CREATED", "RUNNING"} \cup Waiting

AuthorityInv ==
    /\ run.approval # NoReceipt =>
          /\ run.approval \in Receipts /\ ReceiptBound[run.approval]
          /\ approvals[run.approval] = "CONSUMED"
          /\ timer.status # "FIRED"
          /\ run.status \notin Early \cup {"REJECTED", "EXPIRED", "ESCALATED"}
    /\ op.status # "ABSENT" => run.approval # NoReceipt
    /\ timer.status = "FIRED" => run.status = TimeoutTarget(timer.policy)
    /\ \A p \in Workers :
          procs[p].pc \in {"prepared", "dispatched", "answered"} => op.status # "ABSENT"
    /\ effect => op.status # "ABSENT"

\* The row of an operation is never removed.
LEMMA OperationsStay ==
    ASSUME TypeInv, BooksInv, [Next]_vars, op.status # "ABSENT"
    PROVE  op'.status # "ABSENT"
<1>1. ASSUME NEW a \in Answers, Answering(a) PROVE op'.status # "ABSENT"
    BY <1>1 DEF Answering, OperationAfter
<1>2. ASSUME NEW e \in Events, Arriving(e) PROVE op'.status # "ABSENT"
    BY <1>2 DEF Arriving, Dismissed, Approving, Rejecting, TimingOut, Intending, Ending
<1> QED BY <1>1, <1>2, StepKinds DEF Resting, Starting, Claiming, Recovering, Settling, Completing

\* Where a wait that timed out goes is the end of its run.
LEMMA TimeoutsEnd ==
    ASSUME TypeOK
    PROVE  TimeoutTarget(timer.policy) \in {"EXPIRED", "ESCALATED", "CANCELLED"}
    BY StoreAssumption DEF TypeOK, TimeoutTarget

\* The receipt a run carries stays as it is, unless it is bound by this step.
LEMMA StepReceipts ==
    ASSUME TypeInv, BooksInv, AuthorityInv, [Next]_vars
    PROVE  /\ run'.approval # NoReceipt =>
                 /\ run'.approval \in Receipts /\ ReceiptBound[run'.approval]
                 /\ approvals'[run'.approval] = "CONSUMED"
                 /\ timer'.status # "FIRED"
                 /\ run'.status \notin Early \cup {"REJECTED", "EXPIRED", "ESCALATED"}
           /\ op'.status # "ABSENT" => run'.approval # NoReceipt
           /\ timer'.status = "FIRED" => run'.status = TimeoutTarget(timer'.policy)
<1> DEFINE Goal == /\ run'.approval # NoReceipt =>
                         /\ run'.approval \in Receipts /\ ReceiptBound[run'.approval]
                         /\ approvals'[run'.approval] = "CONSUMED"
                         /\ timer'.status # "FIRED"
                         /\ run'.status \notin Early \cup {"REJECTED", "EXPIRED", "ESCALATED"}
                   /\ op'.status # "ABSENT" => run'.approval # NoReceipt
                   /\ timer'.status = "FIRED" => run'.status = TimeoutTarget(timer'.policy)
<1>0. /\ run.approval # NoReceipt =>
            /\ run.approval \in Receipts /\ ReceiptBound[run.approval]
            /\ approvals[run.approval] = "CONSUMED"
            /\ timer.status # "FIRED"
            /\ run.status \notin Early \cup {"REJECTED", "EXPIRED", "ESCALATED"}
      /\ op.status # "ABSENT" => run.approval # NoReceipt
      /\ timer.status = "FIRED" => run.status = TimeoutTarget(timer.policy)
    BY DEF AuthorityInv
<1>t. TimeoutTarget(timer.policy) \in {"EXPIRED", "ESCALATED", "CANCELLED"} /\ TypeOK
    BY TimeoutsEnd DEF TypeInv, RuntimeTypeOK
<1>1. ASSUME Resting PROVE Goal
    BY <1>0, <1>1 DEF Resting, SameRow, SameWait
<1>2. ASSUME Starting PROVE Goal
  <2>1. run.approval = NoReceipt /\ op.status = "ABSENT"
    BY <1>0, <1>2 DEF Starting, Moves, Early, Waiting
  <2>2. timer.status # "FIRED"
    BY <1>0, <1>2, <1>t DEF Starting, Moves
  <2> QED BY <1>2, <2>1, <2>2 DEF Starting, SameRow, SameWait
\* Past the wait: whatever the worker does next, it does not go back to it.
<1>3. ASSUME run.status \in {"READY_TO_RESUME"} \cup Unsettled,
             run'.status \notin Early \cup {"REJECTED", "EXPIRED", "ESCALATED"},
             SameRow, SameWait, op'.status # "ABSENT" => run.approval # NoReceipt
      PROVE  Goal
  <2>1. timer.status # "FIRED"
    BY <1>0, <1>3, <1>t DEF Unsettled
  <2> QED BY <1>0, <1>3, <2>1 DEF SameRow, SameWait
<1>4. ASSUME NEW a \in Answers, Answering(a) PROVE Goal
  <2>1. run'.status \notin Early \cup {"REJECTED", "EXPIRED", "ESCALATED"}
    BY <1>4 DEF Answering, Moves, RunAfter, UnderIntent, Early, Waiting
  <2> QED BY <1>0, <1>3, <1>4, <2>1 DEF Answering, Moves, Unsettled
<1>5. ASSUME Claiming \/ Recovering PROVE Goal
  <2>1. run'.status \notin Early \cup {"REJECTED", "EXPIRED", "ESCALATED"}
    BY <1>5 DEF Claiming, Recovering, Moves, Early, Waiting
  <2> QED BY <1>0, <1>3, <1>5, <2>1 DEF Claiming, Recovering, Moves, Unsettled
<1>6. ASSUME Settling \/ Completing PROVE Goal
  <2>1. run'.status \notin Early \cup {"REJECTED", "EXPIRED", "ESCALATED"}
    BY <1>6 DEF Settling, Completing, Moves, UnderIntent, Early, Waiting
  <2> QED BY <1>0, <1>3, <1>6, <2>1 DEF Settling, Completing, Moves, Unsettled
<1>7. ASSUME NEW e \in Events, Arriving(e) PROVE Goal
  <2>1. CASE Dismissed(e)
    BY <1>0, <2>1 DEF Dismissed, SameTimer, SameReceipts
  <2>2. CASE Approving(e)
    <3>1. timer.status # "FIRED" /\ e.ref # NoReceipt
      BY <1>0, <1>t, <2>2, StoreAssumption DEF Approving, Moves
    <3>2. approvals'[e.ref] = "CONSUMED"
      BY <1>t, <2>2 DEF Approving, TypeOK
    <3> QED BY <2>2, <3>1, <3>2 DEF Approving, Moves, SameTimer, Early, Waiting
  <2>3. CASE Rejecting(e) \/ TimingOut(e)
    <3>1. run.status \in Waiting
      BY <2>3 DEF Rejecting, TimingOut, Moves, Waiting
    <3>2. run.approval = NoReceipt /\ op.status = "ABSENT"
      BY <1>0, <3>1 DEF Early
    <3>3. timer.status # "FIRED"
      BY <1>0, <1>t, <3>1 DEF Waiting
    <3> QED BY <2>3, <3>2, <3>3 DEF Rejecting, TimingOut, SameRow, SameTimer
  <2>4. CASE Intending(e)
    BY <1>0, <2>4 DEF Intending, SameTimer, SameReceipts
  <2>5. CASE Ending(e)
    <3>1. timer.status # "FIRED"
      BY <1>0, <1>t, <2>5, TerminalIsFinal DEF Ending, Terminal
    <3> QED BY <1>0, <2>5, <3>1 DEF Ending, SameRow, SameTimer, SameReceipts, Early, Waiting
  <2> QED BY <1>7, <2>1, <2>2, <2>3, <2>4, <2>5 DEF Arriving
<1> HIDE DEF Goal
<1>8. Goal
    BY <1>1, <1>2, <1>4, <1>5, <1>6, <1>7, StepKinds
<1> QED BY <1>8 DEF Goal

\* Whoever holds a claim, or has called, did so on a row of the operation.
LEMMA StepClaims ==
    ASSUME TypeInv, BooksInv, AuthorityInv, [Next]_vars
    PROVE  /\ \A p \in Workers :
                 procs'[p].pc \in {"prepared", "dispatched", "answered"} => op'.status # "ABSENT"
           /\ effect' => op'.status # "ABSENT"
<1>0. /\ procs \in [Workers -> ProcState]
      /\ \A p \in Workers :
            procs[p].pc \in {"prepared", "dispatched", "answered"} => op.status # "ABSENT"
      /\ effect => op.status # "ABSENT"
    BY DEF TypeInv, RuntimeTypeOK, AuthorityInv
<1>1. op.status # "ABSENT" => op'.status # "ABSENT"
    BY OperationsStay
<1>2. CASE UNCHANGED <<procs, effect>>
    BY <1>0, <1>1, <1>2
<1>3. ASSUME NEW p \in Workers, NEW s, Goto(p, s), UNCHANGED effect,
             s.pc \in {"prepared", "dispatched", "answered"} => op'.status # "ABSENT"
      PROVE  /\ \A q \in Workers :
                   procs'[q].pc \in {"prepared", "dispatched", "answered"} => op'.status # "ABSENT"
             /\ effect' => op'.status # "ABSENT"
    BY <1>0, <1>1, <1>3 DEF Goto
<1>4. ASSUME NEW p \in Workers, Worker(p)
      PROVE  /\ \A q \in Workers :
                   procs'[q].pc \in {"prepared", "dispatched", "answered"} => op'.status # "ABSENT"
             /\ effect' => op'.status # "ABSENT"
  <2>1. CASE Claim(p)
    BY <1>2, <2>1 DEF Claim, world
  <2>2. CASE Prepare(p)
    <3>1. op'.status # "ABSENT" BY <2>2 DEF Prepare, PrepareOperation
    <3> QED BY <1>3, <2>2, <3>1 DEF Prepare, world
  <2>3. CASE Dispatch(p)
    <3>1. op'.status # "ABSENT" BY <1>0, <1>1, <2>3 DEF Dispatch
    <3> QED BY <1>3, <2>3, <3>1 DEF Dispatch, world
  <2>4. CASE Call(p)
    <3>1. op'.status # "ABSENT" BY <1>0, <1>1, <2>4 DEF Call
    <3> QED BY <3>1
  <2>5. CASE Record(p) \/ Reconcile(p) \/ Crash(p)
    BY <1>3, <2>5 DEF Record, Reconcile, Crash, Idle, world
  <2>6. CASE Query(p)
    <3>1. op'.status # "ABSENT" BY <1>1, <2>6 DEF Query
    <3> QED BY <3>1
  <2>7. ASSUME NEW q \in Workers, Redeliver(p, q)
        PROVE  op'.status # "ABSENT"
    BY <1>0, <1>1, <2>7 DEF Redeliver
  <2> QED BY <1>4, <2>1, <2>2, <2>3, <2>4, <2>5, <2>6, <2>7 DEF Worker
<1>5. CASE Observe \/ StarterStops \/ Start \/ Wait \/ Schedule \/ Recover \/ Verify
    BY <1>2, <1>5 DEF Observe, StarterStops, Start, Wait, Schedule, Recover, Verify, world
<1>6. CASE \/ \E e \in Events : Deliver(e)
           \/ \E r \in Receipts : Review(r)
           \/ ChangeContext \/ Tick \/ UNCHANGED vars
    BY <1>2, <1>6 DEF Deliver, Review, ChangeContext, Tick, world, vars
<1> QED BY <1>4, <1>5, <1>6 DEF Next

LEMMA StepAuthority == TypeInv /\ BooksInv /\ AuthorityInv /\ [Next]_vars => AuthorityInv'
    BY StepReceipts, StepClaims DEF AuthorityInv

-----------------------------------------------------------------------------
\* Waits.  Before a wait has ended no ending of it is processed; the first one
\* takes the run out of the statuses in which a second could be.

WaitInv ==
    /\ EveryWaitHasOneEnding
    /\ run.status \in Early => Processed(WaitEnding) = {}

\* What processing or dismissing an unseen event adds to the processed ones.
LEMMA ProcessedStep ==
    ASSUME TypeOK, NEW e \in Events, ~Seen(e), NEW types
    PROVE  /\ inbox[e] = "ABSENT"
           /\ Processes(e) => Processed(types)' = IF e.type \in types THEN Processed(types) \cup {e}
                                                                    ELSE Processed(types)
           /\ \A d \in {"STALE", "REJECTED"} :
                 inbox' = [inbox EXCEPT ![e] = d] => Processed(types)' = Processed(types)
<1>1. inbox[e] = "ABSENT"
    BY DEF Seen
<1>2. ASSUME Processes(e)
      PROVE  Processed(types)' = IF e.type \in types THEN Processed(types) \cup {e}
                                                     ELSE Processed(types)
    BY <1>1, <1>2 DEF Processes, Processed, TypeOK
<1>3. ASSUME NEW d \in {"STALE", "REJECTED"}, inbox' = [inbox EXCEPT ![e] = d]
      PROVE  Processed(types)' = Processed(types)
    BY <1>1, <1>3 DEF Processed, TypeOK
<1> QED BY <1>1, <1>2, <1>3

\* A step that admits no event moves no run into a wait or a rejection.
QuietForWaits ==
    /\ SameRow /\ SameWait
    /\ run'.status = "REJECTED" <=> run.status = "REJECTED"
    /\ run'.status \in Early => run.status \in Early

LEMMA QuietOrArriving ==
    ASSUME TypeInv, BooksInv, [Next]_vars
    PROVE  QuietForWaits \/ \E e \in Events : Arriving(e)
<1>1. ASSUME Resting PROVE QuietForWaits
    BY <1>1 DEF Resting, QuietForWaits
<1>2. ASSUME Starting PROVE QuietForWaits
    BY <1>2 DEF Starting, Moves, QuietForWaits, Early, Waiting
<1>3. ASSUME NEW a \in Answers, Answering(a) PROVE QuietForWaits
    BY <1>3 DEF Answering, Moves, RunAfter, UnderIntent, QuietForWaits, Early, Waiting
<1>4. ASSUME Claiming \/ Recovering PROVE QuietForWaits
    BY <1>4 DEF Claiming, Recovering, Moves, QuietForWaits, Early, Waiting
<1>5. ASSUME Settling \/ Completing PROVE QuietForWaits
    BY <1>5 DEF Settling, Completing, Moves, UnderIntent, QuietForWaits, Early, Waiting
<1> QED BY <1>1, <1>2, <1>3, <1>4, <1>5, StepKinds

\* A delivery already admitted is seen; so no two rows are of one delivery.
LEMMA StepAdmissions ==
    ASSUME TypeInv, BooksInv, DeliveriesAdmittedOnce, [Next]_vars
    PROVE  DeliveriesAdmittedOnce'
<1>1. CASE inbox' = inbox
    BY <1>1 DEF DeliveriesAdmittedOnce
<1>2. ASSUME NEW e \in Events, ~Seen(e), NEW d, inbox' = [inbox EXCEPT ![e] = d]
      PROVE  DeliveriesAdmittedOnce'
  <2>1. \A f \in Events : f # e => inbox'[f] = inbox[f]
    BY <1>2 DEF TypeInv, RuntimeTypeOK, TypeOK
  <2>2. \A f \in Events : f # e /\ inbox[f] # "ABSENT" => ~(e.src = f.src /\ e.sid = f.sid)
    BY <1>2 DEF Seen
  <2> QED BY <2>1, <2>2 DEF DeliveriesAdmittedOnce
<1>3. QuietForWaits => inbox' = inbox
    BY DEF QuietForWaits, SameWait
<1>4. ASSUME NEW e \in Events, Arriving(e) PROVE DeliveriesAdmittedOnce'
    BY <1>2, <1>4 DEF Arriving, Dismissed, Approving, Rejecting, TimingOut, Intending, Ending, Processes
<1> QED BY <1>1, <1>3, <1>4, QuietOrArriving

\* The facts WaitEndsOnce relates, as equivalences.
WaitFacts ==
    /\ Cardinality(Processed(WaitEnding)) <= 1
    /\ run.approval # NoReceipt <=> Processed({"APPROVAL_AVAILABLE"}) # {}
    /\ \A r \in Receipts : approvals[r] = "CONSUMED" => r = run.approval
    /\ run.status = "REJECTED" <=> Processed({"APPROVAL_REJECTED"}) # {}
    /\ timer.status = "FIRED" <=> Processed({"APPROVAL_TIMEOUT", "TIMER_FIRED"}) # {}
    /\ timer.status = "FIRED" => run.status = TimeoutTarget(timer.policy)

LEMMA WaitFactsSame == (WaitEndsOnce <=> WaitFacts) /\ (WaitEndsOnce' <=> WaitFacts')
    BY DEF WaitEndsOnce, WaitFacts

\* Every kind of ending is an ending.
LEMMA EndingsAreEndings ==
    ASSUME Processed(WaitEnding) = {}
    PROVE  /\ Processed({"APPROVAL_AVAILABLE"}) = {}
           /\ Processed({"APPROVAL_REJECTED"}) = {}
           /\ Processed({"APPROVAL_TIMEOUT", "TIMER_FIRED"}) = {}
    BY DEF Processed, WaitEnding

LEMMA StepWaits ==
    ASSUME TypeInv, BooksInv, AuthorityInv, WaitInv, [Next]_vars
    PROVE  WaitInv'
<1>0. /\ WaitFacts /\ DeliveriesAdmittedOnce' /\ AuthorityInv' /\ TypeOK
      /\ run.status \in Early => Processed(WaitEnding) = {}
    BY WaitFactsSame, StepAdmissions, StepAuthority
       DEF WaitInv, EveryWaitHasOneEnding, TypeInv, RuntimeTypeOK
<1> DEFINE Goal == WaitFacts' /\ (run'.status \in Early => Processed(WaitEnding)' = {})
<1>t. timer'.status = "FIRED" => run'.status = TimeoutTarget(timer'.policy)
    BY <1>0 DEF AuthorityInv
<1>1. ASSUME QuietForWaits PROVE Goal
  <2>1. \A types : Processed(types)' = Processed(types)
    BY <1>1 DEF QuietForWaits, SameWait, Processed
  <2>2. run'.approval = run.approval /\ (timer'.status = "FIRED" <=> timer.status = "FIRED")
        /\ \A r \in Receipts : approvals'[r] = "CONSUMED" <=> approvals[r] = "CONSUMED"
    BY <1>1 DEF QuietForWaits, SameWait, SameRow
  <2>3. WaitFacts'
    BY <1>0, <1>1, <1>t, <2>1, <2>2 DEF WaitFacts, QuietForWaits
  <2> QED BY <1>0, <1>1, <2>1, <2>3 DEF QuietForWaits
<1>3. ASSUME NEW e \in Events, ~Seen(e), Dismissed(e) PROVE Goal
  <2>1. \A types : Processed(types)' = Processed(types)
    BY <1>0, <1>3, ProcessedStep DEF Dismissed
  <2>2. WaitFacts'
    BY <1>0, <1>3, <2>1 DEF WaitFacts, Dismissed, SameTimer, SameReceipts
  <2> QED BY <1>0, <1>3, <2>1, <2>2 DEF Dismissed
\* The first ending of a wait.
<1>4. ASSUME NEW e \in Events, ~Seen(e), Processes(e), run.status \in Early, e.type \in WaitEnding
      PROVE  /\ Processed(WaitEnding)' = {e} /\ Cardinality(Processed(WaitEnding)') = 1
             /\ \A types : Processed(types) = {}
                    => Processed(types)' = IF e.type \in types THEN {e} ELSE {}
             /\ run.approval = NoReceipt /\ timer.status # "FIRED"
             /\ \A r \in Receipts : approvals[r] # "CONSUMED"
             /\ Processed({"APPROVAL_AVAILABLE"}) = {}
             /\ Processed({"APPROVAL_REJECTED"}) = {}
             /\ Processed({"APPROVAL_TIMEOUT", "TIMER_FIRED"}) = {}
  <2>1. Processed(WaitEnding) = {}
    BY <1>0, <1>4
  <2>2. Processed(WaitEnding)' = {e}
    BY <1>0, <1>4, <2>1, ProcessedStep
  <2>3. Cardinality(Processed(WaitEnding)') = 1
    BY <2>2, FS_Singleton
  <2>4. /\ Processed({"APPROVAL_AVAILABLE"}) = {} /\ Processed({"APPROVAL_REJECTED"}) = {}
        /\ Processed({"APPROVAL_TIMEOUT", "TIMER_FIRED"}) = {}
    BY <2>1, EndingsAreEndings
  <2>5. run.approval = NoReceipt /\ timer.status # "FIRED"
        /\ \A r \in Receipts : approvals[r] # "CONSUMED"
    BY <1>0, <2>4, StoreAssumption DEF WaitFacts
  <2>6. ASSUME NEW types, Processed(types) = {}
        PROVE  Processed(types)' = IF e.type \in types THEN {e} ELSE {}
    BY <1>0, <1>4, <2>6, ProcessedStep
  <2> QED BY <2>2, <2>3, <2>4, <2>5, <2>6
<1>5. ASSUME NEW e \in Events, ~Seen(e), Approving(e) PROVE Goal
  <2>1. /\ Processes(e) /\ run.status \in Early /\ e.type \in WaitEnding
        /\ e.type = "APPROVAL_AVAILABLE" /\ e.ref # NoReceipt
        /\ run'.status = "READY_TO_RESUME" /\ run'.approval = e.ref /\ timer' = timer
        /\ approvals' = [approvals EXCEPT ![e.ref] = "CONSUMED"]
    BY <1>5, StoreAssumption DEF Approving, Moves, Early, Waiting, WaitEnding, SameTimer
  <2>2. /\ Processed({"APPROVAL_AVAILABLE"})' = {e} /\ Processed({"APPROVAL_REJECTED"})' = {}
        /\ Processed({"APPROVAL_TIMEOUT", "TIMER_FIRED"})' = {}
        /\ Cardinality(Processed(WaitEnding)') = 1 /\ timer.status # "FIRED"
    BY <1>4, <1>5, <2>1
  <2>3. \A r \in Receipts : approvals'[r] = "CONSUMED" => r = e.ref
    BY <1>0, <1>4, <1>5, <2>1 DEF TypeOK
  <2>4. WaitFacts'
    BY <2>1, <2>2, <2>3 DEF WaitFacts
  <2> QED BY <2>1, <2>4 DEF Early, Waiting
<1>6. ASSUME NEW e \in Events, ~Seen(e), Rejecting(e) PROVE Goal
  <2>1. /\ Processes(e) /\ run.status \in Early /\ e.type \in WaitEnding
        /\ e.type = "APPROVAL_REJECTED" /\ run'.approval = run.approval
        /\ run'.status = "REJECTED" /\ timer' = timer /\ approvals' = approvals
    BY <1>6 DEF Rejecting, Moves, Early, Waiting, WaitEnding, SameTimer, SameReceipts, SameRow
  <2>2. /\ Processed({"APPROVAL_AVAILABLE"})' = {} /\ Processed({"APPROVAL_REJECTED"})' = {e}
        /\ Processed({"APPROVAL_TIMEOUT", "TIMER_FIRED"})' = {}
        /\ Cardinality(Processed(WaitEnding)') = 1 /\ timer.status # "FIRED"
        /\ run.approval = NoReceipt /\ \A r \in Receipts : approvals[r] # "CONSUMED"
    BY <1>4, <1>6, <2>1
  <2>4. WaitFacts'
    BY <2>1, <2>2 DEF WaitFacts
  <2> QED BY <2>1, <2>4 DEF Early, Waiting
<1>7. ASSUME NEW e \in Events, ~Seen(e), TimingOut(e) PROVE Goal
  <2>0. TimeoutTarget(timer.policy) \in {"EXPIRED", "ESCALATED", "CANCELLED"}
    BY <1>0, TimeoutsEnd
  <2>1. /\ Processes(e) /\ run.status \in Early /\ e.type \in WaitEnding
        /\ e.type \in {"APPROVAL_TIMEOUT", "TIMER_FIRED"} /\ run'.approval = run.approval
        /\ run'.status \in {"EXPIRED", "ESCALATED", "CANCELLED"} /\ approvals' = approvals
        /\ timer'.status = "FIRED"
    BY <1>7, <2>0 DEF TimingOut, Early, WaitEnding, SameReceipts, SameRow
  <2>2. /\ Processed({"APPROVAL_AVAILABLE"})' = {} /\ Processed({"APPROVAL_REJECTED"})' = {}
        /\ Processed({"APPROVAL_TIMEOUT", "TIMER_FIRED"})' = {e}
        /\ Cardinality(Processed(WaitEnding)') = 1
        /\ run.approval = NoReceipt /\ \A r \in Receipts : approvals[r] # "CONSUMED"
    BY <1>4, <1>7, <2>1
  <2>4. WaitFacts'
    BY <1>t, <2>1, <2>2 DEF WaitFacts
  <2> QED BY <2>1, <2>4 DEF Early, Waiting
<1>8. ASSUME NEW e \in Events, ~Seen(e), Intending(e) \/ Ending(e) PROVE Goal
  <2>1. /\ Processes(e) /\ e.type \notin WaitEnding
        /\ run'.approval = run.approval /\ timer' = timer /\ approvals' = approvals
    BY <1>8 DEF Intending, Ending, WaitEnding, SameTimer, SameReceipts, SameRow
  <2>2. /\ run'.status = "REJECTED" <=> run.status = "REJECTED"
        /\ run'.status \in Early => run.status \in Early
    BY <1>8, TerminalIsFinal DEF Intending, Ending, Early, Waiting, Terminal
  <2>3. /\ Processed(WaitEnding)' = Processed(WaitEnding)
        /\ Processed({"APPROVAL_AVAILABLE"})' = Processed({"APPROVAL_AVAILABLE"})
        /\ Processed({"APPROVAL_REJECTED"})' = Processed({"APPROVAL_REJECTED"})
        /\ Processed({"APPROVAL_TIMEOUT", "TIMER_FIRED"})'
              = Processed({"APPROVAL_TIMEOUT", "TIMER_FIRED"})
    BY <1>0, <1>8, <2>1, ProcessedStep DEF WaitEnding
  <2>4. WaitFacts'
    BY <1>0, <1>t, <2>1, <2>2, <2>3 DEF WaitFacts
  <2> QED BY <1>0, <2>2, <2>3, <2>4
<1> HIDE DEF Goal
<1>9. Goal
    BY <1>1, <1>3, <1>5, <1>6, <1>7, <1>8, QuietOrArriving DEF Arriving
<1> QED BY <1>0, <1>9, WaitFactsSame DEF Goal, WaitInv, EveryWaitHasOneEnding

-----------------------------------------------------------------------------
\* Calls.  The dispatch marker of an attempt is left once, by the process that
\* then calls; what has been called and what is about to be called together
\* never exceed the attempts opened.

Dispatching == {p \in Workers : procs[p].pc = "dispatched"}

Holding(p) == procs[p].pc \in {"prepared", "dispatched", "answered"}

Undispatched == op.status = "IN_FLIGHT" /\ ~op.dispatched

CallsInv ==
    /\ IsFiniteSet(Dispatching)
    /\ calls + Cardinality(Dispatching) <= op.attempt
    /\ Undispatched => calls + Cardinality(Dispatching) < op.attempt
    /\ \A p \in Workers : Holding(p) => procs[p].attempt <= op.attempt
    /\ Undispatched => \A p \in Workers : ~Calling(p, op.attempt)
    /\ \A p, q \in Workers, n \in Nat : Calling(p, n) /\ Calling(q, n) => p = q

\* A step that opens no attempt and takes no marker back.
SameAttempt ==
    /\ op'.attempt = op.attempt
    /\ Undispatched' => Undispatched
    /\ op'.status = "IN_FLIGHT" => op.status = "IN_FLIGHT"

LEMMA AttemptStays ==
    ASSUME TypeInv, [Next]_vars, \A p \in Workers : ~Prepare(p)
    PROVE  SameAttempt
<1>0. op \in OperationRow
    BY DEF TypeInv, RuntimeTypeOK, TypeOK
<1>1. ASSUME op' = op PROVE SameAttempt
    BY <1>1 DEF SameAttempt, Undispatched
<1>2. ASSUME NEW h, MarkDispatched(h) PROVE SameAttempt
    BY <1>0, <1>2 DEF MarkDispatched, SameAttempt, Undispatched, OperationRow
<1>3. ASSUME NEW h, NEW a \in Answers, RecordOperationResult(h, a) PROVE SameAttempt
  <2>1. OperationAfter(a) # "IN_FLIGHT"
    BY DEF OperationAfter
  <2> QED BY <1>0, <1>3, <2>1 DEF RecordOperationResult, SameAttempt, Undispatched, OperationRow
<1>4. ASSUME RecoverExpiredInflight PROVE SameAttempt
    BY <1>0, <1>4 DEF RecoverExpiredInflight, SameAttempt, Undispatched, OperationRow
<1>5. ASSUME NEW f, RecordReconciliation(f) PROVE SameAttempt
    BY <1>0, <1>5 DEF RecordReconciliation, SameAttempt, Undispatched, OperationRow
<1>6. ASSUME CloseUndispatched PROVE SameAttempt
    BY <1>0, <1>6 DEF CloseUndispatched, SameAttempt, Undispatched, OperationRow
<1>7. ASSUME NEW e \in Events, ProcessEvent(e) PROVE SameAttempt
    BY <1>1, <1>6, <1>7 DEF ProcessEvent, ProcessApproval, ProcessTimer, ProcessControl, Dismiss
<1>8. ASSUME NEW p \in Workers, Worker(p) PROVE SameAttempt
  <2>1. procs[p].pc = "answered" => procs[p].answer \in Answers
    BY DEF TypeInv, AnswersTyped
  <2>2. CASE Record(p)
    BY <1>1, <1>3, <2>1, <2>2 DEF Record, storeVars
  <2>3. CASE Dispatch(p)
    BY <1>1, <1>2, <2>3 DEF Dispatch, storeVars
  <2>4. CASE Reconcile(p)
    BY <1>1, <1>5, <2>4 DEF Reconcile, storeVars
  <2>5. CASE Claim(p) \/ Call(p) \/ Query(p) \/ Crash(p) \/ \E q \in Workers : Redeliver(p, q)
    BY <1>1, <2>5 DEF Claim, ClaimLease, Call, Query, Crash, Redeliver, storeVars
  <2> QED BY <1>8, <2>2, <2>3, <2>4, <2>5 DEF Worker
<1>9. CASE \/ Start \/ Wait \/ Schedule \/ StarterStops \/ Observe \/ Verify
           \/ \E r \in Receipts : Review(r)
           \/ ChangeContext \/ Tick \/ UNCHANGED vars
    BY <1>1, <1>9
    DEF Start, StartRunning, Wait, EnterWait, Schedule, ScheduleTimer, StarterStops, Observe,
        Verify, CompleteAfterVerification, Review, PutApproval, ChangeContext, Tick, storeVars, vars
<1> QED BY <1>4, <1>7, <1>8, <1>9 DEF Next, Recover, Deliver

\* What the bound on the calls says of their numbers.
LEMMA CallNumbers ==
    ASSUME TypeInv, CallsInv
    PROVE  /\ procs \in [Workers -> ProcState] /\ calls \in Nat /\ op \in OperationRow
           /\ op.attempt \in Nat /\ Cardinality(Dispatching) \in Nat /\ IsFiniteSet(Dispatching)
    BY FS_CardinalityType DEF TypeInv, RuntimeTypeOK, TypeOK, OperationRow, CallsInv

\* A process forgets its claim, takes over an older one or keeps to a query.
LEMMA LetGo ==
    ASSUME TypeInv, CallsInv, SameAttempt, calls' = calls,
           NEW p \in Workers, NEW s \in ProcState, Goto(p, s),
           s.pc \notin {"dispatched", "answered"},
           s.pc = "prepared" => s.attempt <= op.attempt
    PROVE  CallsInv'
<1>0. /\ procs \in [Workers -> ProcState] /\ calls \in Nat /\ op.attempt \in Nat
      /\ Cardinality(Dispatching) \in Nat /\ IsFiniteSet(Dispatching)
    BY CallNumbers
<1>1. \A q \in Workers : procs'[q] = IF q = p THEN s ELSE procs[q]
    BY <1>0 DEF Goto
<1>2. Dispatching' \subseteq Dispatching
    BY <1>1 DEF Dispatching
<1>3. /\ IsFiniteSet(Dispatching') /\ Cardinality(Dispatching') <= Cardinality(Dispatching)
      /\ Cardinality(Dispatching') \in Nat
    BY <1>0, <1>2, FS_Subset, FS_CardinalityType
<1>4. \A q \in Workers : \A n : Calling(q, n)' => Calling(q, n)
    BY <1>1 DEF Calling
<1>5. op'.attempt = op.attempt /\ (Undispatched' => Undispatched)
    BY DEF SameAttempt
<1>6. \A q \in Workers : Holding(q)' => procs'[q].attempt <= op.attempt
    BY <1>1 DEF CallsInv, Holding, ProcState
<1>7. /\ calls' + Cardinality(Dispatching') <= op'.attempt
      /\ Undispatched' => calls' + Cardinality(Dispatching') < op'.attempt
  <2>1. /\ calls + Cardinality(Dispatching) <= op.attempt
        /\ Undispatched => calls + Cardinality(Dispatching) < op.attempt
    BY DEF CallsInv
  <2>2. /\ calls + Cardinality(Dispatching') <= op.attempt
        /\ calls + Cardinality(Dispatching) < op.attempt
              => calls + Cardinality(Dispatching') < op.attempt
    BY <1>0, <1>3, <2>1
  <2> QED BY <1>5, <2>1, <2>2, Zenon
<1>8. Undispatched' => \A q \in Workers : ~Calling(q, op.attempt)'
    BY <1>4, <1>5 DEF CallsInv
<1>9. \A q, r \in Workers, n \in Nat : Calling(q, n)' /\ Calling(r, n)' => q = r
    BY <1>4 DEF CallsInv
<1> QED BY <1>3, <1>5, <1>6, <1>7, <1>8, <1>9 DEF CallsInv

LEMMA CallsUnchanged ==
    ASSUME TypeInv, CallsInv, SameAttempt, UNCHANGED <<calls, procs>>
    PROVE  CallsInv'
<1>1. Dispatching' = Dispatching /\ op'.attempt = op.attempt /\ (Undispatched' => Undispatched)
    BY DEF SameAttempt, Dispatching
<1>2. \A p \in Workers : \A n : Calling(p, n)' <=> Calling(p, n)
    BY DEF Calling
<1>3. \A p \in Workers : (Holding(p)' <=> Holding(p)) /\ procs'[p].attempt = procs[p].attempt
    BY DEF Holding
<1> QED BY <1>1, <1>2, <1>3 DEF CallsInv

LEMMA StepCalls ==
    ASSUME TypeInv, BooksInv, CallsInv, [Next]_vars
    PROVE  CallsInv'
<1>0. /\ procs \in [Workers -> ProcState] /\ calls \in Nat /\ op.attempt \in Nat
      /\ Cardinality(Dispatching) \in Nat /\ IsFiniteSet(Dispatching) /\ op \in OperationRow
      /\ Idle \in ProcState /\ Idle.pc = "idle"
    BY CallNumbers DEF Idle, ProcState
<1>1. ASSUME NEW p \in Workers, Prepare(p) PROVE CallsInv'
  <2>1. /\ op'.attempt = op.attempt + 1 /\ calls' = calls
        /\ procs' = [procs EXCEPT ![p] = [pc |-> "prepared", owner |-> p,
                                          attempt |-> op'.attempt, answer |-> "NONE"]]
        /\ procs[p].pc = "idle"
    BY <1>1 DEF Prepare, PrepareOperation, Goto, world
  <2>2. \A q \in Workers : q # p => procs'[q] = procs[q]
    BY <1>0, <2>1
  <2>3. procs'[p].pc = "prepared" /\ procs'[p].attempt = op'.attempt
    BY <1>0, <2>1
  <2>4. Dispatching' = Dispatching
    BY <2>1, <2>2, <2>3 DEF Dispatching
  <2>5. calls' + Cardinality(Dispatching') < op'.attempt
    BY <1>0, <2>1, <2>4 DEF CallsInv
  <2>6. \A q \in Workers : \A n : Calling(q, n)' => Calling(q, n)
    BY <2>2, <2>3 DEF Calling
  <2>7. \A q \in Workers : Calling(q, op.attempt)' => FALSE
    <3> SUFFICES ASSUME NEW q \in Workers, Calling(q, op.attempt)' PROVE FALSE
      OBVIOUS
    <3>1. procs[q].pc \in {"dispatched", "answered"} /\ procs[q].attempt = op.attempt + 1
      BY <2>1, <2>2, <2>3, Zenon DEF Calling
    <3>2. procs[q].attempt <= op.attempt
      BY <3>1 DEF CallsInv, Holding
    <3> QED BY <1>0, <3>1, <3>2
  <2>8. \A q \in Workers : Holding(q)' => procs'[q].attempt <= op'.attempt
    <3> SUFFICES ASSUME NEW q \in Workers, Holding(q)' PROVE procs'[q].attempt <= op'.attempt
      OBVIOUS
    <3>1. CASE q = p
      BY <1>0, <2>1, <2>3, <3>1
    <3>2. CASE q # p
      <4>1. procs'[q].attempt <= op.attempt /\ procs'[q].attempt \in Nat
        BY <1>0, <2>2, <3>2 DEF CallsInv, Holding, ProcState
      <4> QED BY <1>0, <2>1, <4>1
    <3> QED BY <3>1, <3>2
  <2>9. calls' + Cardinality(Dispatching') <= op'.attempt
    BY <1>0, <2>1, <2>4, <2>5
  <2>10. \A q, r \in Workers, n \in Nat : Calling(q, n)' /\ Calling(r, n)' => q = r
    BY <2>6 DEF CallsInv
  <2> QED BY <1>0, <2>4, <2>5, <2>7, <2>8, <2>9, <2>10 DEF CallsInv
<1>2. ASSUME NEW p \in Workers, MarkDispatched(procs[p]), procs[p].pc = "prepared",
             Goto(p, [procs[p] EXCEPT !.pc = "dispatched"]), calls' = calls
      PROVE CallsInv'
  <2>1. /\ Undispatched /\ op'.attempt = op.attempt /\ op'.dispatched
        /\ procs[p].attempt = op.attempt
    BY <1>0, <1>2 DEF MarkDispatched, CallAllowed, ActiveClaim, Undispatched, OperationRow
  <2>2. ~Undispatched'
    BY <2>1 DEF Undispatched
  <2>3. /\ \A q \in Workers : q # p => procs'[q] = procs[q]
        /\ procs'[p].pc = "dispatched" /\ procs'[p].attempt = op.attempt
    BY <1>0, <1>2, <2>1 DEF Goto, ProcState
  <2>4. Dispatching' = Dispatching \cup {p} /\ p \notin Dispatching
    BY <1>2, <2>3 DEF Dispatching
  <2>5. IsFiniteSet(Dispatching') /\ Cardinality(Dispatching') = Cardinality(Dispatching) + 1
    BY <1>0, <2>4, FS_AddElement
  <2>6. calls' + Cardinality(Dispatching') <= op'.attempt
    BY <1>0, <1>2, <2>1, <2>5 DEF CallsInv
  <2>7. \A q \in Workers : Holding(q)' => procs'[q].attempt <= op'.attempt
    BY <1>0, <2>1, <2>3 DEF CallsInv, Holding
  <2>8. \A q \in Workers : q # p => ~Calling(q, op.attempt)'
    <3> SUFFICES ASSUME NEW q \in Workers, q # p, Calling(q, op.attempt)' PROVE FALSE
      OBVIOUS
    <3>1. Calling(q, op.attempt)
      BY <2>1, <2>3 DEF Calling
    <3> QED BY <2>1, <3>1 DEF CallsInv
  <2>9. \A q, r \in Workers, n \in Nat : Calling(q, n)' /\ Calling(r, n)' => q = r
    <3> SUFFICES ASSUME NEW q \in Workers, NEW r \in Workers, NEW n \in Nat,
                        Calling(q, n)', Calling(r, n)'
                 PROVE  q = r
      OBVIOUS
    <3>1. CASE n = op.attempt
      BY <2>1, <2>8, <3>1 DEF Calling
    <3>2. CASE n # op.attempt
      <4>1. q # p /\ r # p
        BY <2>3, <3>2 DEF Calling
      <4>2. Calling(q, n) /\ Calling(r, n)
        BY <2>3, <4>1 DEF Calling
      <4> QED BY <4>2 DEF CallsInv
    <3> QED BY <3>1, <3>2
  <2> QED BY <2>2, <2>5, <2>6, <2>7, <2>9 DEF CallsInv
<1>3. ASSUME NEW p \in Workers, Call(p) PROVE CallsInv'
  <2>1. PICK a : Goto(p, [procs[p] EXCEPT !.pc = "answered", !.answer = a])
    BY <1>3 DEF Call
  <2>2. procs[p].pc = "dispatched" /\ calls' = calls + 1 /\ op' = op
    BY <1>3 DEF Call, storeVars
  <2>3. /\ \A q \in Workers : q # p => procs'[q] = procs[q]
        /\ procs'[p].pc = "answered" /\ procs'[p].attempt = procs[p].attempt
    BY <1>0, <2>1 DEF Goto, ProcState
  <2>4. Dispatching' = Dispatching \ {p} /\ p \in Dispatching
    BY <2>2, <2>3 DEF Dispatching
  <2>5. IsFiniteSet(Dispatching') /\ Cardinality(Dispatching') = Cardinality(Dispatching) - 1
    BY <1>0, <2>4, FS_RemoveElement
  <2>6. calls' + Cardinality(Dispatching') = calls + Cardinality(Dispatching)
    BY <1>0, <2>2, <2>5
  <2>7. \A q \in Workers : \A n : Calling(q, n)' <=> Calling(q, n)
    BY <2>2, <2>3 DEF Calling
  <2>8. \A q \in Workers : (Holding(q)' <=> Holding(q)) /\ procs'[q].attempt = procs[q].attempt
    BY <2>2, <2>3 DEF Holding
  <2>9. Undispatched' <=> Undispatched
    BY <2>2 DEF Undispatched
  <2> QED BY <2>2, <2>5, <2>6, <2>7, <2>8, <2>9 DEF CallsInv
<1>4. ASSUME NEW p \in Workers, Worker(p), \A q \in Workers : ~Prepare(q) PROVE CallsInv'
  <2>0. SameAttempt
    <3>1. [Next]_vars BY <1>4 DEF Next
    <3> QED BY <1>4, <3>1, AttemptStays
  <2>1. CASE Claim(p)
    BY <2>0, <2>1, CallsUnchanged DEF Claim, world
  <2>2. CASE Dispatch(p)
    <3>1. calls' = calls /\ procs[p].pc = "prepared" BY <2>2 DEF Dispatch, world
    <3>2. CASE Goto(p, Idle)
      BY <1>0, <2>0, <3>1, <3>2, LetGo
    <3> QED BY <1>2, <2>2, <3>1, <3>2 DEF Dispatch
  <2>3. CASE Record(p) \/ Reconcile(p) \/ Crash(p)
    <3>1. calls' = calls /\ Goto(p, Idle) BY <2>3 DEF Record, Reconcile, Crash, world
    <3> QED BY <1>0, <2>0, <3>1, LetGo
  <2>4. CASE Query(p)
    <3>1. PICK f \in {"STILL_UNKNOWN", IF effect THEN "CONFIRMED_EFFECT" ELSE "CONFIRMED_NO_EFFECT"} :
             Goto(p, [Idle EXCEPT !.pc = "queried", !.answer = f])
      BY <2>4 DEF Query
    <3>2. /\ [Idle EXCEPT !.pc = "queried", !.answer = f] \in ProcState
          /\ [Idle EXCEPT !.pc = "queried", !.answer = f].pc = "queried"
      BY DEF Idle, ProcState, ReconciliationStatus
    <3>3. calls' = calls BY <2>4 DEF Query, world
    <3> QED BY <2>0, <3>1, <3>2, <3>3, LetGo
  <2>5. ASSUME NEW q \in Workers, Redeliver(p, q) PROVE CallsInv'
    <3>1. procs[q] \in ProcState BY <1>0
    <3>2. /\ [procs[q] EXCEPT !.pc = "prepared", !.answer = "NONE"] \in ProcState
          /\ [procs[q] EXCEPT !.pc = "prepared", !.answer = "NONE"].pc = "prepared"
          /\ [procs[q] EXCEPT !.pc = "prepared", !.answer = "NONE"].attempt = procs[q].attempt
      BY <3>1 DEF ProcState
    <3>3. procs[q].attempt <= op.attempt
      BY <2>5 DEF Redeliver, CallsInv, Holding
    <3>4. calls' = calls /\ Goto(p, [procs[q] EXCEPT !.pc = "prepared", !.answer = "NONE"])
      BY <2>5 DEF Redeliver, world
    <3> QED BY <2>0, <3>2, <3>3, <3>4, LetGo
  <2> QED BY <1>3, <1>4, <2>1, <2>2, <2>3, <2>4, <2>5 DEF Worker
<1>5. ASSUME UNCHANGED <<calls, procs>> PROVE CallsInv'
  <2>1. CASE \E p \in Workers : Prepare(p) BY <1>1, <2>1
  <2>2. CASE \A p \in Workers : ~Prepare(p)
    BY <1>5, <2>2, AttemptStays, CallsUnchanged
  <2> QED BY <2>1, <2>2
<1>6. CASE \/ Start \/ Wait \/ Schedule \/ StarterStops \/ Recover \/ Observe \/ Verify
           \/ \E e \in Events : Deliver(e)
           \/ \E r \in Receipts : Review(r)
           \/ ChangeContext \/ Tick \/ UNCHANGED vars
  <2>1. UNCHANGED <<calls, procs>>
    BY <1>6 DEF Start, Wait, Schedule, StarterStops, Recover, Observe, Verify, Deliver, Review,
                ChangeContext, Tick, world, vars
  <2> QED BY <1>5, <2>1
<1> QED BY <1>1, <1>4, <1>6 DEF Next

\* No call is made without an attempt, no attempt is called twice.
LEMMA CallsFollow ==
    ASSUME TypeInv, BooksInv, CallsInv
    PROVE  CallsWithinBudget
<1>1. run.attemptsUsed = op.attempt /\ run.attemptsUsed <= MaxAttempts
    BY DEF BooksInv, RunMatchesOperation
<1>2. \A n \in 1..MaxAttempts : n \in Nat
    BY StoreAssumption
<1> QED BY <1>1, <1>2 DEF CallsInv, Dispatching, CallsWithinBudget

-----------------------------------------------------------------------------
\* The steps a reader should know of.

\* An operation leaves flight by recovery, which wants an expired lease, or by
\* the answer of the attempt in flight.
LEMMA LeaseStep ==
    ASSUME TypeInv, [Next]_vars, op.status = "IN_FLIGHT", op.dispatched, leaseLeft > 0,
           op'.status # "IN_FLIGHT"
    PROVE  \E p \in Workers : Calling(p, op.attempt) /\ procs'[p].pc = "idle"
<1>0. op \in OperationRow /\ leaseLeft \in 0..LeaseTicks /\ procs \in [Workers -> ProcState]
    BY DEF TypeInv, RuntimeTypeOK, TypeOK
<1>1. ASSUME op' = op PROVE FALSE
    BY <1>1
<1>2. ~RecoverExpiredInflight
    BY <1>0 DEF RecoverExpiredInflight, Abandoned
<1>3. ASSUME CloseUndispatched PROVE op' = op
    BY <1>3 DEF CloseUndispatched
<1>4. ASSUME NEW e \in Events, ProcessEvent(e) PROVE op' = op
    BY <1>3, <1>4 DEF ProcessEvent, ProcessApproval, ProcessTimer, ProcessControl, Dismiss
<1>5. ASSUME NEW p \in Workers, Worker(p)
      PROVE  Calling(p, op.attempt) /\ procs'[p].pc = "idle"
  <2>1. CASE Record(p)
    <3>1. RecordOperationResult(procs[p], procs[p].answer)
      BY <1>1, <2>1 DEF Record, storeVars
    <3>2. op.attempt = procs[p].attempt /\ procs[p].pc = "answered"
      BY <2>1, <3>1 DEF Record, RecordOperationResult, ResultCurrent, ActiveClaim
    <3>3. procs'[p].pc = "idle"
      BY <1>0, <2>1 DEF Record, Goto, Idle
    <3> QED BY <3>2, <3>3 DEF Calling
  <2>2. CASE Reconcile(p)
    BY <1>1, <2>2 DEF Reconcile, RecordReconciliation, Reconciling, storeVars
  <2>3. CASE Prepare(p)
    BY <2>3 DEF Prepare, PrepareOperation
  <2>4. CASE Dispatch(p)
    BY <1>0, <1>1, <2>4 DEF Dispatch, MarkDispatched, storeVars, OperationRow
  <2>5. CASE Claim(p) \/ Call(p) \/ Query(p) \/ Crash(p) \/ \E q \in Workers : Redeliver(p, q)
    BY <1>1, <2>5 DEF Claim, ClaimLease, Call, Query, Crash, Redeliver, storeVars
  <2> QED BY <1>5, <2>1, <2>2, <2>3, <2>4, <2>5 DEF Worker
<1>6. CASE \/ Start \/ Wait \/ Schedule \/ StarterStops \/ Observe \/ Verify
           \/ \E r \in Receipts : Review(r)
           \/ ChangeContext \/ Tick \/ UNCHANGED vars
    BY <1>1, <1>6
    DEF Start, StartRunning, Wait, EnterWait, Schedule, ScheduleTimer, StarterStops, Observe,
        Verify, CompleteAfterVerification, Review, PutApproval, ChangeContext, Tick, storeVars, vars
<1> QED BY <1>1, <1>2, <1>4, <1>5, <1>6 DEF Next, Recover, Deliver

\* Where an event cannot end the run there is no claim to close with it.
LEMMA RefusedEvent ==
    ASSUME TypeOK, BooksInv, NEW e \in Events, ProcessEvent(e),
           inbox'[e] \in {"REJECTED", "STALE"}
    PROVE  UNCHANGED <<run, leaseLeft, approvals, timer, op, attempts, outbox>>
<1>0. ~InsertEvent(e, "PROCESSED")
    BY DEF InsertEvent, TypeOK
<1>1. ASSUME NEW d, Dismiss(e, d)
      PROVE  UNCHANGED <<run, leaseLeft, approvals, timer, op, attempts, outbox>>
    BY <1>1 DEF Dismiss
<1>2. ASSUME NEW t, EndRun(e, t)
      PROVE  ~CanMove(run.status, t) /\ UNCHANGED <<run, leaseLeft, approvals, timer, outbox>>
    BY <1>0, <1>2 DEF EndRun
<1>3. ASSUME ProcessControl(e), ~StaleEvent(e)
      PROVE  UNCHANGED <<run, leaseLeft, approvals, timer, op, attempts, outbox>>
  <2>1. PICK t \in {"MANUAL_CONTROL", "CANCELLED"} : EndRun(e, t)
    BY <1>0, <1>3 DEF ProcessControl
  <2>2. ~CanMove(run.status, t) /\ UNCHANGED <<run, leaseLeft, approvals, timer, outbox>>
    BY <1>2, <2>1
  <2>3. run.status = "CREATED"
    BY <1>3, <2>2 DEF StaleEvent, CanMove, Successors, AfterWait, TypeOK, RunRecord, RunStatus,
                      Waiting, Terminal
  <2>4. op.status = "ABSENT"
    BY <2>3 DEF BooksInv, RunMatchesOperation
  <2>5. CloseUndispatched
    BY <1>0, <1>3 DEF ProcessControl
  <2>6. op' = op /\ attempts' = attempts
    BY <2>4, <2>5 DEF CloseUndispatched, TypeOK
  <2> QED BY <2>2, <2>6
<1>4. ASSUME ProcessApproval(e) \/ ProcessTimer(e)
      PROVE  UNCHANGED <<run, leaseLeft, approvals, timer, op, attempts, outbox>>
    BY <1>0, <1>1, <1>4 DEF ProcessApproval, ProcessTimer
<1> QED BY <1>1, <1>2, <1>3, <1>4 DEF ProcessEvent, Admissible

LEMMA RefusalStep ==
    ASSUME TypeInv, BooksInv, [Next]_vars, NEW e \in Events,
           inbox[e] = "ABSENT", inbox'[e] \in {"REJECTED", "STALE"}
    PROVE  UNCHANGED <<run, leaseLeft, approvals, timer, op, attempts, outbox>>
<1>0. TypeOK
    BY DEF TypeInv, RuntimeTypeOK
<1>1. PICK f \in Events : ProcessEvent(f)
  <2>1. inbox' # inbox
    OBVIOUS
  <2> QED
    BY <2>1
    DEF Next, Start, StartRunning, Wait, EnterWait, Schedule, ScheduleTimer, StarterStops, Worker,
        Claim, ClaimLease, Prepare, PrepareOperation, Dispatch, MarkDispatched, Call, Record,
        RecordOperationResult, Query, Reconcile, RecordReconciliation, Crash, Redeliver, Recover,
        RecoverExpiredInflight, Observe, Verify, CompleteAfterVerification, Deliver, Review,
        PutApproval, ChangeContext, Tick, storeVars, vars
<1>2. PICK d \in Disposition : inbox' = [inbox EXCEPT ![f] = d]
    BY <1>1
    DEF ProcessEvent, ProcessApproval, ProcessTimer, ProcessControl, EndRun, Dismiss, InsertEvent,
        Disposition
<1>3. f = e
    BY <1>0, <1>2 DEF TypeOK
<1> QED BY <1>0, <1>1, <1>3, RefusedEvent

-----------------------------------------------------------------------------
\* The theorems.

SafetyInv == TypeInv /\ BooksInv /\ IntentInv /\ CompletedMeansEffect /\ AuthorityInv
             /\ WaitInv /\ CallsInv

LEMMA InitSafety == Init => SafetyInv
<1> SUFFICES ASSUME Init PROVE SafetyInv
    OBVIOUS
<1>1. TypeInv /\ BooksInv
    BY InitTypes, InitBooks
<1>2. run.status = "CREATED" /\ ~run.cancelReq /\ ~run.manualReq /\ run.approval = NoReceipt
      /\ timer.status = "ABSENT" /\ op.status = "ABSENT" /\ op.attempt = 0
    BY DEF Init, StoreInit
<1>3. IntentInv
    BY <1>2 DEF IntentInv, IntentIsKept, Intended
<1>4. CompletedMeansEffect
    BY <1>2 DEF CompletedMeansEffect
<1>5. /\ \A p \in Workers : procs[p].pc = "idle"
      /\ ~effect /\ calls = 0
    BY DEF Init, Idle
<1>6. AuthorityInv
    BY <1>2, <1>5 DEF AuthorityInv
<1>7. WaitInv
  <2>1. \A types : Processed(types) = {}
    BY DEF Processed, Init, StoreInit
  <2>2. Cardinality(Processed(WaitEnding)) = 0
    BY <2>1, FS_EmptySet
  <2>3. \A r \in Receipts : approvals[r] # "CONSUMED"
    BY DEF Init, StoreInit
  <2>4. WaitFacts
    BY <1>2, <2>1, <2>2, <2>3 DEF WaitFacts
  <2>5. DeliveriesAdmittedOnce
    BY DEF DeliveriesAdmittedOnce, Init, StoreInit
  <2> QED BY <2>1, <2>4, <2>5, WaitFactsSame DEF WaitInv, EveryWaitHasOneEnding
<1>8. CallsInv
  <2>1. Dispatching = {}
    BY <1>5 DEF Dispatching
  <2>2. IsFiniteSet(Dispatching) /\ Cardinality(Dispatching) = 0
    BY <2>1, FS_EmptySet
  <2> QED BY <1>2, <1>5, <2>2 DEF CallsInv, Undispatched, Holding, Calling
<1> QED BY <1>1, <1>3, <1>4, <1>6, <1>7, <1>8 DEF SafetyInv

LEMMA StepSafety == SafetyInv /\ [Next]_vars => SafetyInv'
    BY StepTypes, StepBooks, StepIntents, StepCompletion, StepAuthority, StepWaits, StepCalls
    DEF SafetyInv, CompletionInv

LEMMA SafetyHolds == Spec => []SafetyInv
    BY InitSafety, StepSafety, PTL DEF Spec

\* However often a claim is delivered, an attempt is called once and the calls
\* stay within the budget of attempts.
THEOREM CallsStayInBudget == Spec => []CallsWithinBudget
<1>1. SafetyInv => CallsWithinBudget
    BY CallsFollow DEF SafetyInv
<1> QED BY <1>1, SafetyHolds, PTL

\* No effect without a spent, bound approval, nor after a rejection or a timeout.
THEOREM EffectsAreAuthorised == Spec => []EffectAuthorised
<1>1. SafetyInv => EffectAuthorised
    BY DEF SafetyInv, AuthorityInv, EffectAuthorised
<1> QED BY <1>1, SafetyHolds, PTL

\* A completed run has its effect, in the provider and in the ledger.
THEOREM CompletedRunsHaveTheirEffect == Spec => []CompletedMeansEffect
<1>1. SafetyInv => CompletedMeansEffect
    BY DEF SafetyInv
<1> QED BY <1>1, SafetyHolds, PTL

\* An accepted intent is kept until the run ends as it asks.
THEOREM IntentsAreKept == Spec => []IntentIsKept
<1>1. SafetyInv => IntentIsKept
    BY DEF SafetyInv, IntentInv
<1> QED BY <1>1, SafetyHolds, PTL

\* A wait is ended by one delivery, and no delivery is admitted twice.
THEOREM WaitsEndOnce == Spec => []EveryWaitHasOneEnding
<1>1. SafetyInv => EveryWaitHasOneEnding
    BY DEF SafetyInv, WaitInv
<1> QED BY <1>1, SafetyHolds, PTL

\* Nobody takes a dispatched operation from a worker whose lease is live.
THEOREM LiveLeasesProtect == Spec => LiveLeaseProtects
<1>1. SafetyInv /\ [Next]_vars
      => [op.status = "IN_FLIGHT" /\ op.dispatched /\ leaseLeft > 0 /\ op'.status # "IN_FLIGHT"
             => \E p \in Workers : Calling(p, op.attempt) /\ procs'[p].pc = "idle"]_vars
    BY LeaseStep DEF SafetyInv
<1> QED BY <1>1, SafetyHolds, PTL DEF Spec, LiveLeaseProtects

\* A refused or stale event leaves every other table as it was.
THEOREM RefusalsAreInert == Spec => RefusedEventsAreInert
<1>1. SafetyInv /\ [Next]_vars
      => [(\E e \in Events : inbox[e] = "ABSENT" /\ inbox'[e] \in {"REJECTED", "STALE"})
             => UNCHANGED <<run, leaseLeft, approvals, timer, op, attempts, outbox>>]_vars
    BY RefusalStep DEF SafetyInv
<1> QED BY <1>1, SafetyHolds, PTL DEF Spec, RefusedEventsAreInert

-----------------------------------------------------------------------------
\* The refund contract.  Under the discipline a call is always of the attempt in
\* flight, so an answer still current, a finding about to be committed and the
\* row of the operation all say the same of the effect.

Confirms(answer) == answer \in {"SUCCESS", "UNKNOWN_OUTCOME"}

\* Process p's answer is of the attempt in flight: record will take it.
AnswerCurrent(p) ==
    /\ procs[p].pc = "answered" /\ procs[p].attempt = op.attempt
    /\ op.status = "IN_FLIGHT" /\ op.dispatched

CallsAreCurrent ==
    \A p \in Workers : procs[p].pc = "dispatched" =>
        op.status = "IN_FLIGHT" /\ op.dispatched /\ procs[p].attempt = op.attempt

AnswersAreTrue ==
    \A p \in Workers : AnswerCurrent(p) => (effect <=> Confirms(procs[p].answer))

FindingsAreTrue ==
    \A p \in Workers : procs[p].pc = "queried" =>
        /\ procs[p].answer = "CONFIRMED_EFFECT" => effect
        /\ procs[p].answer = "CONFIRMED_NO_EFFECT" => ~effect

RowIsTrue ==
    /\ effect => \/ op.status \in {"SUCCEEDED", "UNKNOWN_OUTCOME"}
                 \/ op.status = "IN_FLIGHT" /\ op.dispatched
    /\ op.status = "SUCCEEDED" => effect

DisciplineInv ==
    SafetyInv /\ LeaseHeld /\ CallsAreCurrent /\ AnswersAreTrue /\ FindingsAreTrue /\ RowIsTrue

\* Only a call changes the effect.
LEMMA EffectSame ==
    ASSUME [Next]_vars, \A p \in Workers : ~Call(p)
    PROVE  effect' = effect
<1>1. ASSUME NEW p \in Workers, Worker(p) PROVE effect' = effect
    BY <1>1 DEF Worker, Claim, Prepare, Dispatch, Record, Query, Reconcile, Crash, Redeliver, world
<1> QED BY <1>1 DEF Next, Start, Wait, Schedule, StarterStops, Recover, Observe, Verify, Deliver,
                    Review, ChangeContext, Tick, world, vars

\* A process that called before this step, or found something, keeps what it
\* knows; it became what it is now by no other way.
LEMMA ProcessSteps ==
    ASSUME TypeInv, [Next]_vars, NEW p \in Workers
    PROVE  /\ procs'[p].pc = "dispatched" =>
                 \/ procs'[p] = procs[p]
                 \/ /\ Dispatch(p) /\ MarkDispatched(procs[p])
                    /\ procs'[p].attempt = procs[p].attempt
           /\ procs'[p].pc = "answered" => procs'[p] = procs[p] \/ Call(p)
           /\ procs'[p].pc = "queried" => procs'[p] = procs[p] \/ Query(p)
<1>0. procs \in [Workers -> ProcState]
    BY DEF TypeInv, RuntimeTypeOK
<1> DEFINE Goal == /\ procs'[p].pc = "dispatched" =>
                         \/ procs'[p] = procs[p]
                         \/ /\ Dispatch(p) /\ MarkDispatched(procs[p])
                            /\ procs'[p].attempt = procs[p].attempt
                   /\ procs'[p].pc = "answered" => procs'[p] = procs[p] \/ Call(p)
                   /\ procs'[p].pc = "queried" => procs'[p] = procs[p] \/ Query(p)
<1>1. ASSUME procs'[p] = procs[p] PROVE Goal
    BY <1>1
<1>2. ASSUME procs'[p].pc \in {"idle", "prepared"} PROVE Goal
    BY <1>2
<1>3. ASSUME NEW q \in Workers, Worker(q) PROVE Goal
  <2>1. CASE q # p
    BY <1>0, <1>1, <1>3, <2>1
    DEF Worker, Claim, Prepare, Dispatch, Call, Record, Query, Reconcile, Crash, Redeliver, Goto
  <2>2. CASE q = p
    <3>1. CASE Claim(p) BY <1>1, <3>1 DEF Claim
    <3>2. CASE Prepare(p) BY <1>0, <1>2, <3>2 DEF Prepare, Goto
    <3>3. CASE Record(p) \/ Reconcile(p) \/ Crash(p)
      BY <1>0, <1>2, <3>3 DEF Record, Reconcile, Crash, Goto, Idle
    <3>4. ASSUME NEW r \in Workers, Redeliver(p, r) PROVE Goal
      BY <1>0, <1>2, <3>4 DEF Redeliver, Goto, ProcState
    <3>5. CASE Query(p) BY <1>0, <3>5 DEF Query, Goto, Idle
    <3>6. CASE Call(p) BY <1>0, <3>6 DEF Call, Goto, ProcState
    <3>7. CASE Dispatch(p)
      <4>1. CASE Goto(p, Idle) BY <1>0, <1>2, <4>1 DEF Goto, Idle
      <4>2. CASE MarkDispatched(procs[p]) /\ Goto(p, [procs[p] EXCEPT !.pc = "dispatched"])
        BY <1>0, <3>7, <4>2 DEF Goto, ProcState
      <4> QED BY <3>7, <4>1, <4>2 DEF Dispatch
    <3> QED BY <1>3, <2>2, <3>1, <3>2, <3>3, <3>4, <3>5, <3>6, <3>7 DEF Worker
  <2> QED BY <2>1, <2>2
<1>4. CASE \/ Start \/ Wait \/ Schedule \/ StarterStops \/ Recover \/ Observe \/ Verify
           \/ \E e \in Events : Deliver(e)
           \/ \E r \in Receipts : Review(r)
           \/ ChangeContext \/ Tick \/ UNCHANGED vars
  <2>1. procs' = procs
    BY <1>4 DEF Start, Wait, Schedule, StarterStops, Recover, Observe, Verify, Deliver, Review,
                ChangeContext, Tick, vars
  <2> QED BY <2>1
<1> QED BY <1>3, <1>4 DEF Next

LEMMA StepCallsAreCurrent ==
    ASSUME DisciplineInv, [Next]_vars
    PROVE  CallsAreCurrent'
<1> SUFFICES ASSUME NEW p \in Workers, procs'[p].pc = "dispatched"
             PROVE  op'.status = "IN_FLIGHT" /\ op'.dispatched /\ procs'[p].attempt = op'.attempt
    BY DEF CallsAreCurrent
<1>0. TypeInv /\ BooksInv /\ CallsInv /\ op \in OperationRow /\ op.attempt \in Nat
    BY CallNumbers DEF DisciplineInv, SafetyInv
<1>1. CASE procs'[p] = procs[p]
  <2>1. /\ op.status = "IN_FLIGHT" /\ op.dispatched /\ procs[p].attempt = op.attempt
        /\ procs[p].pc = "dispatched" /\ leaseLeft > 0
    BY <1>1 DEF DisciplineInv, CallsAreCurrent, LeaseHeld
  <2>2. SameAttempt
    BY <1>0, <2>1, AttemptStays DEF Prepare, PrepareOperation
  <2>3. ASSUME op'.status # "IN_FLIGHT" PROVE FALSE
    <3>1. PICK q \in Workers : Calling(q, op.attempt) /\ procs'[q].pc = "idle"
      BY <1>0, <2>1, <2>3, LeaseStep
    <3>2. Calling(p, op.attempt)
      BY <2>1 DEF Calling
    <3>3. q = p
      BY <1>0, <3>1, <3>2 DEF CallsInv
    <3> QED BY <3>1, <3>3
  <2> QED BY <1>1, <2>1, <2>2, <2>3 DEF SameAttempt, Undispatched
<1>2. CASE MarkDispatched(procs[p]) /\ procs'[p].attempt = procs[p].attempt
    BY <1>0, <1>2 DEF MarkDispatched, CallAllowed, ActiveClaim, OperationRow
<1> QED BY <1>0, <1>1, <1>2, ProcessSteps

LEMMA StepAnswersAreTrue ==
    ASSUME DisciplineInv, [Next]_vars
    PROVE  AnswersAreTrue'
<1> SUFFICES ASSUME NEW p \in Workers, AnswerCurrent(p)'
             PROVE  effect' <=> Confirms(procs'[p].answer)
    BY DEF AnswersAreTrue
<1>0. /\ TypeInv /\ BooksInv /\ CallsInv /\ op \in OperationRow /\ op.attempt \in Nat
      /\ effect \in BOOLEAN /\ procs \in [Workers -> ProcState]
    BY CallNumbers DEF DisciplineInv, SafetyInv, TypeInv, RuntimeTypeOK
<1>1. procs'[p].pc = "answered" /\ procs'[p].attempt = op'.attempt
      /\ op'.status = "IN_FLIGHT" /\ op'.dispatched
    BY DEF AnswerCurrent
<1>2. CASE Call(p)
  <2>1. PICK a \in Outcomes :
           /\ effect' = (effect \/ a \in {"SUCCESS", "UNKNOWN_OUTCOME"})
           /\ Goto(p, [procs[p] EXCEPT !.pc = "answered", !.answer = a])
    BY <1>2 DEF Call
  <2>2. procs'[p].answer = a
    BY <1>0, <2>1 DEF Goto, ProcState
  <2>3. effect => Confirms(a)
    BY DEF Outcomes, Confirms
  <2> QED BY <2>1, <2>2, <2>3, Zenon DEF Confirms
<1>3. CASE procs'[p] = procs[p]
  <2>1. \A q \in Workers : ~Prepare(q)
    BY <1>1 DEF Prepare, PrepareOperation
  <2>2. op'.attempt = op.attempt /\ op.status = "IN_FLIGHT"
    BY <1>0, <1>1, <2>1, AttemptStays DEF SameAttempt
  <2>3. Calling(p, op.attempt)
    BY <1>1, <1>3, <2>2 DEF Calling
  <2>4. op.dispatched
    BY <1>0, <2>2, <2>3 DEF CallsInv, Undispatched
  <2>5. effect <=> Confirms(procs[p].answer)
    BY <1>1, <1>3, <2>2, <2>4 DEF DisciplineInv, AnswersAreTrue, AnswerCurrent
  <2>6. ASSUME NEW q \in Workers, Call(q) PROVE FALSE
    <3>1. procs[q].pc = "dispatched" /\ procs[q].attempt = op.attempt
      BY <2>6 DEF Call, DisciplineInv, CallsAreCurrent
    <3>2. q = p
      BY <1>0, <2>3, <3>1 DEF CallsInv, Calling
    <3> QED BY <1>1, <1>3, <3>1, <3>2
  <2>7. effect' = effect
    BY <2>6, EffectSame
  <2> QED BY <1>3, <2>5, <2>7, Zenon
<1> QED BY <1>0, <1>1, <1>2, <1>3, ProcessSteps

LEMMA StepFindingsAreTrue ==
    ASSUME DisciplineInv, [Next]_vars
    PROVE  FindingsAreTrue'
<1> SUFFICES ASSUME NEW p \in Workers, procs'[p].pc = "queried"
             PROVE  /\ procs'[p].answer = "CONFIRMED_EFFECT" => effect'
                    /\ procs'[p].answer = "CONFIRMED_NO_EFFECT" => ~effect'
    BY DEF FindingsAreTrue
<1>0. TypeInv /\ procs \in [Workers -> ProcState]
    BY DEF DisciplineInv, SafetyInv, TypeInv, RuntimeTypeOK
<1>1. CASE Query(p)
  <2>1. PICK f \in {"STILL_UNKNOWN", IF effect THEN "CONFIRMED_EFFECT" ELSE "CONFIRMED_NO_EFFECT"} :
           Goto(p, [Idle EXCEPT !.pc = "queried", !.answer = f])
    BY <1>1 DEF Query
  <2>2. procs'[p].answer = f
    BY <1>0, <2>1 DEF Goto, Idle
  <2>3. effect' = effect
    BY <1>1 DEF Query, world
  <2>4. (f = "CONFIRMED_EFFECT" => effect) /\ (f = "CONFIRMED_NO_EFFECT" => ~effect)
    OBVIOUS
  <2> QED BY <2>2, <2>3, <2>4, Zenon
<1>2. CASE procs'[p] = procs[p]
  <2>1. op.status = "UNKNOWN_OUTCOME"
    BY <1>2 DEF DisciplineInv, LeaseHeld, Reconciling
  <2>2. \A q \in Workers : ~Call(q)
    BY <2>1 DEF Call, DisciplineInv, CallsAreCurrent
  <2>3. effect' = effect
    BY <2>2, EffectSame
  <2>4. /\ procs[p].answer = "CONFIRMED_EFFECT" => effect
        /\ procs[p].answer = "CONFIRMED_NO_EFFECT" => ~effect
    BY <1>2 DEF DisciplineInv, FindingsAreTrue
  <2> QED BY <1>2, <2>3, <2>4, Zenon
<1> QED BY <1>0, <1>1, <1>2, ProcessSteps

LEMMA StepRowIsTrue ==
    ASSUME DisciplineInv, [Next]_vars
    PROVE  RowIsTrue'
<1>0. TypeInv /\ op \in OperationRow /\ RowIsTrue
    BY DEF DisciplineInv, SafetyInv, TypeInv, RuntimeTypeOK, TypeOK
<1> DEFINE May(o) == \/ o.status \in {"SUCCEEDED", "UNKNOWN_OUTCOME"}
                     \/ o.status = "IN_FLIGHT" /\ o.dispatched
<1>r. (effect => May(op)) /\ (op.status = "SUCCEEDED" => effect)
    BY <1>0, Zenon DEF RowIsTrue
<1>g. (effect' => May(op')) /\ (op'.status = "SUCCEEDED" => effect') => RowIsTrue'
    BY Zenon DEF RowIsTrue
<1>1. CASE \E q \in Workers : Call(q)
  <2>1. op.status = "IN_FLIGHT" /\ op.dispatched /\ op' = op
    BY <1>1 DEF Call, DisciplineInv, CallsAreCurrent, storeVars
  <2> QED BY <1>g, <2>1
<1>2. ASSUME effect' = effect,
             \/ op' = op
             \/ op'.status = "UNKNOWN_OUTCOME"
             \/ effect /\ op'.status = "SUCCEEDED"
             \/ ~effect /\ op'.status # "SUCCEEDED"
             \/ op'.status = op.status /\ op'.dispatched
      PROVE  RowIsTrue'
  <2>1. CASE op' = op BY <1>2, <1>r, <1>g, <2>1, Zenon
  <2>2. CASE op'.status = "UNKNOWN_OUTCOME" BY <1>g, <2>2
  <2>3. CASE effect /\ op'.status = "SUCCEEDED"
    <3>1. effect' /\ op'.status = "SUCCEEDED" BY <1>2, <2>3, Zenon
    <3> QED BY <1>g, <3>1
  <2>4. CASE ~effect /\ op'.status # "SUCCEEDED" BY <1>2, <1>g, <2>4, Zenon
  <2>5. CASE op'.status = op.status /\ op'.dispatched
    <3>1. May(op) => May(op') BY <2>5
    <3> QED BY <1>2, <1>r, <1>g, <2>5, <3>1, Zenon
  <2> QED BY <1>2, <2>1, <2>2, <2>3, <2>4, <2>5, Zenon
<1> HIDE DEF May
<1>3. ASSUME effect' = effect, CloseUndispatched PROVE RowIsTrue'
  <2>1. CASE op.status = "IN_FLIGHT" /\ ~op.dispatched
    <3>1. op'.status = "FAILED" BY <1>0, <1>3, <2>1 DEF CloseUndispatched, OperationRow
    <3>2. ~effect BY <1>r, <2>1 DEF May
    <3> QED BY <1>2, <1>3, <3>1, <3>2
  <2>2. CASE ~(op.status = "IN_FLIGHT" /\ ~op.dispatched)
    BY <1>2, <1>3, <2>2 DEF CloseUndispatched
  <2> QED BY <2>1, <2>2
<1>4. ASSUME NEW p \in Workers, Worker(p), effect' = effect PROVE RowIsTrue'
  <2>1. CASE Prepare(p)
    <3>1. op.status \notin {"SUCCEEDED", "UNKNOWN_OUTCOME", "IN_FLIGHT"} /\ op'.status = "IN_FLIGHT"
      BY <2>1 DEF Prepare, PrepareOperation
    <3>2. ~effect BY <1>r, <3>1 DEF May
    <3> QED BY <1>2, <1>4, <3>1, <3>2
  <2>2. CASE Dispatch(p)
    <3>1. \/ op' = op
          \/ op'.status = op.status /\ op'.dispatched
      BY <1>0, <2>2 DEF Dispatch, MarkDispatched, storeVars, OperationRow
    <3> QED BY <1>2, <1>4, <3>1
  <2>3. CASE Record(p) /\ RecordOperationResult(procs[p], procs[p].answer)
    <3>1. AnswerCurrent(p) /\ procs[p].answer \in Answers
      BY <1>0, <2>3 DEF Record, RecordOperationResult, ResultCurrent, ActiveClaim, AnswerCurrent,
                        TypeInv, AnswersTyped
    <3>2. effect <=> Confirms(procs[p].answer)
      BY <3>1 DEF DisciplineInv, AnswersAreTrue
    <3>3. op'.status = OperationAfter(procs[p].answer)
      BY <1>0, <2>3 DEF RecordOperationResult, OperationRow
    <3>4. CASE procs[p].answer = "SUCCESS"
      <4>1. effect /\ op'.status = "SUCCEEDED" BY <3>2, <3>3, <3>4 DEF Confirms, OperationAfter
      <4> QED BY <1>2, <1>4, <4>1
    <3>5. CASE procs[p].answer = "UNKNOWN_OUTCOME"
      <4>1. op'.status = "UNKNOWN_OUTCOME" BY <3>3, <3>5 DEF OperationAfter
      <4> QED BY <1>2, <1>4, <4>1
    <3>6. CASE procs[p].answer \in {"TRANSIENT_DEPENDENCY", "POLICY_DENIED"}
      <4>1. ~effect /\ op'.status # "SUCCEEDED" BY <3>2, <3>3, <3>6 DEF Confirms, OperationAfter
      <4> QED BY <1>2, <1>4, <4>1
    <3> QED BY <3>1, <3>4, <3>5, <3>6 DEF Answers
  <2>4. CASE Reconcile(p) /\ RecordReconciliation(procs[p].answer)
    <3>0. op.status = "UNKNOWN_OUTCOME" /\ procs[p].pc = "queried"
      BY <2>4 DEF Reconcile, RecordReconciliation, Reconciling
    <3>1. CASE procs[p].answer = "CONFIRMED_EFFECT" /\ op' = [op EXCEPT !.status = "SUCCEEDED"]
      <4>1. effect BY <3>0, <3>1 DEF DisciplineInv, FindingsAreTrue
      <4>2. op'.status = "SUCCEEDED" BY <1>0, <3>1 DEF OperationRow
      <4> QED BY <1>2, <1>4, <4>1, <4>2
    <3>2. CASE procs[p].answer = "CONFIRMED_NO_EFFECT"
               /\ op' = [op EXCEPT !.status = "CONFIRMED_NO_EFFECT"]
      <4>1. ~effect BY <3>0, <3>2 DEF DisciplineInv, FindingsAreTrue
      <4>2. op'.status = "CONFIRMED_NO_EFFECT" BY <1>0, <3>2 DEF OperationRow
      <4> QED BY <1>2, <1>4, <4>1, <4>2
    <3> QED BY <1>2, <1>4, <2>4, <3>1, <3>2 DEF RecordReconciliation
  <2>5. CASE (Record(p) \/ Reconcile(p)) /\ UNCHANGED storeVars
    BY <1>2, <1>4, <2>5 DEF storeVars
  <2>6. CASE Claim(p) \/ Query(p) \/ Crash(p) \/ \E q \in Workers : Redeliver(p, q)
    <3>1. op' = op BY <2>6 DEF Claim, ClaimLease, Query, Crash, Redeliver, storeVars
    <3> QED BY <1>2, <1>4, <3>1
  <2>7. CASE Call(p) BY <1>1, <2>7
  <2> QED BY <1>4, <2>1, <2>2, <2>3, <2>4, <2>5, <2>6, <2>7 DEF Worker, Record, Reconcile
<1>5. ASSUME NEW e \in Events, ProcessEvent(e), effect' = effect PROVE RowIsTrue'
    BY <1>2, <1>3, <1>5 DEF ProcessEvent, ProcessApproval, ProcessTimer, ProcessControl, Dismiss
<1>6. ASSUME RecoverExpiredInflight, effect' = effect PROVE RowIsTrue'
  <2>1. op'.status = "UNKNOWN_OUTCOME" BY <1>0, <1>6 DEF RecoverExpiredInflight, OperationRow
  <2> QED BY <1>2, <1>6, <2>1
<1>7. ASSUME effect' = effect,
             \/ Start \/ Wait \/ Schedule \/ StarterStops \/ Observe \/ Verify
             \/ \E r \in Receipts : Review(r)
             \/ ChangeContext \/ Tick \/ UNCHANGED vars
      PROVE  RowIsTrue'
  <2>1. op' = op
    BY <1>7
    DEF Start, StartRunning, Wait, EnterWait, Schedule, ScheduleTimer, StarterStops, Observe,
        Verify, CompleteAfterVerification, Review, PutApproval, ChangeContext, Tick, storeVars, vars
  <2> QED BY <1>2, <1>7, <2>1
<1>8. CASE \A q \in Workers : ~Call(q)
  <2>1. effect' = effect
    BY <1>8, EffectSame
  <2> QED BY <1>4, <1>5, <1>6, <1>7, <2>1 DEF Next, Recover, Deliver
<1> QED BY <1>1, <1>8

LEMMA InitDiscipline == Init => DisciplineInv
<1> SUFFICES ASSUME Init PROVE DisciplineInv
    OBVIOUS
<1>1. SafetyInv
    BY InitSafety
<1>2. \A p \in Workers : procs[p].pc = "idle"
    BY DEF Init, Idle
<1>3. ~effect /\ op.status = "ABSENT"
    BY DEF Init, StoreInit
<1> QED BY <1>1, <1>2, <1>3
        DEF DisciplineInv, LeaseHeld, CallsAreCurrent, AnswersAreTrue, AnswerCurrent,
            FindingsAreTrue, RowIsTrue

LEMMA StepDiscipline == DisciplineInv /\ [Next /\ LeaseHeld']_vars => DisciplineInv'
<1> SUFFICES ASSUME DisciplineInv, [Next /\ LeaseHeld']_vars PROVE DisciplineInv'
    OBVIOUS
<1>1. [Next]_vars
    OBVIOUS
<1>2. SafetyInv'
    BY <1>1, StepSafety DEF DisciplineInv
<1>3. LeaseHeld'
  <2>1. CASE UNCHANGED vars
    BY <2>1 DEF vars, DisciplineInv, LeaseHeld, Reconciling
  <2> QED BY <2>1
<1> QED BY <1>1, <1>2, <1>3, StepCallsAreCurrent, StepAnswersAreTrue, StepFindingsAreTrue,
           StepRowIsTrue DEF DisciplineInv

\* A run ends only with its operation settled, and the settled row is true.
LEMMA ClosedBooksAreTrue ==
    ASSUME DisciplineInv, run.status \in Terminal
    PROVE  op.status = "SUCCEEDED" <=> effect
<1>1. op.status \notin {"IN_FLIGHT", "UNKNOWN_OUTCOME"}
    BY DEF DisciplineInv, SafetyInv, BooksInv, RunMatchesOperation, Terminal
<1> QED BY <1>1 DEF DisciplineInv, RowIsTrue

\* Under the discipline a run is never closed on a refund it does not know of.
THEOREM DisciplineErasesNoEffect == DisciplinedSpec => []NoEffectErased
<1>1. DisciplineInv => NoEffectErased
    BY ClosedBooksAreTrue DEF NoEffectErased
<1> QED BY <1>1, InitDiscipline, StepDiscipline, PTL DEF DisciplinedSpec

-----------------------------------------------------------------------------
\* The refinement, step by step.

Authorised == run.approval # NoReceipt

\* A step that leaves the bound receipt and the effect alone: the books stay
\* open, are closed by it, or were closed and stay as they are.
BooksStep ==
    /\ run'.approval = run.approval
    /\ run.status \in Terminal => run'.status = run.status /\ op'.status = op.status

LEMMA BooksOrApproval ==
    ASSUME DisciplineInv, [Next]_vars
    PROVE  \/ BooksStep
           \/ /\ ~Authorised /\ Authorised'
              /\ run.status \notin Terminal /\ run'.status \notin Terminal
              /\ UNCHANGED effect
<1>0. TypeInv /\ BooksInv /\ AuthorityInv
    BY DEF DisciplineInv, SafetyInv
<1>1. CASE Resting
    BY <1>1 DEF Resting, BooksStep, SameRow
<1>2. ASSUME SameRow, run.status \notin Terminal PROVE BooksStep
    BY <1>2 DEF SameRow, BooksStep
<1>3. CASE \/ Starting \/ Claiming \/ (\E a \in Answers : Answering(a))
           \/ Recovering \/ Settling \/ Completing
    BY <1>2, <1>3 DEF Starting, Claiming, Answering, Recovering, Settling, Completing, Moves, Terminal
<1>4. ASSUME NEW e \in Events, Dismissed(e) \/ Rejecting(e) \/ TimingOut(e) \/ Intending(e) \/ Ending(e)
      PROVE  BooksStep
  <2>1. CASE Dismissed(e)
    BY <2>1 DEF Dismissed, BooksStep
  <2>2. CASE Intending(e)
    BY <2>2 DEF Intending, BooksStep
  <2>3. CASE Rejecting(e) \/ TimingOut(e)
    BY <1>2, <2>3 DEF Rejecting, TimingOut, Moves, Waiting, Terminal
  <2>4. CASE Ending(e)
    BY <1>2, <2>4, TerminalIsFinal DEF Ending
  <2> QED BY <1>4, <2>1, <2>2, <2>3, <2>4
<1>5. ASSUME NEW e \in Events, Approving(e)
      PROVE  /\ ~Authorised /\ Authorised'
             /\ run.status \notin Terminal /\ run'.status \notin Terminal
             /\ UNCHANGED effect
  <2>1. run.status = "WAITING_APPROVAL" /\ run'.status = "READY_TO_RESUME"
        /\ run'.approval \in Receipts
    BY <1>5 DEF Approving, Moves
  <2>2. ~Authorised
    BY <1>0, <2>1 DEF AuthorityInv, Authorised, Early, Waiting
  <2>3. \A p \in Workers : ~Call(p)
    BY <2>1 DEF Call, storeVars
  <2> QED BY <2>1, <2>2, <2>3, EffectSame, StoreAssumption DEF Authorised, Terminal
<1> QED BY <1>0, <1>1, <1>3, <1>4, <1>5, StepKinds DEF Arriving

\* The money moves in a call; the books are open then, and the refund authorised.
LEMMA RefundStep ==
    ASSUME DisciplineInv, NEW p \in Workers, Call(p), effect' # effect
    PROVE  /\ Authorised /\ ~effect /\ effect' = TRUE
           /\ run.status \notin Terminal /\ run' = run /\ op' = op
<1>0. effect \in BOOLEAN
    BY DEF DisciplineInv, SafetyInv, TypeInv, RuntimeTypeOK
<1>1. PICK a : effect' = (effect \/ a \in {"SUCCESS", "UNKNOWN_OUTCOME"})
    BY DEF Call
<1>2. ~effect /\ effect' = TRUE
    BY <1>0, <1>1, Zenon
<1>3. procs[p].pc = "dispatched" /\ run' = run /\ op' = op
    BY DEF Call, storeVars
<1>4. op.status = "IN_FLIGHT"
    BY <1>3 DEF DisciplineInv, CallsAreCurrent
<1>5. run.status = "EXECUTING" /\ Authorised
    BY <1>4 DEF DisciplineInv, SafetyInv, BooksInv, RunMatchesOperation, AuthorityInv, Authorised
<1> QED BY <1>2, <1>3, <1>5 DEF Terminal

LEMMA ContractInit == Init => Contract!Init
    BY DEF Init, StoreInit, Contract!Init, Verdict, Terminal

LEMMA ContractStep ==
    ASSUME DisciplineInv, DisciplineInv', [Next]_vars
    PROVE  [Contract!Next]_(Contract!contractVars)
<1>0. effect \in BOOLEAN /\ effect' \in BOOLEAN
    BY DEF DisciplineInv, SafetyInv, TypeInv, RuntimeTypeOK
<1>v. /\ Verdict = IF run.status \notin Terminal THEN "open"
                   ELSE IF op.status = "SUCCEEDED" THEN "refunded" ELSE "not_refunded"
      /\ Verdict' = IF run'.status \notin Terminal THEN "open"
                    ELSE IF op'.status = "SUCCEEDED" THEN "refunded" ELSE "not_refunded"
    BY DEF Verdict
<1>1. ASSUME NEW p \in Workers, Call(p), effect' # effect
      PROVE  Contract!Next
  <2>1. /\ Authorised /\ ~effect /\ effect' = TRUE
        /\ run.status \notin Terminal /\ run' = run /\ op' = op
    BY <1>1, RefundStep
  <2>2. Verdict = "open" /\ Verdict' = Verdict
    BY <1>v, <2>1
  <2>3. Contract!Refund
    BY <2>1, <2>2, Zenon DEF Contract!Refund, Authorised
  <2> QED BY <2>3 DEF Contract!Next
<1>2. CASE BooksStep /\ effect' = effect
  <2>0. run'.approval = run.approval
    BY <1>2 DEF BooksStep
  <2>1. CASE run.status \in Terminal
    <3>1. Verdict' = Verdict
      BY <1>2, <1>v, <2>1 DEF BooksStep
    <3> QED BY <1>2, <2>0, <3>1 DEF Contract!contractVars
  <2>2. CASE run.status \notin Terminal /\ run'.status \notin Terminal
    <3>1. Verdict' = Verdict
      BY <1>v, <2>2
    <3> QED BY <1>2, <2>0, <3>1 DEF Contract!contractVars
  <2>3. CASE run.status \notin Terminal /\ run'.status \in Terminal
    <3>0. op'.status \notin {"IN_FLIGHT", "UNKNOWN_OUTCOME"}
      BY <2>3 DEF DisciplineInv, SafetyInv, BooksInv, RunMatchesOperation, Terminal
    <3>1. op'.status = "SUCCEEDED" <=> effect'
      BY <3>0 DEF DisciplineInv, RowIsTrue
    <3>2. Verdict = "open"
      BY <1>v, <2>3
    <3>3. Verdict' = IF effect THEN "refunded" ELSE "not_refunded"
      BY <1>2, <1>v, <2>3, <3>1
    <3>4. Contract!Close
      BY <1>2, <2>0, <3>2, <3>3, Zenon DEF Contract!Close
    <3> QED BY <3>4 DEF Contract!Next
  <2> QED BY <2>1, <2>2, <2>3
<1>3. ASSUME ~Authorised, Authorised', run.status \notin Terminal, run'.status \notin Terminal,
             UNCHANGED effect
      PROVE  Contract!Next
  <2>1. Verdict = "open" /\ Verdict' = Verdict
    BY <1>3, <1>v
  <2>2. Contract!Authorise
    BY <1>3, <2>1, Zenon DEF Contract!Authorise, Authorised
  <2> QED BY <2>2 DEF Contract!Next
<1>4. CASE \A p \in Workers : ~Call(p)
    BY <1>2, <1>3, <1>4, BooksOrApproval, EffectSame
<1>5. CASE effect' = effect
    BY <1>2, <1>3, <1>5, BooksOrApproval
<1> QED BY <1>1, <1>4, <1>5

\* Workers that hold their lease across what it is meant to protect implement
\* the refund contract.
THEOREM RefundContractHolds == DisciplinedSpec => RefundKeepsContract
<1>1. DisciplineInv /\ DisciplineInv' /\ [Next /\ LeaseHeld']_vars
      => [Contract!Next]_(Contract!contractVars)
    BY ContractStep
<1> QED BY <1>1, ContractInit, InitDiscipline, StepDiscipline, PTL
        DEF DisciplinedSpec, RefundKeepsContract, Contract!Spec
=============================================================================
