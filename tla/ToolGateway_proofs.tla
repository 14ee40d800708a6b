------------------------- MODULE ToolGateway_proofs -------------------------
(***************************************************************************)
(* Theorems about ToolGateway for any callers, operations, sessions,       *)
(* approvals, calls and budgets.                                           *)
(***************************************************************************)
EXTENDS ToolGatewaySafety, SequenceTheorems, FiniteSetTheorems, TLAPS

Attempt == [proposal: Proposals, status: AttemptStatus]

\* A caller that has a call knows its proposal, and a prepared one its attempt.
CallersTyped ==
    \A p \in Callers :
        /\ procs[p].pc # "idle" => CallOf(p) \in Proposals
        /\ procs[p].pc \in {"prepared", "dispatched", "calling", "recorded"} =>
              procs[p].attempt \in DOMAIN attempts

TypeInv == TypeOK /\ CallersTyped

-----------------------------------------------------------------------------
\* How the parts of a step act on one table.

\* Replacing one attempt's status keeps the list and its ids.
LEMMA SetAttemptType ==
    ASSUME TypeOK, NEW n, NEW status \in AttemptStatus, SetAttempt(n, status)
    PROVE  attempts' \in Seq(Attempt) /\ DOMAIN attempts' = DOMAIN attempts
<1>1. attempts \in Seq(Attempt)
    BY DEF TypeOK, Attempt
<1>2. CASE n \in 1..Len(attempts)
  <2> DEFINE e == [proposal |-> attempts[n].proposal, status |-> status]
  <2>1. attempts[n] \in Attempt
    BY <1>1, <1>2, ElementOfSeq
  <2>2. e \in Attempt
    BY <2>1 DEF Attempt
  <2>3. attempts' = [attempts EXCEPT ![n] = e]
    BY DEF SetAttempt
  <2> HIDE DEF e
  <2> QED BY <1>1, <1>2, <2>2, <2>3, ExceptSeq
<1>3. CASE n \notin 1..Len(attempts)
  <2>1. DOMAIN attempts = 1..Len(attempts)
    BY <1>1
  <2>2. attempts' = attempts
    BY <1>1, <1>3, <2>1 DEF SetAttempt
  <2> QED BY <1>1, <2>2
<1> QED BY <1>2, <1>3

LEMMA SetClaimType ==
    ASSUME TypeOK, NEW a, NEW status \in ClaimStatus, SetClaim(a, status)
    PROVE  claims' \in [Approvals -> ClaimStatus]
    BY DEF TypeOK, SetClaim

LEMMA ReleaseType ==
    ASSUME TypeOK, NEW s \in Sessions, Release(s)
    PROVE  reserved' \in [Sessions -> Int]
    BY DEF TypeOK, Release

\* A caller that moves on in its own call, or drops it, stays typed.
LEMMA CallersStay ==
    ASSUME TypeInv, NEW p \in Callers, DOMAIN attempts' = DOMAIN attempts,
           \/ GoIdle(p)
           \/ UNCHANGED procs
           \/ /\ procs[p].pc \in {"prepared", "dispatched", "calling"}
              /\ \E pc \in {"dispatched", "calling"} : Goto(p, pc)
    PROVE  procs' \in [Callers -> ProcState] /\ CallersTyped'
<1>1. procs \in [Callers -> ProcState] /\ CallersTyped
    BY DEF TypeInv, TypeOK
<1>2. CASE GoIdle(p)
    BY <1>1, <1>2 DEF GoIdle, Idle, At, ProcState, CallersTyped, CallOf, Answers
<1>3. CASE UNCHANGED procs
    BY <1>1, <1>3 DEF CallersTyped, CallOf
<1>4. CASE /\ procs[p].pc \in {"prepared", "dispatched", "calling"}
           /\ \E pc \in {"dispatched", "calling"} : Goto(p, pc)
    BY <1>1, <1>4 DEF Goto, ProcState, CallersTyped, CallOf
<1> QED BY <1>2, <1>3, <1>4

LEMMA InitType == Init => TypeInv
<1> SUFFICES ASSUME Init PROVE TypeInv
    OBVIOUS
<1>1. attempts \in Seq([proposal: Proposals, status: AttemptStatus])
    BY DEF Init
<1>2. receipts \in [Ops -> Receipt]
    BY DEF Init, Receipt, Outcome, Tools
<1>3. procs \in [Callers -> ProcState] /\ CallersTyped
    BY DEF Init, Idle, At, ProcState, CallersTyped, CallOf, Answers
<1> QED BY <1>1, <1>2, <1>3 DEF Init, TypeOK, TypeInv, ClaimStatus

LEMMA AdmitType ==
    ASSUME TypeInv, NEW p \in Callers, NEW q \in Proposals, Admit(p, q)
    PROVE  TypeInv'
<1>1. procs' \in [Callers -> ProcState] /\ CallersTyped'
    BY DEF Admit, TypeInv, TypeOK, CallersTyped, CallOf, ProcState, At, Answers
<1> QED BY <1>1 DEF Admit, TypeInv, TypeOK, governance, backend

LEMMA ReserveType ==
    ASSUME TypeInv, NEW p \in Callers, Reserve(p)
    PROVE  TypeInv'
<1> DEFINE q == CallOf(p)
<1>1. q \in Proposals /\ q.session \in Sessions
    BY GatewayAssumption DEF TypeInv, CallersTyped, Reserve, Proposal
<1>2. CASE GoIdle(p) /\ UNCHANGED <<attempts, reserved, claims>>
  <2>1. procs' \in [Callers -> ProcState] /\ CallersTyped'
    BY <1>2, CallersStay
  <2> QED BY <1>2, <2>1 DEF Reserve, TypeInv, TypeOK, governance, backend
<1>3. CASE /\ attempts' = Append(attempts, [proposal |-> q, status |-> "RESERVED"])
           /\ reserved' = [reserved EXCEPT ![q.session] = @ + 1]
           /\ claims' = [a \in Approvals |->
                 IF a = q.approval /\ q.tool = "FINANCIAL" THEN "CLAIMED" ELSE claims[a]]
           /\ procs' = [procs EXCEPT ![p] = At("prepared", q, Len(attempts'), "NONE")]
  <2>1. attempts \in Seq(Attempt) /\ [proposal |-> q, status |-> "RESERVED"] \in Attempt
    BY <1>1 DEF TypeInv, TypeOK, Attempt, AttemptStatus
  <2>2. /\ attempts' \in Seq(Attempt)
        /\ DOMAIN attempts \subseteq DOMAIN attempts'
        /\ Len(attempts') \in DOMAIN attempts' /\ Len(attempts') \in Nat
    BY <1>3, <2>1
  <2>3. procs' \in [Callers -> ProcState] /\ CallersTyped'
    <3>1. procs' \in [Callers -> ProcState]
      BY <1>1, <1>3, <2>2 DEF TypeInv, TypeOK, ProcState, At, Answers
    <3>2. \A r \in Callers :
             procs'[r] = IF r = p THEN At("prepared", q, Len(attempts'), "NONE") ELSE procs[r]
      BY <1>3 DEF TypeInv, TypeOK
    <3> QED BY <1>1, <2>2, <3>1, <3>2 DEF TypeInv, CallersTyped, CallOf, At
  <2>4. reserved' \in [Sessions -> Int] /\ claims' \in [Approvals -> ClaimStatus]
    BY <1>1, <1>3 DEF TypeInv, TypeOK, ClaimStatus
  <2> QED BY <2>2, <2>3, <2>4 DEF Reserve, TypeInv, TypeOK, governance, backend, Attempt
<1> QED BY <1>2, <1>3 DEF Reserve

LEMMA DispatchType ==
    ASSUME TypeInv, NEW p \in Callers, RecordDispatch(p)
    PROVE  TypeInv'
<1>1. CallOf(p) \in Proposals /\ CallOf(p).session \in Sessions
    BY GatewayAssumption DEF TypeInv, CallersTyped, RecordDispatch, Proposal
<1>2. /\ attempts' \in Seq(Attempt) /\ DOMAIN attempts' = DOMAIN attempts
      /\ claims' \in [Approvals -> ClaimStatus] /\ reserved' \in [Sessions -> Int]
  <2>1. CASE CancelAttempt(p)
    BY <1>1, <2>1, SetAttemptType, SetClaimType, ReleaseType
    DEF CancelAttempt, TypeInv, AttemptStatus, ClaimStatus
  <2>2. CASE /\ SetAttempt(procs[p].attempt, "DISPATCHED")
             /\ SetClaim(CallOf(p).approval, "IN_FLIGHT")
             /\ UNCHANGED reserved
    BY <2>2, SetAttemptType, SetClaimType DEF TypeInv, TypeOK, AttemptStatus, ClaimStatus
  <2> QED BY <2>1, <2>2 DEF RecordDispatch
<1>3. GoIdle(p) \/ (procs[p].pc = "prepared" /\ Goto(p, "dispatched"))
    BY DEF RecordDispatch, CancelAttempt
<1>4. procs' \in [Callers -> ProcState] /\ CallersTyped'
    BY <1>2, <1>3, CallersStay
<1> QED BY <1>2, <1>4 DEF RecordDispatch, TypeInv, TypeOK, governance, backend, Attempt

\* Steps of a caller that leave the tables alone.
LEMMA QuietStepType ==
    ASSUME TypeInv, NEW p \in Callers, Send(p) \/ Abandon(p) \/ CompleteRefused(p)
    PROVE  TypeInv'
<1>1. GoIdle(p) \/ (procs[p].pc = "dispatched" /\ Goto(p, "calling"))
    BY DEF Send, Abandon, CompleteRefused
<1>2. UNCHANGED attempts
    BY DEF Send, Abandon, CompleteRefused
<1>3. procs' \in [Callers -> ProcState] /\ CallersTyped'
    BY <1>1, <1>2, CallersStay
<1>4. sent' \subseteq DOMAIN attempts
    BY DEF Send, Abandon, CompleteRefused, backend, TypeInv, TypeOK, CallersTyped
<1> QED BY <1>2, <1>3, <1>4
        DEF Send, Abandon, CompleteRefused, TypeInv, TypeOK, governance, backend

LEMMA CompleteType ==
    ASSUME TypeInv, NEW p \in Callers, Complete(p)
    PROVE  TypeInv'
<1>1. /\ CallOf(p) \in Proposals /\ CallOf(p).session \in Sessions
      /\ CallOf(p).op \in Ops /\ CallOf(p).tool \in Tools
      /\ procs[p].attempt \in DOMAIN attempts
    BY GatewayAssumption DEF TypeInv, CallersTyped, Complete, Proposal
<1>2. PICK size \in Sizes \cup {0}, invalid \in BOOLEAN, unknown \in BOOLEAN :
          /\ Account(CallOf(p).session, size)
          /\ DenyResult(p, invalid) \/ WriteReceipt(p, unknown)
  <2>1. PICK answer \in Reports(procs[p].attempt), size \in Sizes \cup {0} :
           LET invalid == answer # "FAILED" /\ Unusable(CallOf(p).session, answer, size)
               failed == invalid \/ answer = "FAILED"
               denied == failed /\ Deniable(CallOf(p).tool) IN
           /\ Account(CallOf(p).session, size)
           /\ \/ denied /\ DenyResult(p, invalid)
              \/ ~denied /\ WriteReceipt(p, failed \/ answer = "UNKNOWN")
    BY DEF Complete
  <2> QED BY <2>1 DEF Unusable
<1>3. reserved' \in [Sessions -> Int]
    BY <1>1, <1>2, ReleaseType DEF Account, TypeInv
<1>4. used' \in [Sessions -> [toolCalls: Nat, serverCalls: Nat, bytes: Nat]]
  <2>1. size \in Nat
    BY <1>2, GatewayAssumption
  <2> QED BY <1>1, <1>2, <2>1 DEF Account, TypeInv, TypeOK
<1>5. /\ attempts' \in Seq(Attempt) /\ DOMAIN attempts' = DOMAIN attempts
      /\ receipts' \in [Ops -> Receipt]
      /\ procs' \in [Callers -> ProcState] /\ CallersTyped'
  <2>1. CASE DenyResult(p, invalid)
    <3>1. attempts' \in Seq(Attempt) /\ DOMAIN attempts' = DOMAIN attempts
      BY <2>1, SetAttemptType DEF DenyResult, TypeInv, AttemptStatus
    <3> QED BY <2>1, <3>1, CallersStay DEF DenyResult, TypeInv, TypeOK
  <2>2. CASE WriteReceipt(p, unknown)
    <3>1. attempts' \in Seq(Attempt) /\ DOMAIN attempts' = DOMAIN attempts
      BY <2>2 DEF WriteReceipt, TypeInv, TypeOK, Attempt
    <3>2. receipts' \in [Ops -> Receipt]
      BY <1>1, <2>2 DEF WriteReceipt, TypeInv, TypeOK, Receipt, Outcome
    <3>3. procs' \in [Callers -> ProcState] /\ CallersTyped'
      BY <1>1, <2>2, <3>1 DEF WriteReceipt, TypeInv, TypeOK, ProcState, Answers,
                              CallersTyped, CallOf, At
    <3> QED BY <3>1, <3>2, <3>3
  <2> QED BY <1>2, <2>1, <2>2
<1> QED BY <1>3, <1>4, <1>5 DEF Complete, TypeInv, TypeOK, governance, backend, Attempt

LEMMA SettleType ==
    ASSUME TypeInv, NEW p \in Callers, Settle(p)
    PROVE  TypeInv'
<1>1. attempts' \in Seq(Attempt) /\ DOMAIN attempts' = DOMAIN attempts
    BY SetAttemptType DEF Settle, TypeInv, AttemptStatus
<1>2. claims' \in [Approvals -> ClaimStatus]
    BY SetClaimType DEF Settle, TypeInv, ClaimAfter, ClaimStatus
<1>3. procs' \in [Callers -> ProcState] /\ CallersTyped'
    BY <1>1, CallersStay DEF Settle
<1> QED BY <1>1, <1>2, <1>3 DEF Settle, TypeInv, TypeOK, governance, backend, Attempt

LEMMA ReconcileType ==
    ASSUME TypeInv, NEW o \in Ops, Reconcile(o)
    PROVE  TypeInv'
<1>1. attempts' \in Seq(Attempt) /\ DOMAIN attempts' = DOMAIN attempts
    BY SetAttemptType DEF Reconcile, TypeInv, AttemptStatus
<1>2. claims' \in [Approvals -> ClaimStatus]
    BY SetClaimType DEF Reconcile, TypeInv, TypeOK, ClaimStatus
<1>3. receipts' \in [Ops -> Receipt]
    BY DEF Reconcile, TypeInv, TypeOK, Finding, Receipt, Outcome
<1>4. procs' \in [Callers -> ProcState] /\ CallersTyped'
    BY <1>1 DEF Reconcile, TypeInv, TypeOK, CallersTyped, CallOf
<1> QED BY <1>1, <1>2, <1>3, <1>4 DEF Reconcile, TypeInv, TypeOK, governance, backend, Attempt

LEMMA EnvironmentType ==
    ASSUME TypeInv, Environment
    PROVE  TypeInv'
<1>1. UNCHANGED <<attempts, procs, claims, receipts, reserved>>
    BY DEF Environment, IssueApproval, ExpireApproval, Cancel, ReadResource, Quarantine,
           ChangeHealth, ChangeContext, Handle, Lose, ConfirmAbsence
<1>2. CallersTyped'
    BY <1>1 DEF TypeInv, CallersTyped, CallOf
<1>3. used' \in [Sessions -> [toolCalls: Nat, serverCalls: Nat, bytes: Nat]]
  <2>1. CASE UNCHANGED used
    BY <2>1 DEF TypeInv, TypeOK
  <2>2. ASSUME NEW s \in Sessions, NEW size \in Sizes, ReadResource(s, size)
        PROVE  used' \in [Sessions -> [toolCalls: Nat, serverCalls: Nat, bytes: Nat]]
    <3>1. size \in Nat /\ used \in [Sessions -> [toolCalls: Nat, serverCalls: Nat, bytes: Nat]]
      BY GatewayAssumption DEF TypeInv, TypeOK
    <3>2. used' = [used EXCEPT ![s] = [toolCalls |-> used[s].toolCalls,
                                       serverCalls |-> used[s].serverCalls + 1,
                                       bytes |-> used[s].bytes + size]]
      BY <2>2 DEF ReadResource
    <3> QED BY <3>1, <3>2
  <2> QED BY <2>1, <2>2 DEF Environment, IssueApproval, ExpireApproval, Cancel, Quarantine,
                            ChangeHealth, ChangeContext, Handle, Lose, ConfirmAbsence
<1>4. /\ sent' \subseteq DOMAIN attempts /\ handled' \subseteq DOMAIN attempts
      /\ effects' \subseteq Ops /\ absent' \subseteq Ops
  <2>1. CASE UNCHANGED backend
    BY <2>1 DEF TypeInv, TypeOK, backend
  <2>2. ASSUME NEW n \in sent, Handle(n) \/ Lose(n)
        PROVE  /\ sent' \subseteq DOMAIN attempts /\ handled' \subseteq DOMAIN attempts
               /\ effects' \subseteq Ops /\ absent' \subseteq Ops
    <3>a. attempts \in Seq(Attempt) /\ n \in DOMAIN attempts
      BY DEF TypeInv, TypeOK, Attempt
    <3>1. n \in DOMAIN attempts /\ attempts[n] \in Attempt
      BY <3>a, ElementOfSeq
    <3>2. attempts[n].proposal.op \in Ops
      BY <3>1, GatewayAssumption DEF Proposal, Attempt
    <3> QED BY <2>2, <3>1, <3>2 DEF Handle, Lose, TypeInv, TypeOK
  <2>3. ASSUME NEW o \in Ops, ConfirmAbsence(o)
        PROVE  /\ sent' \subseteq DOMAIN attempts /\ handled' \subseteq DOMAIN attempts
               /\ effects' \subseteq Ops /\ absent' \subseteq Ops
    BY <2>3 DEF ConfirmAbsence, TypeInv, TypeOK
  <2> QED BY <2>1, <2>2, <2>3 DEF Environment, IssueApproval, ExpireApproval, Cancel,
                     ReadResource, Quarantine, ChangeHealth, ChangeContext
<1>5. /\ server' \in {"HEALTHY", "DEGRADED", "QUARANTINED"}
      /\ context' \in {"GRANTED", "STALE", "REVOKED"}
      /\ approvals' \in [Approvals -> {"ABSENT", "ISSUED", "EXPIRED"}]
      /\ cancelled' \subseteq Sessions
    BY DEF Environment, IssueApproval, ExpireApproval, Cancel, ReadResource, Quarantine,
           ChangeHealth, ChangeContext, Handle, Lose, ConfirmAbsence, TypeInv, TypeOK,
           governance
<1> QED BY <1>1, <1>2, <1>3, <1>4, <1>5 DEF TypeInv, TypeOK

LEMMA StutterType == ASSUME TypeInv, UNCHANGED vars PROVE TypeInv'
    BY DEF TypeInv, TypeOK, CallersTyped, CallOf, vars

\* Every table of the gateway stays well-typed, and a caller's attempt exists as
\* long as the caller holds it (NorthstarMCPGateway, all methods).
THEOREM GatewayTypes == Spec => []TypeOK
<1>1. TypeInv /\ [Next]_vars => TypeInv'
    BY AdmitType, ReserveType, DispatchType, QuietStepType, CompleteType, SettleType,
       ReconcileType, EnvironmentType, StutterType DEF Next, Calling, Working
<1>2. TypeInv => TypeOK
    BY DEF TypeInv
<1> QED BY InitType, <1>1, <1>2, PTL DEF Spec

-----------------------------------------------------------------------------
\* The budget of tool calls.

\* Steps that neither reserve nor account leave the sums alone.
LEMMA SumsKept ==
    ASSUME TypeInv, BudgetHolds, UNCHANGED reserved,
           \A s \in Sessions : used'[s].toolCalls = used[s].toolCalls
    PROVE  BudgetHolds'
    BY DEF BudgetHolds

LEMMA ReleaseKeepsBudget ==
    ASSUME TypeInv, BudgetHolds, NEW s \in Sessions, Release(s), UNCHANGED used
    PROVE  BudgetHolds'
    BY GatewayAssumption DEF BudgetHolds, Release, TypeInv, TypeOK

\* Accounting gives back the unit it consumes.
LEMMA AccountKeepsBudget ==
    ASSUME TypeInv, BudgetHolds, NEW s \in Sessions, NEW size \in Sizes \cup {0}, Account(s, size)
    PROVE  BudgetHolds'
<1>1. /\ used \in [Sessions -> [toolCalls: Nat, serverCalls: Nat, bytes: Nat]]
      /\ reserved \in [Sessions -> Int]
    BY DEF TypeInv, TypeOK
<1>2. \A t \in Sessions :
         /\ used'[t].toolCalls = IF t = s THEN used[s].toolCalls + 1 ELSE used[t].toolCalls
         /\ reserved'[t] = IF t = s THEN reserved[s] - 1 ELSE reserved[t]
    BY <1>1 DEF Account, Release
<1>3. \A t \in Sessions : used[t].toolCalls \in Nat /\ reserved[t] \in Int
    BY <1>1
<1> QED BY <1>2, <1>3, GatewayAssumption DEF BudgetHolds

LEMMA ReserveKeepsBudget ==
    ASSUME TypeInv, BudgetHolds, NEW p \in Callers, Reserve(p)
    PROVE  BudgetHolds'
<1> DEFINE s == CallOf(p).session
<1>1. s \in Sessions
    BY GatewayAssumption DEF TypeInv, CallersTyped, Reserve, Proposal
<1>2. UNCHANGED used
    BY DEF Reserve
<1>3. CASE UNCHANGED reserved
    BY <1>2, <1>3, SumsKept
<1>4. CASE Reservable(CallOf(p)) /\ reserved' = [reserved EXCEPT ![s] = @ + 1]
  <2>1. used[s].toolCalls + reserved[s] + 1 <= MaxToolCalls
    BY <1>4 DEF Reservable, BudgetLeft
  <2> QED BY <1>1, <1>2, <1>4, <2>1, GatewayAssumption DEF BudgetHolds, TypeInv, TypeOK
<1> QED BY <1>3, <1>4 DEF Reserve

\* However callers interleave, are cancelled, abandon calls or are reconciled
\* under their feet, no session's tool calls, finished and reserved, exceed its
\* budget (_check_budget, _reserve, _release_reservation, complete_tool_call).
THEOREM GatewayBudget == Spec => []BudgetHolds
<1>1. Init => BudgetHolds
    BY GatewayAssumption DEF Init, BudgetHolds
<1>2. ASSUME TypeInv, BudgetHolds, [Next]_vars PROVE BudgetHolds'
  <2>1. ASSUME NEW p \in Callers, NEW q \in Proposals, Admit(p, q) PROVE BudgetHolds'
    BY <1>2, <2>1, SumsKept DEF Admit
  <2>2. ASSUME NEW p \in Callers, Reserve(p) PROVE BudgetHolds'
    BY <1>2, <2>2, ReserveKeepsBudget
  <2>3. ASSUME NEW p \in Callers, RecordDispatch(p) PROVE BudgetHolds'
    <3>1. CallOf(p).session \in Sessions /\ UNCHANGED used
      BY <1>2, <2>3, GatewayAssumption
      DEF TypeInv, CallersTyped, RecordDispatch, Proposal
    <3>2. Release(CallOf(p).session) \/ UNCHANGED reserved
      BY <2>3 DEF RecordDispatch, CancelAttempt
    <3> QED BY <1>2, <3>1, <3>2, ReleaseKeepsBudget, SumsKept
  <2>4. ASSUME NEW p \in Callers,
               Send(p) \/ Abandon(p) \/ CompleteRefused(p) \/ Settle(p)
        PROVE  BudgetHolds'
    BY <1>2, <2>4, SumsKept DEF Send, Abandon, CompleteRefused, Settle
  <2>5. ASSUME NEW p \in Callers, Complete(p) PROVE BudgetHolds'
    <3>1. CallOf(p).session \in Sessions
      BY <1>2, <2>5, GatewayAssumption DEF TypeInv, CallersTyped, Complete, Proposal
    <3>2. \E size \in Sizes \cup {0} : Account(CallOf(p).session, size)
      BY <2>5 DEF Complete
    <3> QED BY <1>2, <3>1, <3>2, AccountKeepsBudget
  <2>6. ASSUME NEW o \in Ops, Reconcile(o) PROVE BudgetHolds'
    BY <1>2, <2>6, SumsKept DEF Reconcile
  <2>7. ASSUME NEW s \in Sessions, NEW size \in Sizes, ReadResource(s, size)
        PROVE  BudgetHolds'
    <3>1. used \in [Sessions -> [toolCalls: Nat, serverCalls: Nat, bytes: Nat]]
      BY <1>2 DEF TypeInv, TypeOK
    <3>2. \A t \in Sessions : used'[t].toolCalls = used[t].toolCalls
      BY <2>7, <3>1 DEF ReadResource
    <3> QED BY <1>2, <2>7, <3>2, SumsKept DEF ReadResource
  <2>8. CASE Environment /\ UNCHANGED <<used, reserved>>
    BY <1>2, <2>8, SumsKept
  <2>9. CASE UNCHANGED vars
    BY <1>2, <2>9, SumsKept DEF vars
  <2> QED BY <1>2, <2>1, <2>2, <2>3, <2>4, <2>5, <2>6, <2>7, <2>8, <2>9
          DEF Next, Calling, Working, Environment, IssueApproval, ExpireApproval, Cancel, Quarantine,
              ChangeHealth, ChangeContext, Handle, Lose, ConfirmAbsence
<1>3. TypeInv /\ [Next]_vars => TypeInv'
    BY AdmitType, ReserveType, DispatchType, QuietStepType, CompleteType, SettleType,
       ReconcileType, EnvironmentType, StutterType DEF Next, Calling, Working
<1> QED BY InitType, <1>1, <1>2, <1>3, PTL DEF Spec

-----------------------------------------------------------------------------
\* What the steps of QuietSpec do to callers and attempts.

\* A caller holds the attempt that it has reserved.
Held(p) == procs[p].pc \in {"prepared", "dispatched", "calling", "recorded"}

\* A caller's attempt is its own, carries its proposal, and has the status that
\* the caller's position says.
CallerInv ==
    /\ \A p \in Callers : Held(p) =>
          /\ AttemptOf(p).proposal = CallOf(p)
          /\ AttemptOf(p).status = IF procs[p].pc = "prepared" THEN "RESERVED" ELSE "DISPATCHED"
    /\ \A p, r \in Callers :
          Held(p) /\ Held(r) /\ procs[p].attempt = procs[r].attempt => p = r

\* The newest attempt of its operation.
Newest(n) ==
    /\ n \in DOMAIN attempts
    /\ \A m \in DOMAIN attempts : attempts[m].proposal.op = attempts[n].proposal.op => m <= n

\* Every operation that was attempted has a newest attempt.
NewestInv ==
    \A m \in DOMAIN attempts : \E n \in DOMAIN attempts :
        Newest(n) /\ attempts[n].proposal.op = attempts[m].proposal.op

\* A receipt tells of an attempt of its operation with its tool; a missing one
\* tells nothing.
ReceiptInv ==
    \A o \in Ops :
        /\ receipts[o].status = "NONE" => receipts[o].outcome = "NONE"
        /\ receipts[o].status # "NONE" =>
              \E n \in DOMAIN attempts :
                  attempts[n].proposal.op = o /\ attempts[n].proposal.tool = receipts[o].tool

BookInv == TypeInv /\ CallerInv /\ NewestInv /\ ReceiptInv

\* One attempt gets a new status, everything else in the table stays.
Marks(n, status) ==
    /\ n \in DOMAIN attempts
    /\ DOMAIN attempts' = DOMAIN attempts
    /\ \A m \in DOMAIN attempts :
          /\ attempts'[m].proposal = attempts[m].proposal
          /\ attempts'[m].status = IF m = n THEN status ELSE attempts[m].status

Others(p) == \A r \in Callers : r # p => procs'[r] = procs[r]

\* The kinds of steps, by what they do to attempts and callers.
LettingGo(p) ==
    /\ procs[p].pc # "recorded" /\ ~Held(p)' /\ Others(p)
    /\ UNCHANGED <<attempts, claims, receipts, reserved, backend>>

Reserving(p) ==
    LET q == CallOf(p) IN
    /\ procs[p].pc = "admitted" /\ q \in Proposals
    /\ q.tool = "FINANCIAL" => ApprovalFree(q)
    /\ DOMAIN attempts' = DOMAIN attempts \cup {Len(attempts) + 1}
    /\ \A n \in DOMAIN attempts : attempts'[n] = attempts[n]
    /\ attempts'[Len(attempts) + 1] = [proposal |-> q, status |-> "RESERVED"]
    /\ reserved' = [reserved EXCEPT ![q.session] = @ + 1]
    /\ claims' = [a \in Approvals |->
          IF a = q.approval /\ q.tool = "FINANCIAL" THEN "CLAIMED" ELSE claims[a]]
    /\ procs'[p] = At("prepared", q, Len(attempts) + 1, "NONE") /\ Others(p)
    /\ UNCHANGED <<receipts, backend>>

Cancelling(p) ==
    /\ procs[p].pc = "prepared" /\ ~Held(p)' /\ Others(p)
    /\ Marks(procs[p].attempt, "CANCELLED")
    /\ Release(CallOf(p).session)
    /\ SetClaim(CallOf(p).approval, "CONFIRMED_NO_EFFECT")
    /\ UNCHANGED <<receipts, backend>>

Dispatching(p) ==
    /\ procs[p].pc = "prepared" /\ Others(p)
    /\ Held(p)' => procs'[p] = [procs[p] EXCEPT !.pc = "dispatched"]
    /\ Marks(procs[p].attempt, "DISPATCHED")
    /\ SetClaim(CallOf(p).approval, "IN_FLIGHT")
    /\ UNCHANGED <<receipts, reserved, backend>>

Sending(p) ==
    /\ procs[p].pc = "dispatched" /\ Others(p)
    /\ procs'[p] = [procs[p] EXCEPT !.pc = "calling"]
    /\ sent' = sent \cup {procs[p].attempt}
    /\ UNCHANGED <<attempts, claims, receipts, reserved, handled, effects, absent>>

Denying(p) ==
    /\ procs[p].pc = "calling" /\ CallOf(p).tool = "READ" /\ ~Held(p)' /\ Others(p)
    /\ \E status \in {"RESPONSE_INVALID", "OUTCOME_UNKNOWN"} : Marks(procs[p].attempt, status)
    /\ Release(CallOf(p).session)
    /\ UNCHANGED <<claims, receipts, backend>>

Recording(p) ==
    /\ procs[p].pc = "calling" /\ Others(p)
    /\ \E answer \in {"OK", "UNKNOWN"} :
          /\ answer = "OK" => procs[p].attempt \in handled
          /\ procs'[p] = At("recorded", CallOf(p), procs[p].attempt, answer)
          /\ receipts' = [receipts EXCEPT ![CallOf(p).op] =
                [status |-> IF answer = "OK" THEN "SUCCEEDED" ELSE "UNKNOWN_OUTCOME",
                 outcome |-> "NONE", tool |-> CallOf(p).tool]]
    /\ Release(CallOf(p).session)
    /\ UNCHANGED <<attempts, claims, backend>>

Settling(p) ==
    /\ procs[p].pc = "recorded" /\ ~Held(p)' /\ Others(p)
    /\ Marks(procs[p].attempt, IF procs[p].answer = "OK" THEN "SUCCEEDED" ELSE "OUTCOME_UNKNOWN")
    /\ SetClaim(CallOf(p).approval, ClaimAfter(procs[p].answer))
    /\ UNCHANGED <<receipts, reserved, backend>>

Closing(o) ==
    LET known == Finding(o) # "STILL_UNKNOWN"
        n == Last(o) IN
    /\ receipts[o].status = "UNKNOWN_OUTCOME"
    /\ ~WorkedOn(o) /\ ~Outstanding(o) /\ ~Open(o)
    /\ Newest(n) /\ attempts[n].proposal.op = o
    /\ Marks(n, IF known THEN "RECONCILED" ELSE "OUTCOME_UNKNOWN")
    /\ receipts' = [receipts EXCEPT ![o] =
          [status |-> IF known THEN "RECONCILED" ELSE "UNKNOWN_OUTCOME",
           outcome |-> Finding(o), tool |-> receipts[o].tool]]
    /\ IF known
       THEN SetClaim(attempts[n].proposal.approval,
                     IF Finding(o) = "CONFIRMED_EFFECT" THEN "SUCCEEDED"
                                                        ELSE "CONFIRMED_NO_EFFECT")
       ELSE UNCHANGED claims
    /\ UNCHANGED <<reserved, procs, backend>>

Outside == UNCHANGED <<attempts, procs, claims, receipts, reserved>>

\* The elements of the attempt table are attempts, and its ids are numbers.
LEMMA AttemptsTyped ==
    ASSUME TypeInv
    PROVE  /\ attempts \in Seq(Attempt) /\ DOMAIN attempts = 1..Len(attempts)
           /\ Len(attempts) \in Nat
           /\ \A n \in DOMAIN attempts : n \in Nat /\ n <= Len(attempts)
           /\ \A n \in DOMAIN attempts :
                 /\ attempts[n] \in Attempt
                 /\ attempts[n].proposal \in Proposals
                 /\ attempts[n].proposal.op \in Ops
                 /\ attempts[n].proposal.session \in Sessions
                 /\ attempts[n].proposal.tool \in Tools
                 /\ attempts[n].status \in AttemptStatus
<1>1. attempts \in Seq(Attempt)
    BY DEF TypeInv, TypeOK, Attempt
<1>2. DOMAIN attempts = 1..Len(attempts) /\ Len(attempts) \in Nat
    BY <1>1
<1>3. \A n \in DOMAIN attempts : attempts[n] \in Attempt
    BY <1>1, <1>2, ElementOfSeq
<1> QED BY <1>1, <1>2, <1>3, GatewayAssumption DEF Attempt, Proposal

LEMMA SetAttemptMarks ==
    ASSUME TypeInv, NEW n \in DOMAIN attempts, NEW status, SetAttempt(n, status)
    PROVE  Marks(n, status)
<1>1. attempts' = [attempts EXCEPT ![n] = [proposal |-> attempts[n].proposal, status |-> status]]
    BY DEF SetAttempt
<1>2. attempts \in Seq(Attempt) /\ DOMAIN attempts = 1..Len(attempts)
    BY AttemptsTyped
<1>3. DOMAIN attempts' = DOMAIN attempts
    BY <1>1
<1>4. \A m \in DOMAIN attempts :
         attempts'[m] = IF m = n THEN [proposal |-> attempts[n].proposal, status |-> status]
                                 ELSE attempts[m]
    BY <1>1
<1> QED BY <1>3, <1>4 DEF Marks

LEMMA GoIdleIs ==
    ASSUME TypeInv, NEW p \in Callers, GoIdle(p)
    PROVE  ~Held(p)' /\ Others(p)
    BY DEF GoIdle, Idle, At, Held, Others, TypeInv, TypeOK

\* The operation's newest attempt is the one that reconciliation takes.
LEMMA LastIsNewest ==
    ASSUME BookInv, NEW o \in Ops, receipts[o].status # "NONE"
    PROVE  Newest(Last(o)) /\ attempts[Last(o)].proposal.op = o
<1>1. PICK m \in DOMAIN attempts : attempts[m].proposal.op = o
    BY DEF BookInv, ReceiptInv
<1>2. PICK n \in DOMAIN attempts : Newest(n) /\ attempts[n].proposal.op = o
    BY <1>1 DEF BookInv, NewestInv
<1> DEFINE mine == {k \in DOMAIN attempts : attempts[k].proposal.op = o}
<1>3. n \in mine /\ \A k \in mine : k <= n
    BY <1>2 DEF Newest
<1>4. Last(o) \in mine /\ \A k \in mine : k <= Last(o)
    BY <1>3 DEF Last
<1> QED BY <1>4 DEF Newest

LEMMA AdmitKind ==
    ASSUME BookInv, NEW p \in Callers, NEW q \in Proposals, Admit(p, q)
    PROVE  LettingGo(p)
<1>1. procs \in [Callers -> ProcState]
    BY DEF BookInv, TypeInv, TypeOK
<1> QED BY <1>1 DEF Admit, LettingGo, Held, Others, At, backend

LEMMA ReserveKind ==
    ASSUME BookInv, NEW p \in Callers, Reserve(p)
    PROVE  LettingGo(p) \/ Reserving(p)
<1> DEFINE q == CallOf(p)
<1>1. q \in Proposals
    BY DEF BookInv, TypeInv, CallersTyped, Reserve
<1>2. CASE GoIdle(p) /\ UNCHANGED <<attempts, reserved, claims>>
    BY <1>2, GoIdleIs DEF BookInv, Reserve, LettingGo
<1>3. CASE /\ Reservable(q)
           /\ attempts' = Append(attempts, [proposal |-> q, status |-> "RESERVED"])
           /\ reserved' = [reserved EXCEPT ![q.session] = @ + 1]
           /\ claims' = [a \in Approvals |->
                 IF a = q.approval /\ q.tool = "FINANCIAL" THEN "CLAIMED" ELSE claims[a]]
           /\ procs' = [procs EXCEPT ![p] = At("prepared", q, Len(attempts'), "NONE")]
  <2> DEFINE e == [proposal |-> q, status |-> "RESERVED"]
  <2>1. attempts \in Seq(Attempt) /\ Len(attempts) \in Nat /\ e \in Attempt
    BY <1>1, AttemptsTyped DEF BookInv, Attempt, AttemptStatus
  <2>2. /\ Len(attempts') = Len(attempts) + 1
        /\ DOMAIN attempts' = DOMAIN attempts \cup {Len(attempts) + 1}
        /\ \A n \in DOMAIN attempts : attempts'[n] = attempts[n]
        /\ attempts'[Len(attempts) + 1] = e
    BY <1>3, <2>1
  <2>3. procs'[p] = At("prepared", q, Len(attempts) + 1, "NONE") /\ Others(p)
    BY <1>3, <2>2 DEF BookInv, TypeInv, TypeOK, Others
  <2> QED BY <1>1, <1>3, <2>2, <2>3 DEF Reserve, Reservable, Reserving
<1> QED BY <1>2, <1>3 DEF Reserve

LEMMA DispatchKind ==
    ASSUME BookInv, NEW p \in Callers, RecordDispatch(p)
    PROVE  Cancelling(p) \/ Dispatching(p)
<1>1. procs[p].attempt \in DOMAIN attempts /\ procs[p].pc = "prepared" /\ TypeInv
    BY DEF BookInv, TypeInv, CallersTyped, RecordDispatch
<1>2. CASE CancelAttempt(p)
    BY <1>1, <1>2, SetAttemptMarks, GoIdleIs DEF CancelAttempt, RecordDispatch, Cancelling
<1>3. CASE /\ SetAttempt(procs[p].attempt, "DISPATCHED")
           /\ SetClaim(CallOf(p).approval, "IN_FLIGHT")
           /\ IF ClaimFound(CallOf(p).approval) THEN Goto(p, "dispatched") ELSE GoIdle(p)
           /\ UNCHANGED reserved
  <2>1. Marks(procs[p].attempt, "DISPATCHED")
    BY <1>1, <1>3, SetAttemptMarks
  <2>2. Others(p) /\ (Held(p)' => procs'[p] = [procs[p] EXCEPT !.pc = "dispatched"])
    <3>1. CASE GoIdle(p)
      BY <1>1, <3>1, GoIdleIs
    <3>2. CASE Goto(p, "dispatched")
      BY <1>1, <3>2 DEF Goto, Others, TypeInv, TypeOK
    <3> QED BY <1>3, <3>1, <3>2
  <2> QED BY <1>1, <1>3, <2>1, <2>2 DEF RecordDispatch, Dispatching
<1> QED BY <1>2, <1>3 DEF RecordDispatch

LEMMA SendKind ==
    ASSUME BookInv, NEW p \in Callers, Send(p)
    PROVE  Sending(p)
<1>1. procs \in [Callers -> ProcState]
    BY DEF BookInv, TypeInv, TypeOK
<1> QED BY <1>1 DEF Send, Goto, Sending, Others

LEMMA AbandonKind ==
    ASSUME BookInv, NEW p \in Callers, Abandon(p)
    PROVE  LettingGo(p)
    BY GoIdleIs DEF BookInv, Abandon, LettingGo

LEMMA CompleteKind ==
    ASSUME BookInv, NEW p \in Callers, Complete(p)
    PROVE  Denying(p) \/ Recording(p)
<1>1. /\ procs[p].attempt \in DOMAIN attempts /\ procs[p].pc = "calling" /\ TypeInv
      /\ procs \in [Callers -> ProcState]
    BY DEF BookInv, TypeInv, TypeOK, CallersTyped, Complete
<1>2. PICK answer \in Reports(procs[p].attempt), size \in Sizes \cup {0} :
         LET invalid == answer # "FAILED" /\ Unusable(CallOf(p).session, answer, size)
             failed == invalid \/ answer = "FAILED"
             denied == failed /\ Deniable(CallOf(p).tool) IN
         /\ Account(CallOf(p).session, size)
         /\ \/ denied /\ DenyResult(p, invalid)
            \/ ~denied /\ WriteReceipt(p, failed \/ answer = "UNKNOWN")
    BY DEF Complete
<1>3. Release(CallOf(p).session) /\ UNCHANGED <<claims, backend>>
    BY <1>2 DEF Account, Complete
<1>4. ASSUME NEW invalid \in BOOLEAN, Deniable(CallOf(p).tool), DenyResult(p, invalid)
      PROVE  Denying(p)
  <2>1. Marks(procs[p].attempt, IF invalid THEN "RESPONSE_INVALID" ELSE "OUTCOME_UNKNOWN")
    BY <1>1, <1>4, SetAttemptMarks DEF DenyResult
  <2>2. \E status \in {"RESPONSE_INVALID", "OUTCOME_UNKNOWN"} : Marks(procs[p].attempt, status)
    BY <2>1
  <2>3. ~Held(p)' /\ Others(p)
    BY <1>1, <1>4, GoIdleIs DEF DenyResult
  <2> QED BY <1>1, <1>3, <1>4, <2>2, <2>3 DEF Deniable, DenyResult, Denying
<1>5. ASSUME NEW unknown \in BOOLEAN, WriteReceipt(p, unknown),
             ~unknown => procs[p].attempt \in handled
      PROVE  Recording(p)
  <2> DEFINE reply == IF unknown THEN "UNKNOWN" ELSE "OK"
  <2>1. reply \in {"OK", "UNKNOWN"} /\ (reply = "OK" <=> ~unknown)
    OBVIOUS
  <2>2. procs'[p] = At("recorded", CallOf(p), procs[p].attempt, reply) /\ Others(p)
    BY <1>1, <1>5 DEF WriteReceipt, Others
  <2>3. receipts' = [receipts EXCEPT ![CallOf(p).op] =
             [status |-> IF reply = "OK" THEN "SUCCEEDED" ELSE "UNKNOWN_OUTCOME",
              outcome |-> "NONE", tool |-> CallOf(p).tool]]
    BY <1>5 DEF WriteReceipt
  <2>4. UNCHANGED attempts
    BY <1>5 DEF WriteReceipt
  <2> HIDE DEF reply
  <2> QED BY <1>1, <1>3, <1>5, <2>1, <2>2, <2>3, <2>4 DEF Recording
<1>6. CASE answer = "FAILED" \/ procs[p].attempt \in handled
    BY <1>2, <1>4, <1>5, <1>6
<1> QED BY <1>2, <1>6 DEF Reports

LEMMA SettleKind ==
    ASSUME BookInv, NEW p \in Callers, Settle(p)
    PROVE  Settling(p)
<1>1. procs[p].attempt \in DOMAIN attempts /\ procs[p].pc = "recorded" /\ TypeInv
    BY DEF BookInv, TypeInv, CallersTyped, Settle
<1> QED BY <1>1, SetAttemptMarks, GoIdleIs DEF Settle, Settling

LEMMA ReconcileKind ==
    ASSUME BookInv, NEW o \in Ops, QuietReconcile(o)
    PROVE  Closing(o)
<1>1. receipts[o].status = "UNKNOWN_OUTCOME"
    BY DEF QuietReconcile, Reconcile
<1>2. Newest(Last(o)) /\ attempts[Last(o)].proposal.op = o
    BY <1>1, LastIsNewest
<1>3. Last(o) \in DOMAIN attempts /\ TypeInv
    BY <1>2 DEF Newest, BookInv
<1>4. Marks(Last(o), IF Finding(o) # "STILL_UNKNOWN" THEN "RECONCILED" ELSE "OUTCOME_UNKNOWN")
    BY <1>3, SetAttemptMarks DEF QuietReconcile, Reconcile
<1> QED BY <1>1, <1>2, <1>4 DEF QuietReconcile, Reconcile, Closing

LEMMA OutsideKind ==
    ASSUME Environment \/ UNCHANGED vars
    PROVE  Outside
    BY DEF Environment, IssueApproval, ExpireApproval, Cancel, ReadResource, Quarantine,
           ChangeHealth, ChangeContext, Handle, Lose, ConfirmAbsence, vars, Outside

\* Every step of QuietSpec is of one of the kinds.
LEMMA QuietKinds ==
    ASSUME BookInv, [QuietNext]_vars
    PROVE  \/ \E p \in Callers : \/ LettingGo(p) \/ Reserving(p) \/ Cancelling(p)
                                 \/ Dispatching(p) \/ Sending(p) \/ Denying(p)
                                 \/ Recording(p) \/ Settling(p)
           \/ \E o \in Ops : Closing(o)
           \/ Environment \/ UNCHANGED vars
    BY AdmitKind, ReserveKind, DispatchKind, SendKind, AbandonKind, CompleteKind, SettleKind,
       ReconcileKind DEF QuietNext, Working

LEMMA QuietTypes ==
    ASSUME TypeInv, [QuietNext]_vars
    PROVE  TypeInv'
    BY AdmitType, ReserveType, DispatchType, QuietStepType, CompleteType, SettleType,
       ReconcileType, EnvironmentType, StutterType DEF QuietNext, Working, QuietReconcile

-----------------------------------------------------------------------------
\* Callers and attempts fit together after every step.

\* A new status leaves an attempt as new or as old as it was.
LEMMA MarksKeepNewest ==
    ASSUME NEW n, NEW status, Marks(n, status)
    PROVE  \A m : Newest(m)' <=> Newest(m)
    BY DEF Marks, Newest

LEMMA MarksKeepBooks ==
    ASSUME BookInv, NEW n, NEW status, Marks(n, status)
    PROVE  NewestInv' /\ (UNCHANGED receipts => ReceiptInv')
<1>1. NewestInv'
  <2> SUFFICES ASSUME NEW m \in DOMAIN attempts'
               PROVE  \E k \in DOMAIN attempts' :
                         Newest(k)' /\ attempts'[k].proposal.op = attempts'[m].proposal.op
    BY DEF NewestInv
  <2>1. PICK k \in DOMAIN attempts : Newest(k) /\ attempts[k].proposal.op = attempts[m].proposal.op
    BY DEF BookInv, NewestInv, Marks
  <2>2. Newest(k)'
    BY <2>1, MarksKeepNewest
  <2> QED BY <2>1, <2>2 DEF Marks
<1>2. ASSUME UNCHANGED receipts PROVE ReceiptInv'
    BY <1>2 DEF BookInv, ReceiptInv, Marks
<1> QED BY <1>1, <1>2

LEMMA SameAttemptsKeepBooks ==
    ASSUME BookInv, UNCHANGED attempts
    PROVE  NewestInv' /\ (UNCHANGED receipts => ReceiptInv')
    BY DEF BookInv, NewestInv, ReceiptInv, Newest

\* The other callers keep what they hold when one attempt that they do not hold
\* changes its status.
LEMMA LetGoKeepsCallers ==
    ASSUME BookInv, NEW p \in Callers, Others(p), ~Held(p)',
           \/ UNCHANGED attempts
           \/ Held(p) /\ \E status : Marks(procs[p].attempt, status)
    PROVE  CallerInv'
<1>1. \A r \in Callers : Held(r)' => r # p /\ Held(r) /\ procs'[r] = procs[r]
    BY DEF Others, Held
<1>2. \A r \in Callers : Held(r) => procs[r].attempt \in DOMAIN attempts
    BY DEF BookInv, TypeInv, CallersTyped, Held
<1>3. \A r \in Callers : Held(r)' => AttemptOf(r)' = AttemptOf(r) \/
           (AttemptOf(r)'.proposal = AttemptOf(r).proposal /\ AttemptOf(r)'.status = AttemptOf(r).status)
    BY <1>1, <1>2 DEF BookInv, CallerInv, AttemptOf, Marks
<1> QED BY <1>1, <1>3 DEF BookInv, CallerInv, CallOf

LEMMA LettingGoKeepsBooks ==
    ASSUME BookInv, NEW p \in Callers, LettingGo(p)
    PROVE  CallerInv' /\ NewestInv' /\ ReceiptInv'
    BY LetGoKeepsCallers, SameAttemptsKeepBooks DEF LettingGo

LEMMA ReservingKeepsBooks ==
    ASSUME BookInv, NEW p \in Callers, Reserving(p)
    PROVE  CallerInv' /\ NewestInv' /\ ReceiptInv'
<1>0. PICK new : new = Len(attempts) + 1
    OBVIOUS
<1>1. /\ new \in Nat /\ new \notin DOMAIN attempts /\ new \in DOMAIN attempts'
      /\ \A n \in DOMAIN attempts : n \in DOMAIN attempts' /\ n \in Nat /\ n <= new
      /\ \A n \in DOMAIN attempts' : n \in DOMAIN attempts \/ n = new
    BY <1>0, AttemptsTyped DEF BookInv, Reserving
<1>2. /\ \A n \in DOMAIN attempts : attempts'[n] = attempts[n]
      /\ attempts'[new] = [proposal |-> CallOf(p), status |-> "RESERVED"]
      /\ procs'[p] = At("prepared", CallOf(p), new, "NONE") /\ Others(p) /\ UNCHANGED receipts
    BY <1>0 DEF Reserving
<1>3. CallerInv'
  <2>1. \A r \in Callers : r # p => procs'[r] = procs[r] /\ (Held(r)' <=> Held(r))
    BY <1>2 DEF Others, Held
  <2>2. \A r \in Callers : Held(r) => procs[r].attempt \in DOMAIN attempts
    BY DEF BookInv, TypeInv, CallersTyped, Held
  <2>3. \A r \in Callers : r # p /\ Held(r)' =>
            /\ AttemptOf(r)' = AttemptOf(r) /\ CallOf(r)' = CallOf(r)
            /\ procs'[r].attempt \in DOMAIN attempts
    BY <1>2, <2>1, <2>2 DEF AttemptOf, CallOf
  <2>4. /\ procs'[p].attempt = new /\ procs'[p].pc = "prepared"
        /\ AttemptOf(p)' = [proposal |-> CallOf(p), status |-> "RESERVED"]
        /\ CallOf(p)' = CallOf(p)
    BY <1>2 DEF At, AttemptOf, CallOf
  <2>5. \A r \in Callers : Held(r)' =>
          /\ AttemptOf(r)'.proposal = CallOf(r)'
          /\ AttemptOf(r)'.status = IF procs'[r].pc = "prepared" THEN "RESERVED" ELSE "DISPATCHED"
    BY <2>1, <2>3, <2>4 DEF BookInv, CallerInv
  <2>6. \A q, r \in Callers :
          Held(q)' /\ Held(r)' /\ procs'[q].attempt = procs'[r].attempt => q = r
    BY <1>1, <2>1, <2>3, <2>4 DEF BookInv, CallerInv
  <2> QED BY <2>5, <2>6 DEF CallerInv
<1>4. Newest(new)'
    BY <1>1 DEF Newest
<1>5. NewestInv'
  <2> SUFFICES ASSUME NEW m \in DOMAIN attempts'
               PROVE  \E k \in DOMAIN attempts' :
                         Newest(k)' /\ attempts'[k].proposal.op = attempts'[m].proposal.op
    BY DEF NewestInv
  <2>1. CASE attempts'[m].proposal.op = attempts'[new].proposal.op
    BY <1>1, <1>4, <2>1
  <2>2. CASE attempts'[m].proposal.op # attempts'[new].proposal.op
    <3>1. m \in DOMAIN attempts
      BY <1>1, <2>2
    <3>2. PICK k \in DOMAIN attempts : Newest(k) /\ attempts[k].proposal.op = attempts[m].proposal.op
      BY <3>1 DEF BookInv, NewestInv
    <3>3. Newest(k)'
      BY <1>1, <1>2, <2>2, <3>1, <3>2 DEF Newest
    <3> QED BY <1>1, <1>2, <3>1, <3>2, <3>3
  <2> QED BY <2>1, <2>2
<1>6. ReceiptInv'
    BY <1>1, <1>2 DEF BookInv, ReceiptInv
<1> QED BY <1>3, <1>5, <1>6

LEMMA DispatchingKeepsBooks ==
    ASSUME BookInv, NEW p \in Callers, Dispatching(p)
    PROVE  CallerInv' /\ NewestInv' /\ ReceiptInv'
<1>1. NewestInv' /\ ReceiptInv'
    BY MarksKeepBooks DEF Dispatching
<1>2. CASE ~Held(p)'
  <2>1. Others(p) /\ Held(p) /\ \E status : Marks(procs[p].attempt, status)
    BY DEF Dispatching, Held
  <2> QED BY <1>1, <1>2, <2>1, LetGoKeepsCallers
<1>3. CASE Held(p)'
  <2>1. \A r \in Callers : Held(r)' => Held(r) /\ procs'[r].attempt = procs[r].attempt
                                      /\ CallOf(r)' = CallOf(r)
    BY <1>3 DEF Dispatching, Others, Held, CallOf, BookInv, TypeInv, TypeOK, ProcState
  <2>2. \A r \in Callers : r # p => procs'[r] = procs[r]
    BY DEF Dispatching, Others
  <2>3. \A r \in Callers : Held(r) => procs[r].attempt \in DOMAIN attempts
    BY DEF BookInv, TypeInv, CallersTyped, Held
  <2>4. \A r \in Callers : Held(r)' => AttemptOf(r)'.proposal = CallOf(r)'
    BY <2>1, <2>3 DEF BookInv, CallerInv, AttemptOf, Dispatching, Marks
  <2>5. \A r \in Callers : r # p /\ Held(r)' => AttemptOf(r)'.status = AttemptOf(r).status
    BY <2>1, <2>2, <2>3 DEF BookInv, CallerInv, AttemptOf, Dispatching, Marks, Held
  <2>6. procs'[p].pc = "dispatched" /\ AttemptOf(p)'.status = "DISPATCHED"
    BY <1>3, <2>1 DEF Dispatching, Marks, AttemptOf, BookInv, TypeInv, TypeOK, ProcState
  <2> QED BY <1>1, <2>1, <2>2, <2>4, <2>5, <2>6 DEF BookInv, CallerInv
<1> QED BY <1>1, <1>2, <1>3

LEMMA SendingKeepsBooks ==
    ASSUME BookInv, NEW p \in Callers, Sending(p)
    PROVE  CallerInv' /\ NewestInv' /\ ReceiptInv'
<1>1. NewestInv' /\ ReceiptInv'
    BY SameAttemptsKeepBooks DEF Sending
<1>2. \A r \in Callers : /\ Held(r)' => Held(r)
                         /\ procs'[r].attempt = procs[r].attempt /\ CallOf(r)' = CallOf(r)
                         /\ procs'[r].pc = "prepared" <=> procs[r].pc = "prepared"
    BY DEF Sending, Others, Held, CallOf, BookInv, TypeInv, TypeOK, ProcState
<1> QED BY <1>1, <1>2 DEF BookInv, CallerInv, AttemptOf, Sending

LEMMA RecordingKeepsBooks ==
    ASSUME BookInv, NEW p \in Callers, Recording(p)
    PROVE  CallerInv' /\ NewestInv' /\ ReceiptInv'
<1>0. Held(p) /\ procs[p].attempt \in DOMAIN attempts /\ AttemptOf(p).proposal = CallOf(p)
    BY DEF Recording, Held, BookInv, TypeInv, CallersTyped, CallerInv
<1>1. NewestInv'
    BY SameAttemptsKeepBooks DEF Recording
<1>2. \A r \in Callers : /\ Held(r)' <=> Held(r)
                         /\ procs'[r].attempt = procs[r].attempt /\ CallOf(r)' = CallOf(r)
                         /\ procs'[r].pc = "prepared" <=> procs[r].pc = "prepared"
    BY DEF Recording, Others, Held, CallOf, At
<1>3. CallerInv'
    BY <1>2 DEF BookInv, CallerInv, AttemptOf, Recording
<1>4. ReceiptInv'
  <2>0. \A o \in Ops : receipts'[o].status = "NONE" => receipts'[o].outcome = "NONE"
    BY DEF Recording, BookInv, ReceiptInv, TypeInv, TypeOK
  <2> SUFFICES ASSUME NEW o \in Ops, receipts'[o].status # "NONE"
               PROVE  \E n \in DOMAIN attempts :
                   attempts[n].proposal.op = o /\ attempts[n].proposal.tool = receipts'[o].tool
    BY <2>0 DEF Recording, ReceiptInv
  <2>1. CASE o = CallOf(p).op
    <3>1. receipts'[o].tool = CallOf(p).tool
      BY <2>1 DEF Recording, BookInv, TypeInv, TypeOK
    <3>2. AttemptOf(p).proposal.op = o /\ AttemptOf(p).proposal.tool = CallOf(p).tool
      BY <1>0, <2>1
    <3> QED BY <1>0, <3>1, <3>2 DEF AttemptOf
  <2>2. CASE o # CallOf(p).op
    BY <2>2 DEF Recording, BookInv, TypeInv, TypeOK, ReceiptInv
  <2> QED BY <2>1, <2>2
<1> QED BY <1>1, <1>3, <1>4

LEMMA ClosingKeepsBooks ==
    ASSUME BookInv, NEW o \in Ops, Closing(o)
    PROVE  CallerInv' /\ NewestInv' /\ ReceiptInv'
<1> DEFINE n == Last(o)
<1>1. /\ n \in DOMAIN attempts /\ attempts[n].proposal.op = o
      /\ attempts[n].status \notin {"RESERVED", "DISPATCHED"}
      /\ UNCHANGED procs
    BY DEF Closing, Newest, Open
<1>2. PICK status : Marks(n, status)
    BY DEF Closing
<1> HIDE DEF n
<1>3. NewestInv'
    BY <1>2, MarksKeepBooks
<1>4. CallerInv'
  <2>1. \A r \in Callers : Held(r) => procs[r].attempt \in DOMAIN attempts /\ procs[r].attempt # n
    BY <1>1 DEF BookInv, TypeInv, CallersTyped, CallerInv, Held, AttemptOf
  <2>2. \A r \in Callers : Held(r) => /\ AttemptOf(r)'.proposal = AttemptOf(r).proposal
                                      /\ AttemptOf(r)'.status = AttemptOf(r).status
    BY <1>1, <1>2, <2>1 DEF Marks, AttemptOf
  <2> QED BY <1>1, <2>2 DEF BookInv, CallerInv, Held, CallOf
<1>5. ReceiptInv'
  <2>1. \A x \in Ops : receipts'[x].tool = receipts[x].tool
                        /\ (receipts'[x].status # "NONE" => receipts[x].status # "NONE")
                        /\ (receipts'[x].status = "NONE" => receipts'[x] = receipts[x])
    BY DEF Closing, BookInv, TypeInv, TypeOK
  <2> QED BY <1>2, <2>1 DEF BookInv, ReceiptInv, Marks
<1> QED BY <1>3, <1>4, <1>5

LEMMA BooksKept ==
    ASSUME BookInv, [QuietNext]_vars
    PROVE  BookInv'
<1> DEFINE Goal == CallerInv' /\ NewestInv' /\ ReceiptInv'
<1>1. ASSUME NEW p \in Callers, LettingGo(p) PROVE Goal
    BY <1>1, LettingGoKeepsBooks
<1>2. ASSUME NEW p \in Callers, Reserving(p) PROVE Goal
    BY <1>2, ReservingKeepsBooks
<1>3. ASSUME NEW p \in Callers, Cancelling(p) \/ Denying(p) \/ Settling(p) PROVE Goal
  <2>1. PICK status : Marks(procs[p].attempt, status)
    BY <1>3 DEF Cancelling, Denying, Settling
  <2>2. Others(p) /\ ~Held(p)' /\ Held(p) /\ UNCHANGED receipts
    BY <1>3 DEF Cancelling, Denying, Settling, Held
  <2> QED BY <2>1, <2>2, LetGoKeepsCallers, MarksKeepBooks
<1>4. ASSUME NEW p \in Callers, Dispatching(p) PROVE Goal
    BY <1>4, DispatchingKeepsBooks
<1>5. ASSUME NEW p \in Callers, Sending(p) PROVE Goal
    BY <1>5, SendingKeepsBooks
<1>6. ASSUME NEW p \in Callers, Recording(p) PROVE Goal
    BY <1>6, RecordingKeepsBooks
<1>7. ASSUME NEW o \in Ops, Closing(o) PROVE Goal
    BY <1>7, ClosingKeepsBooks
<1>8. ASSUME Outside PROVE Goal
    BY <1>8, SameAttemptsKeepBooks
    DEF Outside, BookInv, CallerInv, Held, AttemptOf, CallOf
<1>9. Goal
    BY <1>1, <1>2, <1>3, <1>4, <1>5, <1>6, <1>7, <1>8, QuietKinds, OutsideKind
<1> QED BY <1>9, QuietTypes DEF BookInv

LEMMA InitBooks == Init => BookInv
<1> SUFFICES ASSUME Init PROVE BookInv
    OBVIOUS
<1>1. DOMAIN attempts = {}
    BY DEF Init
<1>2. CallerInv
    BY DEF Init, CallerInv, Held, Idle, At
<1>3. NewestInv /\ ReceiptInv
    BY <1>1 DEF Init, NewestInv, ReceiptInv
<1> QED BY <1>2, <1>3, InitType DEF BookInv

-----------------------------------------------------------------------------
\* Reservations.

HoldSet(s) == {n \in DOMAIN attempts : Holds(n, s)}

\* The attempts that hold a reservation are finitely many.
LEMMA HoldSetsFinite ==
    ASSUME BookInv
    PROVE  \A s : IsFiniteSet(HoldSet(s)) /\ Cardinality(HoldSet(s)) \in Nat
<1>1. IsFiniteSet(DOMAIN attempts)
    BY AttemptsTyped, FS_Interval DEF BookInv
<1>2. \A s : IsFiniteSet(HoldSet(s))
    BY <1>1, FS_Subset DEF HoldSet
<1> QED BY <1>2, FS_CardinalityType

LEMMA SameHoldSets ==
    ASSUME BookInv, ReservationsMatchAttempts, UNCHANGED reserved,
           \A s \in Sessions : HoldSet(s)' = HoldSet(s)
    PROVE  ReservationsMatchAttempts'
    BY DEF ReservationsMatchAttempts, HoldSet

\* Releasing goes with exactly one attempt that stops holding.
LEMMA LessHoldSets ==
    ASSUME BookInv, ReservationsMatchAttempts, NEW s \in Sessions, NEW n \in HoldSet(s), Release(s),
           \A t \in Sessions : HoldSet(t)' = HoldSet(t) \ {n}
    PROVE  ReservationsMatchAttempts'
<1>1. /\ reserved \in [Sessions -> Int]
      /\ \A t \in Sessions : reserved'[t] = IF t = s THEN reserved[t] - 1 ELSE reserved[t]
    BY DEF BookInv, TypeInv, TypeOK, Release
<1>2. Cardinality(HoldSet(s) \ {n}) = Cardinality(HoldSet(s)) - 1
    BY HoldSetsFinite, FS_RemoveElement
<1>3. \A t \in Sessions : t # s => HoldSet(t) \ {n} = HoldSet(t)
    BY DEF HoldSet, Holds
<1>4. \A t \in Sessions : reserved[t] = Cardinality(HoldSet(t))
    BY DEF ReservationsMatchAttempts, HoldSet
<1>5. \A t \in Sessions : reserved'[t] = Cardinality(HoldSet(t)')
    BY <1>1, <1>2, <1>3, <1>4
<1> QED BY <1>5 DEF ReservationsMatchAttempts, HoldSet

LEMMA ReservingKeepsReservations ==
    ASSUME BookInv, ReservationsMatchAttempts, NEW p \in Callers, Reserving(p)
    PROVE  ReservationsMatchAttempts'
<1>0. PICK new : new = Len(attempts) + 1
    OBVIOUS
<1> DEFINE s == CallOf(p).session
<1>1. PICK t : t = s
    OBVIOUS
<1>2. /\ t \in Sessions /\ new \notin DOMAIN attempts /\ DOMAIN attempts' = DOMAIN attempts \cup {new}
      /\ \A n \in DOMAIN attempts : attempts'[n] = attempts[n]
      /\ attempts'[new].proposal.session = t /\ attempts'[new].status = "RESERVED"
    BY <1>0, <1>1, AttemptsTyped, GatewayAssumption DEF BookInv, Reserving, Proposal
<1>3. reserved \in [Sessions -> Int] /\ reserved' = [reserved EXCEPT ![t] = @ + 1]
    BY <1>1 DEF BookInv, TypeInv, TypeOK, Reserving
<1>4. \A r \in Callers : /\ procs'[r].pc = "recorded" <=> procs[r].pc = "recorded"
                         /\ procs[r].pc = "recorded" => procs'[r].attempt = procs[r].attempt
                                                     /\ procs[r].attempt \in DOMAIN attempts
    BY DEF Reserving, Others, At, BookInv, TypeInv, CallersTyped
<1>5. \A u \in Sessions : HoldSet(u)' = IF u = t THEN HoldSet(u) \cup {new} ELSE HoldSet(u)
    BY <1>2, <1>4 DEF HoldSet, Holds
<1>6. new \notin HoldSet(t)
    BY <1>2 DEF HoldSet
<1>7. Cardinality(HoldSet(t) \cup {new}) = Cardinality(HoldSet(t)) + 1
    BY <1>6, HoldSetsFinite, FS_AddElement
<1>8. \A u \in Sessions : reserved[u] = Cardinality(HoldSet(u))
    BY DEF ReservationsMatchAttempts, HoldSet
<1>9. \A u \in Sessions : reserved'[u] = IF u = t THEN reserved[u] + 1 ELSE reserved[u]
    BY <1>3
<1>10. \A u \in Sessions : reserved'[u] = Cardinality(HoldSet(u)')
    BY <1>2, <1>5, <1>7, <1>8, <1>9
<1> QED BY <1>10 DEF ReservationsMatchAttempts, HoldSet

\* The attempt that a caller gives up, or whose result it takes, was the
\* caller's and held its reservation.
LEMMA HeldHolds ==
    ASSUME BookInv, NEW p \in Callers, Held(p), procs[p].pc # "recorded"
    PROVE  /\ CallOf(p).session \in Sessions
           /\ procs[p].attempt \in HoldSet(CallOf(p).session)
<1>1. /\ procs[p].attempt \in DOMAIN attempts /\ AttemptOf(p).proposal = CallOf(p)
      /\ AttemptOf(p).status \in {"RESERVED", "DISPATCHED"}
    BY DEF BookInv, TypeInv, CallersTyped, CallerInv, Held
<1>2. ~\E r \in Callers : procs[r].pc = "recorded" /\ procs[r].attempt = procs[p].attempt
    BY DEF BookInv, CallerInv, Held
<1> QED BY <1>1, <1>2, AttemptsTyped DEF BookInv, HoldSet, Holds, AttemptOf

LEMMA FreeingKeepsReservations ==
    ASSUME BookInv, ReservationsMatchAttempts, NEW p \in Callers,
           Cancelling(p) \/ Denying(p) \/ Recording(p)
    PROVE  ReservationsMatchAttempts'
<1>0. PICK n : n = procs[p].attempt
    OBVIOUS
<1>1. Held(p) /\ procs[p].pc # "recorded" /\ Others(p) /\ Release(CallOf(p).session)
    BY DEF Cancelling, Denying, Recording, Held
<1>2. \A r \in Callers : r # p => (procs'[r].pc = procs[r].pc /\ procs'[r].attempt = procs[r].attempt)
    BY <1>1 DEF Others
<1>3. \A t \in Sessions : HoldSet(t)' = HoldSet(t) \ {n}
  <2>1. CASE Cancelling(p) \/ Denying(p)
    <3>1. \E status : status \notin {"RESERVED", "DISPATCHED"} /\ Marks(n, status)
      BY <1>0, <2>1 DEF Cancelling, Denying
    <3>2. procs'[p].pc # "recorded"
      BY <2>1 DEF Cancelling, Denying, Held
    <3> QED BY <1>1, <1>2, <3>1, <3>2 DEF HoldSet, Holds, Marks
  <2>2. CASE Recording(p)
    <3>1. procs'[p].pc = "recorded" /\ procs'[p].attempt = n /\ UNCHANGED attempts
      BY <1>0, <2>2 DEF Recording, At
    <3> QED BY <1>1, <1>2, <3>1 DEF HoldSet, Holds
  <2> QED BY <2>1, <2>2
<1> QED BY <1>0, <1>1, <1>3, HeldHolds, LessHoldSets

LEMMA OthersKeepReservations ==
    ASSUME BookInv, ReservationsMatchAttempts, NEW p \in Callers,
           LettingGo(p) \/ Dispatching(p) \/ Sending(p) \/ Settling(p)
    PROVE  ReservationsMatchAttempts'
<1>0. PICK n : n = procs[p].attempt
    OBVIOUS
<1>1. Others(p) /\ UNCHANGED reserved
    BY DEF LettingGo, Dispatching, Sending, Settling
<1>2. \A r \in Callers : r # p => (procs'[r].pc = procs[r].pc /\ procs'[r].attempt = procs[r].attempt)
    BY <1>1 DEF Others
<1>3. procs'[p].pc # "recorded"
    BY DEF LettingGo, Dispatching, Sending, Settling, Held, BookInv, TypeInv, TypeOK, ProcState
<1>4. \A t \in Sessions : HoldSet(t)' = HoldSet(t)
  <2>1. CASE LettingGo(p) \/ Sending(p)
    <3>1. procs[p].pc # "recorded" /\ UNCHANGED attempts
      BY <2>1 DEF LettingGo, Sending
    <3> QED BY <1>2, <1>3, <3>1 DEF HoldSet, Holds
  <2>2. CASE Dispatching(p)
    <3>1. procs[p].pc # "recorded" /\ Marks(n, "DISPATCHED")
      BY <1>0, <2>2 DEF Dispatching
    <3>2. attempts[n].status = "RESERVED"
      BY <1>0, <2>2 DEF Dispatching, BookInv, CallerInv, Held, AttemptOf
    <3> QED BY <1>2, <1>3, <3>1, <3>2 DEF HoldSet, Holds, Marks
  <2>3. CASE Settling(p)
    <3>1. procs[p].pc = "recorded" /\ \E status \in {"SUCCEEDED", "OUTCOME_UNKNOWN"} : Marks(n, status)
      BY <1>0, <2>3 DEF Settling
    <3> QED BY <1>0, <1>2, <1>3, <3>1 DEF HoldSet, Holds, Marks
  <2> QED BY <2>1, <2>2, <2>3
<1> QED BY <1>1, <1>4, SameHoldSets

LEMMA ClosingKeepsReservations ==
    ASSUME BookInv, ReservationsMatchAttempts, NEW o \in Ops, Closing(o)
    PROVE  ReservationsMatchAttempts'
<1>0. PICK n : n = Last(o)
    OBVIOUS
<1>1. /\ n \in DOMAIN attempts /\ attempts[n].status \notin {"RESERVED", "DISPATCHED"}
      /\ UNCHANGED <<procs, reserved>>
    BY <1>0 DEF Closing, Newest, Open
<1>2. \E status \in {"RECONCILED", "OUTCOME_UNKNOWN"} : Marks(n, status)
    BY <1>0 DEF Closing
<1>3. \A t \in Sessions : HoldSet(t)' = HoldSet(t)
    BY <1>1, <1>2 DEF HoldSet, Holds, Marks
<1> QED BY <1>1, <1>3, SameHoldSets

\* As long as reconciliation leaves running calls alone, what a session has
\* reserved is what its open attempts can still release: no path of
\* record_dispatch, cancel or complete_tool_call leaks a reservation or releases
\* one twice, and a call that is abandoned keeps exactly its own.
THEOREM ReservationsMatch == QuietSpec => []ReservationsMatchAttempts
<1>1. Init => ReservationsMatchAttempts
  <2> SUFFICES ASSUME Init PROVE ReservationsMatchAttempts
    OBVIOUS
  <2>1. \A s \in Sessions : HoldSet(s) = {} /\ reserved[s] = 0
    <3>1. DOMAIN attempts = {}
      BY DEF Init
    <3> QED BY <3>1 DEF Init, HoldSet
  <2> QED BY <2>1, FS_EmptySet DEF ReservationsMatchAttempts, HoldSet
<1>2. ASSUME BookInv, ReservationsMatchAttempts, [QuietNext]_vars
      PROVE  ReservationsMatchAttempts'
  <2>1. ASSUME NEW p \in Callers, Reserving(p) PROVE ReservationsMatchAttempts'
    BY <1>2, <2>1, ReservingKeepsReservations
  <2>2. ASSUME NEW p \in Callers, Cancelling(p) \/ Denying(p) \/ Recording(p)
        PROVE  ReservationsMatchAttempts'
    BY <1>2, <2>2, FreeingKeepsReservations
  <2>3. ASSUME NEW p \in Callers, LettingGo(p) \/ Dispatching(p) \/ Sending(p) \/ Settling(p)
        PROVE  ReservationsMatchAttempts'
    BY <1>2, <2>3, OthersKeepReservations
  <2>4. ASSUME NEW o \in Ops, Closing(o) PROVE ReservationsMatchAttempts'
    BY <1>2, <2>4, ClosingKeepsReservations
  <2>5. ASSUME Outside PROVE ReservationsMatchAttempts'
    BY <1>2, <2>5 DEF Outside, ReservationsMatchAttempts, Holds
  <2> QED BY <1>2, <2>1, <2>2, <2>3, <2>4, <2>5, QuietKinds, OutsideKind
<1> QED BY InitBooks, BooksKept, <1>1, <1>2, PTL DEF QuietSpec

-----------------------------------------------------------------------------
\* One consequential call for each approval.

OpOf(n) == attempts[n].proposal.op
ApprovalOf(n) == attempts[n].proposal.approval
StatusOf(n) == attempts[n].status
Gated(n) == attempts[n].proposal.tool = "FINANCIAL"

\* An attempt of a consequential call names an approval of its operation, any
\* other attempt names none.
BoundInv ==
    \A n \in DOMAIN attempts :
        IF Gated(n) THEN ApprovalOf(n) \in Approvals /\ ApprovalOp[ApprovalOf(n)] = OpOf(n)
                    ELSE ApprovalOf(n) = NoApproval

\* A consequential operation was tried again only after every earlier attempt
\* had been cancelled or reconciled.
SettledInv ==
    \A m, n \in DOMAIN attempts :
        Gated(n) /\ OpOf(m) = OpOf(n) /\ m < n => StatusOf(m) \in {"CANCELLED", "RECONCILED"}

\* A claim says what the newest attempt under its approval says.
ClaimInv ==
    /\ \A a \in Approvals :
          (\A n \in DOMAIN attempts : ~(Gated(n) /\ ApprovalOf(n) = a)) => claims[a] = "NONE"
    /\ \A n \in DOMAIN attempts : Newest(n) /\ Gated(n) => claims[ApprovalOf(n)] = ClaimOf(n)

\* A caller has written the receipt for attempt n and is about to settle it.
RecordedAs(n, answer) ==
    \E p \in Callers : procs[p].pc = "recorded" /\ procs[p].attempt = n /\ procs[p].answer = answer

\* The receipt of an operation agrees with its newest attempt.
Truth(n) ==
    LET r == receipts[OpOf(n)] IN
    /\ r.status = "UNKNOWN_OUTCOME" =>
          /\ r.outcome \in {"NONE", "STILL_UNKNOWN"}
          /\ StatusOf(n) = "OUTCOME_UNKNOWN" \/ RecordedAs(n, "UNKNOWN")
    /\ r.status = "SUCCEEDED" =>
          /\ r.outcome = "NONE"
          /\ StatusOf(n) = "SUCCEEDED" \/ RecordedAs(n, "OK")
    /\ r.outcome = "CONFIRMED_EFFECT" => StatusOf(n) = "RECONCILED"

TruthInv == \A n \in DOMAIN attempts : Newest(n) /\ Gated(n) => Truth(n)

\* What the backend may still do, and what it has done.
EffectInv ==
    /\ \A n \in sent : Gated(n) => StatusOf(n) \in {"DISPATCHED", "OUTCOME_UNKNOWN"}
    /\ sent \cap handled = {}
    /\ \A p \in Callers : procs[p].pc \in {"prepared", "dispatched"} =>
          procs[p].attempt \notin sent \cup handled
    /\ \A p \in Callers : procs[p].pc = "recorded" /\ procs[p].answer = "OK" =>
          procs[p].attempt \in handled
    /\ \A n \in handled : Gated(n) => OpOf(n) \in effects

ClaimsInv == BookInv /\ BoundInv /\ SettledInv /\ ClaimInv /\ TruthInv /\ EffectInv

\* One operation has one tool, and a consequential one has one approval.
LEMMA OneApproval ==
    ASSUME OneCallEach, BookInv, BoundInv, NEW m \in DOMAIN attempts, NEW n \in DOMAIN attempts
    PROVE  /\ OpOf(m) = OpOf(n) => (Gated(m) <=> Gated(n))
           /\ Gated(n) /\ Gated(m) => (OpOf(m) = OpOf(n) <=> ApprovalOf(m) = ApprovalOf(n))
           /\ OpOf(n) \in Ops
<1>1. attempts[m].proposal \in Proposals /\ attempts[n].proposal \in Proposals /\ OpOf(n) \in Ops
    BY AttemptsTyped DEF BookInv, OpOf
<1>2. OpOf(m) = OpOf(n) => (Gated(m) <=> Gated(n))
    BY <1>1 DEF OneCallEach, OpOf, Gated
<1>3. Gated(n) /\ Gated(m) => (OpOf(m) = OpOf(n) <=> ApprovalOf(m) = ApprovalOf(n))
    BY DEF BoundInv, OneCallEach
<1> QED BY <1>1, <1>2, <1>3

\* An attempt that is not closed is the newest of its operation.
LEMMA OpenIsNewest ==
    ASSUME ClaimsInv, OneCallEach, NEW n \in DOMAIN attempts, Gated(n),
           StatusOf(n) \notin {"CANCELLED", "RECONCILED"}
    PROVE  Newest(n)
<1> SUFFICES ASSUME NEW m \in DOMAIN attempts, OpOf(m) = OpOf(n) PROVE m <= n
    BY DEF Newest, OpOf
<1>1. Gated(m)
    BY OneApproval DEF ClaimsInv
<1>2. m \in Nat /\ n \in Nat
    BY AttemptsTyped DEF ClaimsInv, BookInv
<1>3. ~(n < m)
    BY <1>1 DEF ClaimsInv, SettledInv
<1> QED BY <1>2, <1>3

\* There is one newest attempt of an operation.
LEMMA OneNewest ==
    ASSUME BookInv, NEW m, NEW n, Newest(m), Newest(n), OpOf(m) = OpOf(n)
    PROVE  m = n
    BY AttemptsTyped DEF BookInv, Newest, OpOf

\* What a caller holds.
LEMMA HeldIs ==
    ASSUME ClaimsInv, OneCallEach, NEW p \in Callers, Held(p), NEW n, n = procs[p].attempt
    PROVE  /\ n \in DOMAIN attempts
           /\ attempts[n].proposal = CallOf(p)
           /\ StatusOf(n) = IF procs[p].pc = "prepared" THEN "RESERVED" ELSE "DISPATCHED"
           /\ CallOf(p).tool = "FINANCIAL" <=> Gated(n)
           /\ CallOf(p).approval = ApprovalOf(n) /\ CallOf(p).op = OpOf(n)
           /\ Gated(n) => Newest(n)
           /\ \A answer : RecordedAs(n, answer) =>
                 procs[p].pc = "recorded" /\ procs[p].answer = answer
<1>1. /\ n \in DOMAIN attempts /\ attempts[n].proposal = CallOf(p)
      /\ StatusOf(n) = IF procs[p].pc = "prepared" THEN "RESERVED" ELSE "DISPATCHED"
    BY DEF ClaimsInv, BookInv, TypeInv, CallersTyped, CallerInv, Held, AttemptOf, StatusOf
<1>2. Gated(n) => Newest(n)
    BY <1>1, OpenIsNewest
<1>3. \A answer : RecordedAs(n, answer) =>
                 procs[p].pc = "recorded" /\ procs[p].answer = answer
    BY DEF RecordedAs, ClaimsInv, BookInv, CallerInv, Held
<1> QED BY <1>1, <1>2, <1>3 DEF Gated, ApprovalOf, OpOf

\* The word for the claim, status by status.
LEMMA ClaimOfIs ==
    ASSUME NEW n, StatusOf(n) \in AttemptStatus
    PROVE  ClaimOf(n) =
             IF StatusOf(n) = "RESERVED" THEN "CLAIMED"
             ELSE IF StatusOf(n) = "CANCELLED" THEN "CONFIRMED_NO_EFFECT"
             ELSE IF StatusOf(n) = "DISPATCHED" THEN "IN_FLIGHT"
             ELSE IF StatusOf(n) = "SUCCEEDED" THEN "SUCCEEDED"
             ELSE IF StatusOf(n) = "RECONCILED"
             THEN IF receipts[OpOf(n)].outcome = "CONFIRMED_EFFECT"
                  THEN "SUCCEEDED" ELSE "CONFIRMED_NO_EFFECT"
             ELSE "UNKNOWN"
    BY DEF ClaimOf, StatusOf, OpOf, AttemptStatus

-----------------------------------------------------------------------------
\* A new status for one attempt.

LEMMA MarksAre ==
    ASSUME NEW n, NEW status, Marks(n, status)
    PROVE  /\ n \in DOMAIN attempts /\ DOMAIN attempts' = DOMAIN attempts
           /\ \A m \in DOMAIN attempts :
                 /\ OpOf(m)' = OpOf(m) /\ ApprovalOf(m)' = ApprovalOf(m)
                 /\ Gated(m)' <=> Gated(m)
                 /\ StatusOf(m)' = IF m = n THEN status ELSE StatusOf(m)
                 /\ Newest(m)' <=> Newest(m)
    BY MarksKeepNewest DEF Marks, OpOf, ApprovalOf, Gated, StatusOf

\* A closed or newest attempt may get its status without reopening another.
LEMMA MarksKeepOrder ==
    ASSUME ClaimsInv, OneCallEach, NEW n, NEW status, Marks(n, status), Gated(n) => Newest(n)
    PROVE  BoundInv' /\ SettledInv'
<1>1. BoundInv'
    BY MarksAre DEF ClaimsInv, BoundInv
<1>2. SettledInv'
  <2> SUFFICES ASSUME NEW m \in DOMAIN attempts, NEW k \in DOMAIN attempts,
                      Gated(k), OpOf(m) = OpOf(k), m < k
               PROVE  StatusOf(m)' \in {"CANCELLED", "RECONCILED"}
    BY MarksAre DEF SettledInv
  <2>1. StatusOf(m) \in {"CANCELLED", "RECONCILED"}
    BY DEF ClaimsInv, SettledInv
  <2>2. m # n
    <3> SUFFICES ASSUME m = n PROVE FALSE
      OBVIOUS
    <3>1. Gated(n)
      BY OneApproval DEF ClaimsInv
    <3>2. k <= m /\ k \in Nat /\ m \in Nat
      BY <3>1, AttemptsTyped DEF Newest, OpOf, ClaimsInv, BookInv
    <3> QED BY <3>2
  <2> QED BY <2>1, <2>2, MarksAre
<1> QED BY <1>1, <1>2

\* Another attempt's claim word depends on its own status and receipt.
LEMMA SameWord ==
    ASSUME ClaimsInv, NEW m \in DOMAIN attempts, StatusOf(m)' = StatusOf(m), OpOf(m)' = OpOf(m),
           StatusOf(m) = "RECONCILED" => receipts'[OpOf(m)] = receipts[OpOf(m)]
    PROVE  ClaimOf(m)' = ClaimOf(m)
<1>1. StatusOf(m) \in AttemptStatus
    BY AttemptsTyped DEF StatusOf, ClaimsInv, BookInv
<1>2. ClaimOf(m)' =
             IF StatusOf(m)' = "RESERVED" THEN "CLAIMED"
             ELSE IF StatusOf(m)' = "CANCELLED" THEN "CONFIRMED_NO_EFFECT"
             ELSE IF StatusOf(m)' = "DISPATCHED" THEN "IN_FLIGHT"
             ELSE IF StatusOf(m)' = "SUCCEEDED" THEN "SUCCEEDED"
             ELSE IF StatusOf(m)' = "RECONCILED"
             THEN IF receipts'[OpOf(m)'].outcome = "CONFIRMED_EFFECT"
                  THEN "SUCCEEDED" ELSE "CONFIRMED_NO_EFFECT"
             ELSE "UNKNOWN"
    BY <1>1 DEF ClaimOf, StatusOf, OpOf, AttemptStatus
<1> QED BY <1>1, <1>2, ClaimOfIs

\* The newest attempt of a consequential operation and its claim move together.
LEMMA MarkedClaim ==
    ASSUME ClaimsInv, OneCallEach, NEW n, NEW status \in AttemptStatus, NEW word,
           Marks(n, status), Gated(n), Newest(n),
           SetClaim(ApprovalOf(n), word), ClaimOf(n)' = word,
           \A o \in Ops : o # OpOf(n) => receipts'[o] = receipts[o]
    PROVE  ClaimInv'
<1> DEFINE a == ApprovalOf(n)
<1>0. PICK b : b = ApprovalOf(n)
    OBVIOUS
<1>1. n \in DOMAIN attempts /\ b \in Approvals /\ claims[b] = ClaimOf(n)
    BY <1>0 DEF Newest, ClaimsInv, BoundInv, ClaimInv
<1>2. claims[b] # "NONE"
  <2>1. StatusOf(n) \in AttemptStatus
    BY <1>1, AttemptsTyped DEF StatusOf, ClaimsInv, BookInv
  <2> QED BY <1>1, <2>1, ClaimOfIs
<1>3. \A c \in Approvals : claims'[c] = IF c = b THEN word ELSE claims[c]
    BY <1>0, <1>2 DEF SetClaim
<1>4. ASSUME NEW c \in Approvals, \A m \in DOMAIN attempts' : ~(Gated(m)' /\ ApprovalOf(m)' = c)
      PROVE  claims'[c] = "NONE"
  <2>1. \A m \in DOMAIN attempts : ~(Gated(m) /\ ApprovalOf(m) = c)
    BY <1>4, MarksAre
  <2>2. c # b
    BY <1>0, <1>1, <2>1
  <2> QED BY <1>3, <2>1, <2>2 DEF ClaimsInv, ClaimInv
<1>5. ASSUME NEW m \in DOMAIN attempts', Newest(m)', Gated(m)'
      PROVE  claims'[ApprovalOf(m)'] = ClaimOf(m)'
  <2>1. m \in DOMAIN attempts /\ Newest(m) /\ Gated(m) /\ ApprovalOf(m)' = ApprovalOf(m)
    BY <1>5, MarksAre
  <2>2. CASE m = n
    BY <1>0, <1>1, <1>3, <2>1, <2>2
  <2>3. CASE m # n
    <3>1. OpOf(m) # OpOf(n) /\ OpOf(m) \in Ops
      BY <1>1, <2>1, <2>3, OneNewest, OneApproval DEF ClaimsInv
    <3>2. ApprovalOf(m) # b /\ ApprovalOf(m) \in Approvals
      BY <1>0, <1>1, <2>1, <3>1, OneApproval DEF ClaimsInv, BoundInv
    <3>3. ClaimOf(m)' = ClaimOf(m)
      BY <2>1, <2>3, <3>1, MarksAre, SameWord
    <3>4. claims[ApprovalOf(m)] = ClaimOf(m)
      BY <2>1 DEF ClaimsInv, ClaimInv
    <3> QED BY <1>3, <2>1, <3>2, <3>3, <3>4
  <2> QED BY <2>2, <2>3
<1> QED BY <1>4, <1>5 DEF ClaimInv

\* The status of another attempt says nothing about a claim.
LEMMA OtherMark ==
    ASSUME ClaimsInv, OneCallEach, NEW n, NEW status, Marks(n, status), ~Gated(n),
           UNCHANGED claims, \A o \in Ops : o # OpOf(n) => receipts'[o] = receipts[o]
    PROVE  ClaimInv'
<1>1. ASSUME NEW m \in DOMAIN attempts, Newest(m), Gated(m)
      PROVE  claims'[ApprovalOf(m)'] = ClaimOf(m)'
  <2>1. OpOf(m) # OpOf(n) /\ OpOf(m) \in Ops /\ m # n
    BY <1>1, MarksAre, OneApproval DEF ClaimsInv
  <2>2. ClaimOf(m)' = ClaimOf(m)
    BY <2>1, MarksAre, SameWord
  <2> QED BY <1>1, <2>2, MarksAre DEF ClaimsInv, ClaimInv
<1>2. \A c \in Approvals :
         (\A m \in DOMAIN attempts' : ~(Gated(m)' /\ ApprovalOf(m)' = c)) => claims'[c] = "NONE"
    BY MarksAre DEF ClaimsInv, ClaimInv
<1> QED BY <1>1, <1>2, MarksAre DEF ClaimInv

\* An unbound claim stays as it is.
LEMMA NoClaim ==
    ASSUME TypeInv, NEW word, SetClaim(NoApproval, word)
    PROVE  UNCHANGED claims
    BY GatewayAssumption DEF SetClaim, TypeInv, TypeOK

\* The receipt of an operation keeps telling the truth as long as it, the newest
\* attempt and the caller that recorded it stay.
LEMMA TruthStays ==
    ASSUME NEW n, Truth(n), OpOf(n)' = OpOf(n), StatusOf(n)' = StatusOf(n),
           receipts'[OpOf(n)] = receipts[OpOf(n)],
           \A answer : RecordedAs(n, answer) => RecordedAs(n, answer)'
    PROVE  Truth(n)'
    BY DEF Truth

-----------------------------------------------------------------------------
\* The steps, one by one.

\* Steps that change neither attempts nor claims nor receipts.
LEMMA StillClaims ==
    ASSUME ClaimsInv, UNCHANGED <<attempts, claims, receipts>>,
           \A n, answer : RecordedAs(n, answer) => RecordedAs(n, answer)'
    PROVE  BoundInv' /\ SettledInv' /\ ClaimInv' /\ TruthInv'
<1>1. BoundInv' /\ SettledInv'
    BY DEF ClaimsInv, BoundInv, SettledInv, Gated, OpOf, ApprovalOf, StatusOf
<1>2. ClaimInv'
    BY DEF ClaimsInv, ClaimInv, Gated, ApprovalOf, Newest, ClaimOf
<1>3. TruthInv'
  <2> SUFFICES ASSUME NEW n \in DOMAIN attempts, Newest(n), Gated(n) PROVE Truth(n)'
    BY DEF TruthInv, Newest, Gated
  <2>1. Truth(n)
    BY DEF ClaimsInv, TruthInv
  <2> QED BY <2>1, TruthStays DEF OpOf, StatusOf
<1> QED BY <1>1, <1>2, <1>3

LEMMA LettingGoKeepsClaims ==
    ASSUME ClaimsInv, NEW p \in Callers, LettingGo(p)
    PROVE  BoundInv' /\ SettledInv' /\ ClaimInv' /\ TruthInv' /\ EffectInv'
<1>1. \A n, answer : RecordedAs(n, answer) => RecordedAs(n, answer)'
    BY DEF RecordedAs, LettingGo, Others
<1>2. EffectInv'
    BY DEF ClaimsInv, EffectInv, LettingGo, Others, Held, backend, Gated, OpOf, StatusOf
<1> QED BY <1>1, <1>2, StillClaims DEF LettingGo

LEMMA SendingKeepsClaims ==
    ASSUME ClaimsInv, OneCallEach, NEW p \in Callers, Sending(p)
    PROVE  BoundInv' /\ SettledInv' /\ ClaimInv' /\ TruthInv' /\ EffectInv'
<1>1. \A n, answer : RecordedAs(n, answer) => RecordedAs(n, answer)'
    BY DEF RecordedAs, Sending, Others
<1>2. EffectInv'
  <2>0. PICK n : n = procs[p].attempt
    OBVIOUS
  <2>1. /\ StatusOf(n) = "DISPATCHED" /\ n \notin sent \cup handled
        /\ sent' = sent \cup {n} /\ UNCHANGED <<attempts, handled, effects>>
    BY <2>0, HeldIs DEF Sending, Held, ClaimsInv, EffectInv
  <2>2. \A r \in Callers : procs'[r].pc \in {"prepared", "dispatched"} =>
           r # p /\ procs'[r] = procs[r] /\ procs[r].attempt # n
    BY <2>0 DEF Sending, Others, ClaimsInv, BookInv, CallerInv, Held, TypeInv, TypeOK, ProcState
  <2>3. \A r \in Callers : procs'[r].pc = "recorded" => r # p /\ procs'[r] = procs[r]
    BY DEF Sending, Others, ClaimsInv, BookInv, TypeInv, TypeOK, ProcState
  <2> QED BY <2>1, <2>2, <2>3 DEF ClaimsInv, EffectInv, Gated, OpOf, StatusOf
<1> QED BY <1>1, <1>2, StillClaims DEF Sending

\* What the backend does on its own.
LEMMA OutsideKeepsClaims ==
    ASSUME ClaimsInv, Environment \/ UNCHANGED vars
    PROVE  BoundInv' /\ SettledInv' /\ ClaimInv' /\ TruthInv' /\ EffectInv'
<1>1. UNCHANGED <<attempts, procs, claims, receipts>>
    BY OutsideKind DEF Outside
<1>2. EffectInv'
  <2>1. CASE \E n \in sent : Handle(n)
    BY <1>1, <2>1 DEF Handle, ClaimsInv, EffectInv, Gated, OpOf, StatusOf
  <2>2. CASE \E n \in sent : Lose(n)
    BY <1>1, <2>2 DEF Lose, ClaimsInv, EffectInv, Gated, OpOf, StatusOf
  <2>3. CASE UNCHANGED <<sent, handled, effects>>
    BY <1>1, <2>3 DEF ClaimsInv, EffectInv, Gated, OpOf, StatusOf
  <2> QED BY <2>1, <2>2, <2>3 DEF Environment, IssueApproval, ExpireApproval, Cancel, ReadResource,
             Quarantine, ChangeHealth, ChangeContext, ConfirmAbsence, vars, backend
<1> QED BY <1>1, <1>2, StillClaims DEF RecordedAs

\* An approval is free only when its newest attempt was cancelled or found to
\* have had no effect.
LEMMA FreeMeansClosed ==
    ASSUME ClaimsInv, OneCallEach, NEW q \in Proposals, q.tool = "FINANCIAL", ApprovalFree(q),
           NEW m \in DOMAIN attempts, OpOf(m) = q.op
    PROVE  /\ Gated(m) /\ StatusOf(m) \in {"CANCELLED", "RECONCILED"}
           /\ Newest(m) /\ StatusOf(m) = "RECONCILED"
                => receipts[q.op].outcome # "CONFIRMED_EFFECT"
<1>1. attempts[m].proposal \in Proposals /\ StatusOf(m) \in AttemptStatus
      /\ m \in Nat
    BY AttemptsTyped DEF ClaimsInv, BookInv, StatusOf
<1>2. Gated(m)
    BY <1>1 DEF OneCallEach, OpOf, Gated
<1>3. /\ q.approval \in Approvals /\ ApprovalOp[q.approval] = q.op
      /\ claims[q.approval] \in {"NONE", "CONFIRMED_NO_EFFECT"}
    BY GatewayAssumption DEF ApprovalFree, Proposal
<1>4. ApprovalOf(m) = q.approval
    BY <1>2, <1>3 DEF ClaimsInv, BoundInv, OneCallEach
<1>5. PICK n \in DOMAIN attempts : Newest(n) /\ OpOf(n) = OpOf(m)
    BY DEF ClaimsInv, BookInv, NewestInv, OpOf
<1>6. Gated(n) /\ ApprovalOf(n) = q.approval /\ n \in Nat
    BY <1>2, <1>4, <1>5, OneApproval, AttemptsTyped DEF ClaimsInv, BookInv
<1>7. claims[q.approval] = ClaimOf(n) /\ StatusOf(n) \in AttemptStatus
    BY <1>5, <1>6, AttemptsTyped DEF ClaimsInv, ClaimInv, BookInv, StatusOf
<1>8. /\ StatusOf(n) \in {"CANCELLED", "RECONCILED"}
      /\ StatusOf(n) = "RECONCILED" => receipts[q.op].outcome # "CONFIRMED_EFFECT"
    BY <1>3, <1>5, <1>7, ClaimOfIs
<1>9. m # n => StatusOf(m) \in {"CANCELLED", "RECONCILED"}
  <2> SUFFICES ASSUME m # n PROVE StatusOf(m) \in {"CANCELLED", "RECONCILED"}
    OBVIOUS
  <2>1. m < n
    BY <1>1, <1>5, <1>6 DEF Newest, OpOf
  <2> QED BY <1>5, <1>6, <2>1 DEF ClaimsInv, SettledInv
<1>10. Newest(m) => m = n
    BY <1>5, OneNewest DEF ClaimsInv
<1> QED BY <1>2, <1>8, <1>9, <1>10

LEMMA ReservingKeepsClaims ==
    ASSUME ClaimsInv, OneCallEach, NEW p \in Callers, Reserving(p)
    PROVE  BoundInv' /\ SettledInv' /\ ClaimInv' /\ TruthInv' /\ EffectInv'
<1>0. PICK new : new = Len(attempts) + 1
    OBVIOUS
<1> DEFINE q == CallOf(p)
<1>q. PICK c : c = CallOf(p)
    OBVIOUS
<1>1. /\ new \in Nat /\ new \notin DOMAIN attempts
      /\ DOMAIN attempts' = DOMAIN attempts \cup {new}
      /\ \A n \in DOMAIN attempts : n \in Nat /\ n < new
    BY <1>0, AttemptsTyped DEF ClaimsInv, BookInv, Reserving
<1>2. /\ \A n \in DOMAIN attempts : /\ OpOf(n)' = OpOf(n) /\ ApprovalOf(n)' = ApprovalOf(n)
                                    /\ StatusOf(n)' = StatusOf(n) /\ (Gated(n)' <=> Gated(n))
      /\ OpOf(new)' = c.op /\ ApprovalOf(new)' = c.approval /\ StatusOf(new)' = "RESERVED"
      /\ Gated(new)' <=> c.tool = "FINANCIAL"
    BY <1>0, <1>q DEF Reserving, OpOf, ApprovalOf, StatusOf, Gated
<1>3. /\ c \in Proposals /\ c.op \in Ops /\ UNCHANGED <<receipts, backend>>
      /\ c.tool = "FINANCIAL" => /\ ApprovalFree(c) /\ c.approval \in Approvals
                                 /\ ApprovalOp[c.approval] = c.op
      /\ c.tool # "FINANCIAL" => c.approval = NoApproval
      /\ \A a \in Approvals :
            claims'[a] = IF a = c.approval /\ c.tool = "FINANCIAL" THEN "CLAIMED" ELSE claims[a]
    BY <1>q, GatewayAssumption DEF Reserving, Proposal, ApprovalFree, OneCallEach
<1>4. \A n \in DOMAIN attempts : Newest(n)' => Newest(n) /\ OpOf(n) # c.op
  <2> SUFFICES ASSUME NEW n \in DOMAIN attempts, Newest(n)' PROVE Newest(n) /\ OpOf(n) # c.op
    OBVIOUS
  <2>1. \A m \in DOMAIN attempts' : OpOf(m)' = OpOf(n)' => m <= n
    BY DEF Newest, OpOf
  <2>2. OpOf(n) # c.op
    BY <1>1, <1>2, <2>1
  <2>3. \A m \in DOMAIN attempts : OpOf(m) = OpOf(n) => m <= n
    BY <1>1, <1>2, <2>1
  <2> QED BY <2>2, <2>3 DEF Newest, OpOf
<1>5. BoundInv'
    BY <1>1, <1>2, <1>3 DEF ClaimsInv, BoundInv
<1>6. SettledInv'
  <2> SUFFICES ASSUME NEW m \in DOMAIN attempts', NEW n \in DOMAIN attempts',
                      Gated(n)', OpOf(m)' = OpOf(n)', m < n
               PROVE  StatusOf(m)' \in {"CANCELLED", "RECONCILED"}
    BY DEF SettledInv
  <2>1. m \in DOMAIN attempts
    BY <1>1
  <2>2. CASE n \in DOMAIN attempts
    BY <1>2, <2>1, <2>2 DEF ClaimsInv, SettledInv
  <2>3. CASE n = new
    BY <1>2, <1>3, <2>1, <2>3, FreeMeansClosed
  <2> QED BY <1>1, <2>2, <2>3
<1>7. ClaimInv'
  <2>1. ASSUME NEW a \in Approvals, \A m \in DOMAIN attempts' : ~(Gated(m)' /\ ApprovalOf(m)' = a)
        PROVE  claims'[a] = "NONE"
    <3>1. \A m \in DOMAIN attempts : ~(Gated(m) /\ ApprovalOf(m) = a)
      BY <1>1, <1>2, <2>1
    <3>2. ~(c.tool = "FINANCIAL" /\ c.approval = a)
      BY <1>1, <1>2, <2>1
    <3> QED BY <1>3, <3>1, <3>2 DEF ClaimsInv, ClaimInv
  <2>2. ASSUME NEW m \in DOMAIN attempts, Newest(m)', Gated(m)'
        PROVE  claims'[ApprovalOf(m)'] = ClaimOf(m)'
    <3>1. Newest(m) /\ Gated(m) /\ OpOf(m) # c.op
      BY <1>2, <1>4, <2>2
    <3>2. ApprovalOf(m) \in Approvals /\ (c.tool = "FINANCIAL" => ApprovalOf(m) # c.approval)
      BY <1>3, <3>1 DEF ClaimsInv, BoundInv
    <3>3. ClaimOf(m)' = ClaimOf(m)
      BY <1>2, <1>3, SameWord
    <3>4. claims[ApprovalOf(m)] = ClaimOf(m)
      BY <3>1 DEF ClaimsInv, ClaimInv
    <3> QED BY <1>2, <1>3, <3>2, <3>3, <3>4
  <2>3. ASSUME Gated(new)' PROVE claims'[ApprovalOf(new)'] = ClaimOf(new)'
    <3>1. ClaimOf(new)' = "CLAIMED"
      BY <1>2 DEF ClaimOf, StatusOf
    <3> QED BY <1>2, <1>3, <2>3, <3>1
  <2> QED BY <1>1, <2>1, <2>2, <2>3 DEF ClaimInv
<1>8. \A n, answer : RecordedAs(n, answer) => RecordedAs(n, answer)'
    BY DEF RecordedAs, Reserving, Others
<1>9. TruthInv'
  <2>1. ASSUME NEW m \in DOMAIN attempts, Newest(m)', Gated(m)' PROVE Truth(m)'
    <3>1. Newest(m) /\ Gated(m)
      BY <1>2, <1>4, <2>1
    <3>2. Truth(m)
      BY <3>1 DEF ClaimsInv, TruthInv
    <3> QED BY <1>2, <1>3, <1>8, <3>2, TruthStays
  <2>2. ASSUME Gated(new)' PROVE Truth(new)'
    <3>1. /\ receipts[c.op].status \notin {"UNKNOWN_OUTCOME", "SUCCEEDED"}
          /\ receipts[c.op].outcome # "CONFIRMED_EFFECT"
      <4>1. CASE \E m \in DOMAIN attempts : OpOf(m) = c.op
        <5>1. PICK m \in DOMAIN attempts : OpOf(m) = c.op
          BY <4>1
        <5>2. PICK n \in DOMAIN attempts : Newest(n) /\ OpOf(n) = c.op
          BY <5>1 DEF ClaimsInv, BookInv, NewestInv, OpOf
        <5>3. /\ Gated(n) /\ StatusOf(n) \in {"CANCELLED", "RECONCILED"}
              /\ StatusOf(n) = "RECONCILED" => receipts[c.op].outcome # "CONFIRMED_EFFECT"
          BY <1>2, <1>3, <2>2, <5>2, FreeMeansClosed
        <5>4. Truth(n)
          BY <5>2, <5>3 DEF ClaimsInv, TruthInv
        <5>5. \A answer : ~RecordedAs(n, answer)
          BY <5>3 DEF RecordedAs, ClaimsInv, BookInv, CallerInv, Held, AttemptOf, StatusOf
        <5> QED BY <5>2, <5>3, <5>4, <5>5 DEF Truth
      <4>2. CASE ~\E m \in DOMAIN attempts : OpOf(m) = c.op
        <5>1. receipts[c.op].status = "NONE"
          BY <1>3, <4>2 DEF ClaimsInv, BookInv, ReceiptInv, OpOf
        <5> QED BY <1>3, <5>1 DEF ClaimsInv, BookInv, ReceiptInv
      <4> QED BY <4>1, <4>2
    <3> QED BY <1>2, <1>3, <3>1 DEF Truth
  <2> QED BY <1>1, <2>1, <2>2 DEF TruthInv
<1>10. EffectInv'
  <2>1. sent \subseteq DOMAIN attempts /\ handled \subseteq DOMAIN attempts
    BY DEF ClaimsInv, BookInv, TypeInv, TypeOK
  <2>2. \A r \in Callers : r # p => procs'[r] = procs[r]
    BY DEF Reserving, Others
  <2>3. procs'[p].pc = "prepared" /\ procs'[p].attempt = new
    BY <1>0 DEF Reserving, At
  <2> QED BY <1>1, <1>2, <1>3, <2>1, <2>2, <2>3 DEF ClaimsInv, EffectInv, backend
<1> QED BY <1>5, <1>6, <1>7, <1>9, <1>10

\* A caller that marks its own attempt leaves the others' receipts true.
LEMMA MarkedTruth ==
    ASSUME ClaimsInv, OneCallEach, NEW p \in Callers, Held(p), Others(p), UNCHANGED receipts,
           NEW n, n = procs[p].attempt, NEW status, Marks(n, status),
           Gated(n) => Truth(n)'
    PROVE  TruthInv'
<1> SUFFICES ASSUME NEW m \in DOMAIN attempts', Newest(m)', Gated(m)' PROVE Truth(m)'
    BY DEF TruthInv
<1>1. m \in DOMAIN attempts /\ Newest(m) /\ Gated(m) /\ OpOf(m)' = OpOf(m)
    BY MarksAre
<1>2. CASE m # n
  <2>1. \A answer : RecordedAs(m, answer) => RecordedAs(m, answer)'
    BY <1>2 DEF RecordedAs, Others
  <2>2. Truth(m) /\ StatusOf(m)' = StatusOf(m)
    BY <1>1, <1>2, MarksAre DEF ClaimsInv, TruthInv
  <2> QED BY <1>1, <2>1, <2>2, TruthStays
<1> QED BY <1>1, <1>2

\* An attempt that was only prepared has no receipt that speaks of it.
LEMMA PreparedTruth ==
    ASSUME ClaimsInv, OneCallEach, NEW p \in Callers, procs[p].pc = "prepared",
           UNCHANGED receipts, NEW n, n = procs[p].attempt, NEW status, Marks(n, status), Gated(n)
    PROVE  Truth(n)'
<1>1. /\ Newest(n) /\ StatusOf(n) = "RESERVED" /\ OpOf(n)' = OpOf(n) /\ n \in DOMAIN attempts
      /\ \A answer : ~RecordedAs(n, answer)
    BY HeldIs, MarksAre DEF Held
<1>2. Truth(n)
    BY <1>1 DEF ClaimsInv, TruthInv
<1> QED BY <1>1, <1>2 DEF Truth

\* Claims, receipts and the table after a caller has cancelled or dispatched
\* what it prepared.
LEMMA PreparedKeepsClaims ==
    ASSUME ClaimsInv, OneCallEach, NEW p \in Callers, Cancelling(p) \/ Dispatching(p)
    PROVE  BoundInv' /\ SettledInv' /\ ClaimInv' /\ TruthInv' /\ EffectInv'
<1>0. PICK n : n = procs[p].attempt
    OBVIOUS
<1>1. /\ procs[p].pc = "prepared" /\ Held(p) /\ Others(p)
      /\ UNCHANGED <<receipts, sent, handled, effects>>
    BY DEF Cancelling, Dispatching, Held, backend
<1>2. PICK status \in {"CANCELLED", "DISPATCHED"}, word \in ClaimStatus :
         /\ Marks(n, status) /\ SetClaim(CallOf(p).approval, word)
         /\ word = IF status = "CANCELLED" THEN "CONFIRMED_NO_EFFECT" ELSE "IN_FLIGHT"
         /\ status = "CANCELLED" => ~Held(p)'
         /\ Held(p)' => procs'[p].pc = "dispatched" /\ procs'[p].attempt = n
    BY <1>0 DEF Cancelling, Dispatching, Held, ClaimsInv, BookInv, TypeInv, TypeOK, ProcState,
               ClaimStatus
<1>3. /\ n \in DOMAIN attempts /\ StatusOf(n) = "RESERVED" /\ (Gated(n) => Newest(n))
      /\ CallOf(p).approval = ApprovalOf(n)
    BY <1>0, <1>1, HeldIs
<1>4. BoundInv' /\ SettledInv'
    BY <1>2, <1>3, MarksKeepOrder
<1>5. ClaimInv'
  <2>1. CASE Gated(n)
    <3>1. ClaimOf(n)' = word
      <4>1. StatusOf(n)' = status
        BY <1>2, MarksAre
      <4> QED BY <1>2, <4>1 DEF ClaimOf, StatusOf
    <3> QED BY <1>1, <1>2, <1>3, <2>1, <3>1, MarkedClaim DEF AttemptStatus
  <2>2. CASE ~Gated(n)
    <3>1. UNCHANGED claims
      BY <1>2, <1>3, <2>2, NoClaim DEF ClaimsInv, BookInv, BoundInv
    <3> QED BY <1>1, <1>2, <2>2, <3>1, OtherMark
  <2> QED BY <2>1, <2>2
<1>6. TruthInv'
  <2>1. Gated(n) => Truth(n)'
    BY <1>0, <1>1, <1>2, PreparedTruth
  <2> QED BY <1>0, <1>1, <1>2, <2>1, MarkedTruth
<1>7. EffectInv'
  <2>1. n \notin sent \cup handled
    BY <1>0, <1>1 DEF ClaimsInv, EffectInv
  <2>2. \A r \in Callers : /\ procs'[r].pc \in {"prepared", "dispatched"} =>
                                \/ procs'[r] = procs[r]
                                \/ procs'[r].attempt = n
                           /\ procs'[r].pc = "recorded" => procs'[r] = procs[r]
    BY <1>1, <1>2 DEF Others, Held
  <2>3. sent \subseteq DOMAIN attempts /\ handled \subseteq DOMAIN attempts
    BY DEF ClaimsInv, BookInv, TypeInv, TypeOK
  <2>4. \A m \in DOMAIN attempts : /\ OpOf(m)' = OpOf(m) /\ (Gated(m)' <=> Gated(m))
                                   /\ m # n => StatusOf(m)' = StatusOf(m)
    BY <1>2, MarksAre
  <2> QED BY <1>1, <2>1, <2>2, <2>3, <2>4 DEF ClaimsInv, EffectInv
<1> QED BY <1>4, <1>5, <1>6, <1>7

LEMMA DenyingKeepsClaims ==
    ASSUME ClaimsInv, OneCallEach, NEW p \in Callers, Denying(p)
    PROVE  BoundInv' /\ SettledInv' /\ ClaimInv' /\ TruthInv' /\ EffectInv'
<1>0. PICK n : n = procs[p].attempt
    OBVIOUS
<1>1. Held(p) /\ Others(p) /\ ~Held(p)' /\ UNCHANGED <<claims, receipts, sent, handled, effects>>
    BY DEF Denying, Held, backend
<1>2. PICK status : Marks(n, status)
    BY <1>0 DEF Denying
<1>3. n \in DOMAIN attempts /\ ~Gated(n)
    BY <1>0, <1>1, HeldIs DEF Denying
<1>4. BoundInv' /\ SettledInv' /\ ClaimInv' /\ TruthInv'
    BY <1>0, <1>1, <1>2, <1>3, MarksKeepOrder, OtherMark, MarkedTruth
<1>5. EffectInv'
  <2>1. \A r \in Callers : Held(r)' => procs'[r] = procs[r]
    BY <1>1 DEF Others
  <2>2. sent \subseteq DOMAIN attempts /\ handled \subseteq DOMAIN attempts
    BY DEF ClaimsInv, BookInv, TypeInv, TypeOK
  <2>3. \A m \in DOMAIN attempts : /\ OpOf(m)' = OpOf(m) /\ (Gated(m)' <=> Gated(m))
                                   /\ m # n => StatusOf(m)' = StatusOf(m)
    BY <1>2, MarksAre
  <2> QED BY <1>1, <1>3, <2>1, <2>2, <2>3 DEF ClaimsInv, EffectInv, Held
<1> QED BY <1>4, <1>5

LEMMA SettlingKeepsClaims ==
    ASSUME ClaimsInv, OneCallEach, NEW p \in Callers, Settling(p)
    PROVE  BoundInv' /\ SettledInv' /\ ClaimInv' /\ TruthInv' /\ EffectInv'
<1>0. PICK n : n = procs[p].attempt
    OBVIOUS
<1>1. /\ Held(p) /\ procs[p].pc = "recorded" /\ Others(p) /\ ~Held(p)'
      /\ UNCHANGED <<receipts, sent, handled, effects>>
    BY DEF Settling, Held, backend
<1>2. PICK status \in {"SUCCEEDED", "OUTCOME_UNKNOWN"}, word \in ClaimStatus :
         /\ Marks(n, status) /\ SetClaim(CallOf(p).approval, word)
         /\ status = IF procs[p].answer = "OK" THEN "SUCCEEDED" ELSE "OUTCOME_UNKNOWN"
         /\ word = IF procs[p].answer = "OK" THEN "SUCCEEDED" ELSE "UNKNOWN"
    BY <1>0 DEF Settling, ClaimAfter, ClaimStatus
<1>3. /\ n \in DOMAIN attempts /\ StatusOf(n) = "DISPATCHED" /\ (Gated(n) => Newest(n))
      /\ CallOf(p).approval = ApprovalOf(n)
      /\ \A answer : RecordedAs(n, answer) => procs[p].answer = answer
    BY <1>0, <1>1, HeldIs
<1>4. BoundInv' /\ SettledInv'
    BY <1>2, <1>3, MarksKeepOrder
<1>5. ClaimInv'
  <2>1. CASE Gated(n)
    <3>1. ClaimOf(n)' = word
      <4>1. StatusOf(n)' = status
        BY <1>2, MarksAre
      <4> QED BY <1>2, <4>1 DEF ClaimOf, StatusOf
    <3> QED BY <1>1, <1>2, <1>3, <2>1, <3>1, MarkedClaim DEF AttemptStatus
  <2>2. CASE ~Gated(n)
    <3>1. UNCHANGED claims
      BY <1>2, <1>3, <2>2, NoClaim DEF ClaimsInv, BookInv, BoundInv
    <3> QED BY <1>1, <1>2, <2>2, <3>1, OtherMark
  <2> QED BY <2>1, <2>2
<1>6. TruthInv'
  <2>1. ASSUME Gated(n) PROVE Truth(n)'
    <3>1. Truth(n) /\ StatusOf(n)' = status /\ OpOf(n)' = OpOf(n)
      BY <1>2, <1>3, <2>1, MarksAre DEF ClaimsInv, TruthInv
    <3> QED BY <1>1, <1>2, <1>3, <3>1 DEF Truth
  <2> QED BY <1>0, <1>1, <1>2, <2>1, MarkedTruth
<1>7. EffectInv'
  <2>1. \A r \in Callers : Held(r)' => procs'[r] = procs[r]
    BY <1>1 DEF Others
  <2>2. sent \subseteq DOMAIN attempts /\ handled \subseteq DOMAIN attempts
    BY DEF ClaimsInv, BookInv, TypeInv, TypeOK
  <2>3. \A m \in DOMAIN attempts : /\ OpOf(m)' = OpOf(m) /\ (Gated(m)' <=> Gated(m))
                                   /\ m # n => StatusOf(m)' = StatusOf(m)
    BY <1>2, MarksAre
  <2>4. n \in sent => StatusOf(n)' = "OUTCOME_UNKNOWN"
    BY <1>0, <1>1, <1>2, MarksAre DEF ClaimsInv, EffectInv
  <2> QED BY <1>1, <2>1, <2>2, <2>3, <2>4 DEF ClaimsInv, EffectInv, Held
<1> QED BY <1>4, <1>5, <1>6, <1>7

LEMMA RecordingKeepsClaims ==
    ASSUME ClaimsInv, OneCallEach, NEW p \in Callers, Recording(p)
    PROVE  BoundInv' /\ SettledInv' /\ ClaimInv' /\ TruthInv' /\ EffectInv'
<1>0. PICK n : n = procs[p].attempt
    OBVIOUS
<1>1. /\ Held(p) /\ procs[p].pc = "calling" /\ Others(p)
      /\ UNCHANGED <<attempts, claims, sent, handled, effects>>
    BY DEF Recording, Held, backend
<1>2. /\ n \in DOMAIN attempts /\ StatusOf(n) = "DISPATCHED" /\ (Gated(n) => Newest(n))
      /\ CallOf(p).op = OpOf(n) /\ OpOf(n) \in Ops
      /\ \A answer : ~RecordedAs(n, answer)
    BY <1>0, <1>1, HeldIs, OneApproval DEF ClaimsInv
<1>3. PICK answer \in {"OK", "UNKNOWN"} :
         /\ answer = "OK" => n \in handled
         /\ procs'[p].pc = "recorded" /\ procs'[p].attempt = n /\ procs'[p].answer = answer
         /\ receipts'[OpOf(n)].status = IF answer = "OK" THEN "SUCCEEDED" ELSE "UNKNOWN_OUTCOME"
         /\ receipts'[OpOf(n)].outcome = "NONE"
         /\ \A o \in Ops : o # OpOf(n) => receipts'[o] = receipts[o]
    BY <1>0, <1>2 DEF Recording, At, ClaimsInv, BookInv, TypeInv, TypeOK
<1>4. BoundInv' /\ SettledInv'
    BY <1>1 DEF ClaimsInv, BoundInv, SettledInv, Gated, OpOf, ApprovalOf, StatusOf
<1>5. \A m \in DOMAIN attempts : Newest(m) /\ Gated(m) /\ m # n => OpOf(m) # OpOf(n) /\ OpOf(m) \in Ops
    BY <1>2, OneApproval, OneNewest DEF ClaimsInv
<1>6. ClaimInv'
  <2>1. ASSUME NEW m \in DOMAIN attempts, Newest(m), Gated(m)
        PROVE  claims'[ApprovalOf(m)'] = ClaimOf(m)'
    <3>1. StatusOf(m)' = StatusOf(m) /\ OpOf(m)' = OpOf(m) /\ ApprovalOf(m)' = ApprovalOf(m)
      BY <1>1 DEF StatusOf, OpOf, ApprovalOf
    <3>2. StatusOf(m) = "RECONCILED" => receipts'[OpOf(m)] = receipts[OpOf(m)]
      BY <1>2, <1>3, <1>5, <2>1
    <3>3. ClaimOf(m)' = ClaimOf(m)
      BY <3>1, <3>2, SameWord
    <3> QED BY <1>1, <2>1, <3>1, <3>3 DEF ClaimsInv, ClaimInv
  <2> QED BY <1>1, <2>1 DEF ClaimsInv, ClaimInv, Gated, ApprovalOf, Newest
<1>7. TruthInv'
  <2> SUFFICES ASSUME NEW m \in DOMAIN attempts, Newest(m), Gated(m) PROVE Truth(m)'
    BY <1>1 DEF TruthInv, Newest, Gated
  <2>1. OpOf(m)' = OpOf(m) /\ StatusOf(m)' = StatusOf(m)
    BY <1>1 DEF StatusOf, OpOf
  <2>2. CASE m = n
    <3>1. RecordedAs(n, answer)'
      BY <1>3 DEF RecordedAs
    <3> QED BY <1>3, <2>1, <2>2, <3>1 DEF Truth
  <2>3. CASE m # n
    <3>1. \A word : RecordedAs(m, word) => RecordedAs(m, word)'
      BY <1>1 DEF RecordedAs, Others
    <3>2. receipts'[OpOf(m)] = receipts[OpOf(m)]
      BY <1>3, <1>5, <2>3
    <3> QED BY <2>1, <3>1, <3>2, TruthStays DEF ClaimsInv, TruthInv
  <2> QED BY <2>2, <2>3
<1>8. EffectInv'
  <2>1. \A r \in Callers : r # p => procs'[r] = procs[r]
    BY <1>1 DEF Others
  <2> QED BY <1>1, <1>3, <2>1 DEF ClaimsInv, EffectInv, Gated, OpOf, StatusOf
<1> QED BY <1>4, <1>6, <1>7, <1>8

\* Reconciliation finds the newest attempt with an unknown outcome.
LEMMA ClosingIs ==
    ASSUME ClaimsInv, OneCallEach, NEW o \in Ops, Closing(o), NEW n, n = Last(o), Gated(n)
    PROVE  /\ StatusOf(n) = "OUTCOME_UNKNOWN" /\ claims[ApprovalOf(n)] = "UNKNOWN"
           /\ ApprovalOf(n) \in Approvals /\ ApprovalOp[ApprovalOf(n)] = o
<1>1. n \in DOMAIN attempts /\ Newest(n) /\ OpOf(n) = o
    BY DEF Closing, Newest, OpOf
<1>2. \A answer : ~RecordedAs(n, answer)
    BY <1>1 DEF RecordedAs, Closing, WorkedOn, ClaimsInv, BookInv, CallerInv, Held, AttemptOf, OpOf
<1>3. Truth(n) /\ receipts[OpOf(n)].status = "UNKNOWN_OUTCOME"
    BY <1>1 DEF Closing, ClaimsInv, TruthInv
<1>4. StatusOf(n) = "OUTCOME_UNKNOWN"
    BY <1>2, <1>3 DEF Truth
<1>5. ClaimOf(n) = "UNKNOWN"
    BY <1>4, ClaimOfIs DEF AttemptStatus
<1> QED BY <1>1, <1>4, <1>5 DEF ClaimsInv, ClaimInv, BoundInv

LEMMA ClosingKeepsClaims ==
    ASSUME ClaimsInv, OneCallEach, NEW o \in Ops, Closing(o)
    PROVE  BoundInv' /\ SettledInv' /\ ClaimInv' /\ TruthInv' /\ EffectInv'
<1>0. PICK n : n = Last(o)
    OBVIOUS
<1>1. /\ n \in DOMAIN attempts /\ Newest(n) /\ OpOf(n) = o
      /\ UNCHANGED <<procs, sent, handled, effects>>
    BY <1>0 DEF Closing, Newest, OpOf, backend
<1>f. PICK finding : finding = Finding(o)
    OBVIOUS
<1>2. PICK status \in {"RECONCILED", "OUTCOME_UNKNOWN"} :
         /\ Marks(n, status)
         /\ finding \in {"CONFIRMED_EFFECT", "CONFIRMED_NO_EFFECT", "STILL_UNKNOWN"}
         /\ status = IF finding # "STILL_UNKNOWN" THEN "RECONCILED" ELSE "OUTCOME_UNKNOWN"
         /\ receipts'[o].status = IF finding # "STILL_UNKNOWN" THEN "RECONCILED"
                                                              ELSE "UNKNOWN_OUTCOME"
         /\ receipts'[o].outcome = finding
         /\ \A x \in Ops : x # o => receipts'[x] = receipts[x]
         /\ IF finding # "STILL_UNKNOWN"
            THEN SetClaim(ApprovalOf(n), IF finding = "CONFIRMED_EFFECT" THEN "SUCCEEDED"
                                                                        ELSE "CONFIRMED_NO_EFFECT")
            ELSE UNCHANGED claims
    BY <1>0, <1>f DEF Closing, Finding, ApprovalOf, ClaimsInv, BookInv, TypeInv, TypeOK
<1>3. BoundInv' /\ SettledInv'
    BY <1>1, <1>2, MarksKeepOrder
<1>4. ClaimInv'
  <2>1. CASE Gated(n)
    <3>1. StatusOf(n)' = status /\ OpOf(n)' = o
      BY <1>1, <1>2, MarksAre
    <3>2. CASE finding # "STILL_UNKNOWN"
      <4>1. ClaimOf(n)' = IF finding = "CONFIRMED_EFFECT" THEN "SUCCEEDED" ELSE "CONFIRMED_NO_EFFECT"
        BY <1>2, <3>1, <3>2 DEF ClaimOf, StatusOf, OpOf
      <4> QED BY <1>1, <1>2, <2>1, <3>2, <4>1, MarkedClaim DEF AttemptStatus
    <3>3. CASE finding = "STILL_UNKNOWN"
      <4>1. ClaimOf(n)' = "UNKNOWN"
        BY <1>2, <3>1, <3>3 DEF ClaimOf, StatusOf
      <4>2. SetClaim(ApprovalOf(n), "UNKNOWN")
        BY <1>0, <1>2, <2>1, <3>3, ClosingIs DEF SetClaim, ClaimsInv, BookInv, TypeInv, TypeOK
      <4> QED BY <1>1, <1>2, <2>1, <4>1, <4>2, MarkedClaim DEF AttemptStatus
    <3> QED BY <3>2, <3>3
  <2>2. CASE ~Gated(n)
    <3>1. UNCHANGED claims
      BY <1>1, <1>2, <2>2, NoClaim DEF ClaimsInv, BookInv, BoundInv
    <3> QED BY <1>1, <1>2, <2>2, <3>1, OtherMark
  <2> QED BY <2>1, <2>2
<1>5. TruthInv'
  <2> SUFFICES ASSUME NEW m \in DOMAIN attempts, Newest(m), Gated(m) PROVE Truth(m)'
    BY <1>2, MarksAre DEF TruthInv
  <2>1. OpOf(m)' = OpOf(m) /\ StatusOf(m)' = IF m = n THEN status ELSE StatusOf(m)
    BY <1>2, MarksAre
  <2>2. CASE m = n
    BY <1>1, <1>2, <2>1, <2>2 DEF Truth
  <2>3. CASE m # n
    <3>1. OpOf(m) # o /\ OpOf(m) \in Ops
      BY <1>1, <2>3, OneNewest, OneApproval DEF ClaimsInv
    <3>2. \A word : RecordedAs(m, word) => RecordedAs(m, word)'
      BY <1>1 DEF RecordedAs
    <3> QED BY <1>2, <2>1, <2>3, <3>1, <3>2, TruthStays DEF ClaimsInv, TruthInv
  <2> QED BY <2>2, <2>3
<1>6. EffectInv'
  <2>1. n \notin sent
    BY <1>0, <1>1 DEF Closing, Outstanding, OpOf
  <2>2. sent \subseteq DOMAIN attempts /\ handled \subseteq DOMAIN attempts
    BY DEF ClaimsInv, BookInv, TypeInv, TypeOK
  <2>3. \A m \in DOMAIN attempts : /\ OpOf(m)' = OpOf(m) /\ (Gated(m)' <=> Gated(m))
                                   /\ m # n => StatusOf(m)' = StatusOf(m)
    BY <1>2, MarksAre
  <2> QED BY <1>1, <2>1, <2>2, <2>3 DEF ClaimsInv, EffectInv
<1> QED BY <1>3, <1>4, <1>5, <1>6

LEMMA ClaimsKept ==
    ASSUME ClaimsInv, OneCallEach, [QuietNext]_vars
    PROVE  ClaimsInv'
<1>1. BookInv'
    BY BooksKept DEF ClaimsInv
<1>2. BoundInv' /\ SettledInv' /\ ClaimInv' /\ TruthInv' /\ EffectInv'
    BY QuietKinds, LettingGoKeepsClaims, ReservingKeepsClaims, PreparedKeepsClaims,
       SendingKeepsClaims, DenyingKeepsClaims, RecordingKeepsClaims, SettlingKeepsClaims,
       ClosingKeepsClaims, OutsideKeepsClaims DEF ClaimsInv
<1> QED BY <1>1, <1>2 DEF ClaimsInv

LEMMA InitClaims == Init => ClaimsInv
<1> SUFFICES ASSUME Init PROVE ClaimsInv
    OBVIOUS
<1>1. DOMAIN attempts = {}
    BY DEF Init
<1>2. BoundInv /\ SettledInv /\ ClaimInv /\ TruthInv
    BY <1>1 DEF Init, BoundInv, SettledInv, ClaimInv, TruthInv
<1>3. EffectInv
    BY DEF Init, EffectInv, Idle, At
<1> QED BY <1>2, <1>3, InitBooks DEF ClaimsInv

LEMMA ClaimsTellTheStory ==
    ASSUME ClaimsInv, OneCallEach
    PROVE  ClaimsMatchAttempts
<1> SUFFICES ASSUME NEW a \in Approvals, GatedAttempts(a) # {}
             PROVE  claims[a] = ClaimOf(CHOOSE n \in GatedAttempts(a) :
                                    \A m \in GatedAttempts(a) : m <= n)
  <2>1. \A a \in Approvals : GatedAttempts(a) = {} => claims[a] = "NONE"
    BY DEF GatedAttempts, ClaimsInv, ClaimInv, Gated, ApprovalOf
  <2> QED BY <2>1 DEF ClaimsMatchAttempts
<1>1. PICK m \in DOMAIN attempts : Gated(m) /\ ApprovalOf(m) = a
    BY DEF GatedAttempts, Gated, ApprovalOf
<1>2. PICK n \in DOMAIN attempts : Newest(n) /\ OpOf(n) = OpOf(m)
    BY DEF ClaimsInv, BookInv, NewestInv, OpOf
<1>3. Gated(n) /\ ApprovalOf(n) = a
    BY <1>1, <1>2, OneApproval DEF ClaimsInv
<1>4. n \in GatedAttempts(a) /\ \A k \in GatedAttempts(a) : k <= n /\ k \in Nat
  <2>1. \A k \in GatedAttempts(a) : k \in DOMAIN attempts /\ k \in Nat /\ Gated(k) /\ ApprovalOf(k) = a
    BY AttemptsTyped DEF GatedAttempts, Gated, ApprovalOf, ClaimsInv, BookInv
  <2>2. \A k \in GatedAttempts(a) : OpOf(k) = OpOf(n)
    BY <1>3, <2>1, OneApproval DEF ClaimsInv
  <2> QED BY <1>2, <1>3, <2>1, <2>2 DEF GatedAttempts, Gated, ApprovalOf, Newest, OpOf
<1> DEFINE c == CHOOSE k \in GatedAttempts(a) : \A j \in GatedAttempts(a) : j <= k
<1>5. c \in GatedAttempts(a) /\ \A j \in GatedAttempts(a) : j <= c
    BY <1>4
<1>6. c = n
    BY <1>4, <1>5
<1> QED BY <1>2, <1>3, <1>6 DEF ClaimsInv, ClaimInv

\* For a host that names its calls properly, the claim table and the attempt
\* table never tell different stories about an approval, whatever callers
\* prepare, dispatch, abandon, complete and reconcile (_reserve,
\* record_dispatch, complete_tool_call, reconcile).
THEOREM ClaimsMatch ==
    ASSUME OneCallEach
    PROVE  QuietSpec => []ClaimsMatchAttempts
<1>1. ClaimsInv /\ [QuietNext]_vars => ClaimsInv'
    BY ClaimsKept
<1>2. ClaimsInv => ClaimsMatchAttempts
    BY ClaimsTellTheStory
<1> QED BY InitClaims, <1>1, <1>2, PTL DEF QuietSpec

-----------------------------------------------------------------------------
\* One consequential operation at a time.

\* Only a reservation adds an attempt, and only of a free approval.
LEMMA NewAttempts ==
    ASSUME ClaimsInv, OneCallEach, [QuietNext]_vars,
           NEW n \in DOMAIN attempts' \ DOMAIN attempts, attempts'[n].proposal.tool = "FINANCIAL",
           NEW m \in DOMAIN attempts, attempts[m].proposal.op = attempts'[n].proposal.op
    PROVE  attempts[m].status \in {"CANCELLED", "RECONCILED"}
<1>1. PICK p \in Callers : Reserving(p)
  <2>1. ~(DOMAIN attempts' = DOMAIN attempts)
    OBVIOUS
  <2>2. ~Outside /\ \A o \in Ops : ~Closing(o)
    BY <2>1 DEF Outside, Closing, Marks
  <2>3. \A p \in Callers : ~(LettingGo(p) \/ Cancelling(p) \/ Dispatching(p) \/ Sending(p)
                              \/ Denying(p) \/ Recording(p) \/ Settling(p))
    BY <2>1 DEF LettingGo, Cancelling, Dispatching, Sending, Denying, Recording, Settling, Marks
  <2> QED BY <2>2, <2>3, QuietKinds, OutsideKind DEF ClaimsInv
<1>2. n = Len(attempts) + 1 /\ attempts'[n].proposal = CallOf(p)
    BY <1>1 DEF Reserving
<1>3. CallOf(p) \in Proposals /\ CallOf(p).tool = "FINANCIAL" /\ ApprovalFree(CallOf(p))
      /\ OpOf(m) = CallOf(p).op
    BY <1>1, <1>2 DEF Reserving, OpOf
<1> QED BY <1>3, FreeMeansClosed DEF StatusOf

LEMMA ConfirmedKept ==
    ASSUME ClaimsInv, OneCallEach, [QuietNext]_vars, NEW o \in Ops, Confirmed(receipts[o])
    PROVE  receipts'[o] = receipts[o]
<1>1. /\ receipts[o].tool = "FINANCIAL"
      /\ receipts[o].status = "SUCCEEDED" \/ receipts[o].outcome = "CONFIRMED_EFFECT"
    BY DEF Confirmed
<1>2. receipts[o].status # "NONE"
    BY <1>1 DEF ClaimsInv, BookInv, ReceiptInv
<1>3. PICK m \in DOMAIN attempts : OpOf(m) = o /\ Gated(m)
    BY <1>1, <1>2 DEF ClaimsInv, BookInv, ReceiptInv, OpOf, Gated
<1>4. PICK n \in DOMAIN attempts : Newest(n) /\ OpOf(n) = o /\ Gated(n)
  <2>1. PICK n \in DOMAIN attempts : Newest(n) /\ OpOf(n) = OpOf(m)
    BY DEF ClaimsInv, BookInv, NewestInv, OpOf
  <2> QED BY <1>3, <2>1, OneApproval DEF ClaimsInv
<1>5. Truth(n)
    BY <1>4 DEF ClaimsInv, TruthInv
<1>6. \/ StatusOf(n) \in {"SUCCEEDED", "RECONCILED"} \/ RecordedAs(n, "OK")
    BY <1>1, <1>4, <1>5 DEF Truth
<1>7. receipts[o].status # "UNKNOWN_OUTCOME"
    BY <1>1, <1>4, <1>5 DEF Truth
<1>8. ASSUME NEW p \in Callers, Recording(p) PROVE receipts'[o] = receipts[o]
  <2>0. PICK k : k = procs[p].attempt
    OBVIOUS
  <2>1. /\ k \in DOMAIN attempts /\ StatusOf(k) = "DISPATCHED" /\ CallOf(p).op = OpOf(k)
        /\ Gated(k) => Newest(k)
        /\ \A answer : ~RecordedAs(k, answer)
    BY <1>8, <2>0, HeldIs DEF Recording, Held
  <2>2. OpOf(k) # o
    <3> SUFFICES ASSUME OpOf(k) = o PROVE FALSE
      OBVIOUS
    <3>1. Newest(k)
      BY <1>4, <2>1, OneApproval DEF ClaimsInv
    <3>2. k = n
      BY <1>4, <3>1, OneNewest DEF ClaimsInv
    <3> QED BY <1>6, <2>1, <3>2
  <2> QED BY <1>8, <2>1, <2>2 DEF Recording, ClaimsInv, BookInv, TypeInv, TypeOK
<1>9. ASSUME NEW x \in Ops, Closing(x) PROVE receipts'[o] = receipts[o]
  <2>1. x # o
    BY <1>7, <1>9 DEF Closing
  <2> QED BY <1>9, <2>1 DEF Closing, ClaimsInv, BookInv, TypeInv, TypeOK
<1>10. ASSUME NEW p \in Callers, LettingGo(p) \/ Reserving(p) \/ Cancelling(p) \/ Dispatching(p)
                                 \/ Sending(p) \/ Denying(p) \/ Settling(p)
       PROVE  receipts'[o] = receipts[o]
    BY <1>10 DEF LettingGo, Reserving, Cancelling, Dispatching, Sending, Denying, Settling
<1>11. ASSUME Outside PROVE receipts'[o] = receipts[o]
    BY <1>11 DEF Outside
<1> QED BY <1>8, <1>9, <1>10, <1>11, QuietKinds, OutsideKind DEF ClaimsInv

\* For a host that names its calls properly, a consequential operation is tried
\* again only when every earlier attempt was cancelled before its dispatch or
\* reconciled, and a receipt that confirms its effect is never overwritten, by a
\* slower caller or a later reconciliation (_reserve, complete_tool_call,
\* reconcile).
THEOREM EffectsSettle ==
    ASSUME OneCallEach
    PROVE  QuietSpec => EffectsSettleOnce
<1>1. ClaimsInv /\ [QuietNext]_vars => ClaimsInv'
    BY ClaimsKept
<1>2. ASSUME ClaimsInv, [QuietNext]_vars
      PROVE  [\A n \in DOMAIN attempts' \ DOMAIN attempts :
          attempts'[n].proposal.tool = "FINANCIAL" =>
            \A m \in DOMAIN attempts :
              attempts[m].proposal.op = attempts'[n].proposal.op =>
                attempts[m].status \in {"CANCELLED", "RECONCILED"}]_vars
    BY <1>2, NewAttempts
<1>3. ASSUME ClaimsInv, [QuietNext]_vars
      PROVE  [\A o \in Ops : Confirmed(receipts[o]) => receipts'[o] = receipts[o]]_vars
    BY <1>3, ConfirmedKept
<1> QED BY InitClaims, <1>1, <1>2, <1>3, PTL
        DEF QuietSpec, EffectsSettleOnce, RetryAfterAbsence, ConfirmedStays

-----------------------------------------------------------------------------
\* Every approval keeps its promise.

\* A step as the promise of approval a sees it.
PromiseMove(a) ==
    LET before == claims[a]
        after == claims'[a]
        did == ApprovalOp[a] \in effects
        does == ApprovalOp[a] \in effects' IN
    \/ after = before /\ (does <=> did)
    \/ /\ does <=> did
       /\ \/ before \in {"NONE", "CONFIRMED_NO_EFFECT"} /\ after = "CLAIMED"
          \/ before = "CLAIMED" /\ after \in {"CONFIRMED_NO_EFFECT", "IN_FLIGHT"}
          \/ before = "IN_FLIGHT" /\ after = "UNKNOWN"
          \/ /\ before \in {"IN_FLIGHT", "UNKNOWN"}
             /\ after = IF did THEN "SUCCEEDED" ELSE "CONFIRMED_NO_EFFECT"
    \/ before \in {"IN_FLIGHT", "UNKNOWN"} /\ after = before /\ ~did /\ does

LEMMA PromiseMoves ==
    ASSUME NEW a \in Approvals, PromiseMove(a)
    PROVE  [Promise(a)!Next]_(Promise(a)!promiseVars)
    BY DEF PromiseMove, Promise!Next, Promise!promiseVars, Promise!Take, Promise!GiveBack,
           Promise!Launch, Promise!Happen, Promise!Doubt, Promise!Resolve

\* A claim that is set moves the one approval it belongs to.
LEMMA OneClaimMoves ==
    ASSUME ClaimsInv, NEW n \in DOMAIN attempts, Gated(n), Newest(n), NEW word,
           SetClaim(ApprovalOf(n), word), NEW a \in Approvals
    PROVE  /\ a # ApprovalOf(n) => claims'[a] = claims[a]
           /\ a = ApprovalOf(n) => /\ claims'[a] \in {claims[a], word} /\ claims[a] = ClaimOf(n)
                                   /\ claims[a] # "NONE" => claims'[a] = word
                                   /\ ApprovalOp[a] = OpOf(n)
    BY DEF SetClaim, ClaimsInv, ClaimInv, BoundInv

LEMMA PreparedMoves ==
    ASSUME ClaimsInv, OneCallEach, NEW p \in Callers, Cancelling(p) \/ Dispatching(p),
           NEW a \in Approvals
    PROVE  PromiseMove(a)
<1>0. PICK n : n = procs[p].attempt
    OBVIOUS
<1>1. Held(p) /\ procs[p].pc = "prepared" /\ UNCHANGED effects
    BY DEF Cancelling, Dispatching, Held, backend
<1>2. PICK word \in {"CONFIRMED_NO_EFFECT", "IN_FLIGHT"} : SetClaim(CallOf(p).approval, word)
    BY DEF Cancelling, Dispatching
<1>3. /\ n \in DOMAIN attempts /\ StatusOf(n) = "RESERVED" /\ (Gated(n) => Newest(n))
      /\ CallOf(p).approval = ApprovalOf(n)
    BY <1>0, <1>1, HeldIs
<1>4. CASE Gated(n)
  <2>1. ClaimOf(n) = "CLAIMED"
    BY <1>3, ClaimOfIs DEF AttemptStatus
  <2> QED BY <1>1, <1>2, <1>3, <1>4, <2>1, OneClaimMoves DEF PromiseMove
<1>5. CASE ~Gated(n)
    BY <1>1, <1>2, <1>3, <1>5, NoClaim DEF PromiseMove, ClaimsInv, BookInv, BoundInv
<1> QED BY <1>4, <1>5

LEMMA SettlingMoves ==
    ASSUME ClaimsInv, OneCallEach, NEW p \in Callers, Settling(p), NEW a \in Approvals
    PROVE  PromiseMove(a)
<1>0. PICK n : n = procs[p].attempt
    OBVIOUS
<1>1. Held(p) /\ procs[p].pc = "recorded" /\ UNCHANGED effects
    BY DEF Settling, Held, backend
<1>2. PICK word : /\ word = IF procs[p].answer = "OK" THEN "SUCCEEDED" ELSE "UNKNOWN"
                  /\ SetClaim(CallOf(p).approval, word)
    BY DEF Settling, ClaimAfter
<1>3. /\ n \in DOMAIN attempts /\ StatusOf(n) = "DISPATCHED" /\ (Gated(n) => Newest(n))
      /\ CallOf(p).approval = ApprovalOf(n)
    BY <1>0, <1>1, HeldIs
<1>4. CASE Gated(n)
  <2>1. ClaimOf(n) = "IN_FLIGHT"
    BY <1>3, ClaimOfIs DEF AttemptStatus
  <2>2. procs[p].answer = "OK" => OpOf(n) \in effects
    BY <1>0, <1>1, <1>4 DEF ClaimsInv, EffectInv
  <2> QED BY <1>1, <1>2, <1>3, <1>4, <2>1, <2>2, OneClaimMoves DEF PromiseMove
<1>5. CASE ~Gated(n)
    BY <1>1, <1>2, <1>3, <1>5, NoClaim DEF PromiseMove, ClaimsInv, BookInv, BoundInv
<1> QED BY <1>4, <1>5

LEMMA ClosingMoves ==
    ASSUME ClaimsInv, OneCallEach, NEW o \in Ops, Closing(o), NEW a \in Approvals
    PROVE  PromiseMove(a)
<1>0. PICK n : n = Last(o)
    OBVIOUS
<1>1. n \in DOMAIN attempts /\ Newest(n) /\ OpOf(n) = o /\ UNCHANGED effects
    BY <1>0 DEF Closing, Newest, OpOf, backend
<1>2. \/ UNCHANGED claims
      \/ SetClaim(ApprovalOf(n), IF o \in effects THEN "SUCCEEDED" ELSE "CONFIRMED_NO_EFFECT")
    BY <1>0 DEF Closing, Finding, ApprovalOf
<1>3. CASE UNCHANGED claims
    BY <1>1, <1>3 DEF PromiseMove
<1>4. CASE Gated(n) /\ ~UNCHANGED claims
  <2>1. claims[ApprovalOf(n)] = "UNKNOWN"
    BY <1>0, <1>4, ClosingIs
  <2>2. SetClaim(ApprovalOf(n), IF o \in effects THEN "SUCCEEDED" ELSE "CONFIRMED_NO_EFFECT")
    BY <1>2, <1>4
  <2> QED BY <1>1, <1>4, <2>1, <2>2, OneClaimMoves DEF PromiseMove
<1>5. CASE ~Gated(n) /\ ~UNCHANGED claims
    BY <1>1, <1>2, <1>5, NoClaim DEF ClaimsInv, BookInv, BoundInv
<1> QED BY <1>3, <1>4, <1>5

LEMMA ReservingMoves ==
    ASSUME ClaimsInv, OneCallEach, NEW p \in Callers, Reserving(p), NEW a \in Approvals
    PROVE  PromiseMove(a)
<1>1. UNCHANGED effects
    BY DEF Reserving, backend
<1>2. \/ claims'[a] = claims[a]
      \/ claims'[a] = "CLAIMED" /\ claims[a] \in {"NONE", "CONFIRMED_NO_EFFECT"}
    BY DEF Reserving, ApprovalFree
<1> QED BY <1>1, <1>2 DEF PromiseMove

\* An effect comes about only while its approval is in flight or in doubt.
LEMMA HandlingMoves ==
    ASSUME ClaimsInv, OneCallEach, NEW n \in sent, Handle(n), NEW a \in Approvals
    PROVE  PromiseMove(a)
<1>1. n \in DOMAIN attempts /\ UNCHANGED claims
    BY DEF Handle, ClaimsInv, BookInv, TypeInv, TypeOK
<1>2. CASE ~Gated(n)
    BY <1>1, <1>2 DEF Handle, Gated, PromiseMove
<1>3. CASE Gated(n)
  <2>1. effects' = effects \cup {OpOf(n)}
    BY <1>3 DEF Handle, Gated, OpOf
  <2>2. StatusOf(n) \in {"DISPATCHED", "OUTCOME_UNKNOWN"}
    BY <1>3 DEF ClaimsInv, EffectInv
  <2>3. Newest(n)
    BY <1>1, <1>3, <2>2, OpenIsNewest
  <2>4. claims[ApprovalOf(n)] \in {"IN_FLIGHT", "UNKNOWN"}
    BY <1>1, <1>3, <2>2, <2>3, ClaimOfIs DEF ClaimsInv, ClaimInv, AttemptStatus
  <2>5. ApprovalOp[a] = OpOf(n) => a = ApprovalOf(n)
    BY <1>1, <1>3 DEF ClaimsInv, BoundInv, OneCallEach
  <2> QED BY <1>1, <2>1, <2>4, <2>5 DEF PromiseMove
<1> QED BY <1>2, <1>3

LEMMA StepsMove ==
    ASSUME ClaimsInv, OneCallEach, [QuietNext]_vars, NEW a \in Approvals
    PROVE  PromiseMove(a)
<1>1. ASSUME NEW p \in Callers, LettingGo(p) \/ Sending(p) \/ Denying(p) \/ Recording(p)
      PROVE  PromiseMove(a)
  <2>1. UNCHANGED <<claims, effects>>
    BY <1>1 DEF LettingGo, Sending, Denying, Recording, backend
  <2> QED BY <2>1 DEF PromiseMove
<1>2. ASSUME NEW n \in sent, Lose(n) PROVE PromiseMove(a)
    BY <1>2 DEF Lose, PromiseMove
<1>3. CASE UNCHANGED <<claims, effects>>
    BY <1>3 DEF PromiseMove
<1>4. CASE Environment \/ UNCHANGED vars
    BY <1>2, <1>3, <1>4, HandlingMoves
    DEF Environment, IssueApproval, ExpireApproval, Cancel, ReadResource, Quarantine,
        ChangeHealth, ChangeContext, ConfirmAbsence, vars, backend
<1> QED BY <1>1, <1>4, ReservingMoves, PreparedMoves, SettlingMoves, ClosingMoves, QuietKinds
        DEF ClaimsInv

\* For a host that names its calls properly, every approval keeps the promise of
\* ApprovedEffect: its effect comes about only while a dispatch under it is
\* unsettled, SUCCEEDED and CONFIRMED_NO_EFFECT are true of it, and it is free
\* again only when nothing happened and nothing can (the claims of
\* NorthstarMCPGateway implement the abstract specification).
THEOREM PromisesKept ==
    ASSUME OneCallEach
    PROVE  QuietSpec => ApprovalsKeepPromise
<1>1. ClaimsInv /\ [QuietNext]_vars => ClaimsInv'
    BY ClaimsKept
<1>2. Init => \A a \in Approvals : Promise(a)!Init
    BY DEF Init, Promise!Init
<1>3. ASSUME ClaimsInv, [QuietNext]_vars
      PROVE  [\A a \in Approvals : [Promise(a)!Next]_(Promise(a)!promiseVars)]_vars
  <2>1. \A a \in Approvals : [Promise(a)!Next]_(Promise(a)!promiseVars)
    BY <1>3, StepsMove, PromiseMoves
  <2> QED BY <2>1
<1> QED BY InitClaims, <1>1, <1>2, <1>3, PTL DEF QuietSpec, ApprovalsKeepPromise
=============================================================================
