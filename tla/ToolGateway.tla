---------------------------- MODULE ToolGateway ----------------------------
(***************************************************************************)
(* NorthstarMCPGateway of advanced/13-mcp-model-context-protocol/lab.py,   *)
(* the callers that share it and the tool backend behind it.               *)
(*                                                                         *)
(* A caller prepares a call (checks the proposal, then reserves budget,    *)
(* rate slot and approval under the gateway's lock), records its dispatch, *)
(* sends the request and completes the call.  complete_tool_call is two    *)
(* steps: budget and receipt first, then the attempt and the claim.        *)
(* One principal, one server; a session's budget is counted in calls and   *)
(* in bytes, of which every call reserves one unit.                        *)
(***************************************************************************)
EXTENDS Integers, Sequences, FiniteSets

CONSTANTS
    Callers,        \* threads or tasks that use the gateway
    Ops,            \* logical operation ids
    Sessions,
    Approvals,      \* approval receipts an approver may issue
    NoApproval,     \* approval_id = None
    NoCall,         \* a caller that has no call under way
    ApprovalOp,     \* approval -> the operation it is bound to
    Proposals,      \* the tool invocations a model may propose
    Sizes,          \* bytes a result or a resource may have
    MaxToolCalls, MaxServerCalls, MaxBytes,   \* ExecutionBudget
    RateLimit       \* attempts a tool may have in the one window modelled

Tools == {"READ", "WRITE", "FINANCIAL"}    \* metrics.read, refund.propose, refund.execute

Proposal == [op: Ops, tool: Tools, session: Sessions,
             approval: Approvals \cup {NoApproval}]

ASSUME GatewayAssumption ==
    /\ NoApproval \notin Approvals /\ NoCall \notin Proposals
    /\ ApprovalOp \in [Approvals -> Ops]
    /\ Proposals \subseteq Proposal
    /\ Sizes \subseteq Nat
    /\ MaxToolCalls \in Nat /\ MaxServerCalls \in Nat /\ MaxBytes \in Nat
    /\ RateLimit \in Nat

VARIABLES
    server,     \* registry health of the server, or its quarantine
    context,    \* are credential, snapshot and descriptors what a call needs
    approvals,  \* approval -> issued, expired
    claims,     \* approval -> status of its claim
    attempts,   \* operation_attempts, in the order of their ids
    receipts,   \* execution_receipts: operation -> its receipt
    used,       \* usage: session -> what completed calls consumed
    reserved,   \* reserved_usage: session -> calls reserved
    cancelled,  \* cancelled_sessions
    procs,      \* caller -> its position, its call and attempt, its answer
    sent,       \* attempts whose request is on its way to the backend
    handled,    \* attempts whose request the backend has carried out
    effects,    \* backend_operations: operations the backend has committed
    absent      \* backend_confirmed_absent

vars == <<server, context, approvals, claims, attempts, receipts, used,
          reserved, cancelled, procs, sent, handled, effects, absent>>

governance == <<server, context, approvals, cancelled>>
backend == <<sent, handled, effects, absent>>

AttemptStatus == {"RESERVED", "CANCELLED", "DISPATCHED", "RESPONSE_INVALID",
                  "OUTCOME_UNKNOWN", "SUCCEEDED", "RECONCILED"}

ClaimStatus == {"NONE", "CLAIMED", "IN_FLIGHT", "SUCCEEDED", "UNKNOWN",
                "CONFIRMED_NO_EFFECT"}

Outcome == {"NONE", "CONFIRMED_EFFECT", "CONFIRMED_NO_EFFECT", "STILL_UNKNOWN"}

Receipt == [status: {"NONE", "SUCCEEDED", "UNKNOWN_OUTCOME", "RECONCILED"},
            outcome: Outcome, tool: Tools]

Answers == {"NONE", "OK", "INVALID", "UNKNOWN", "FAILED"}

ProcState == [pc: {"idle", "admitted", "prepared", "dispatched", "calling", "recorded"},
              call: Proposals \cup {NoCall}, attempt: Nat, answer: Answers]

TypeOK ==
    /\ server \in {"HEALTHY", "DEGRADED", "QUARANTINED"}
    /\ context \in {"GRANTED", "STALE", "REVOKED"}
    /\ approvals \in [Approvals -> {"ABSENT", "ISSUED", "EXPIRED"}]
    /\ claims \in [Approvals -> ClaimStatus]
    /\ attempts \in Seq([proposal: Proposals, status: AttemptStatus])
    /\ receipts \in [Ops -> Receipt]
    /\ used \in [Sessions -> [toolCalls: Nat, serverCalls: Nat, bytes: Nat]]
    /\ reserved \in [Sessions -> Int]
    /\ cancelled \subseteq Sessions
    /\ procs \in [Callers -> ProcState]
    /\ sent \subseteq DOMAIN attempts /\ handled \subseteq DOMAIN attempts
    /\ effects \subseteq Ops /\ absent \subseteq Ops

At(pc, q, n, answer) == [pc |-> pc, call |-> q, attempt |-> n, answer |-> answer]

Idle == At("idle", NoCall, 0, "NONE")

Init ==
    /\ server = "HEALTHY" /\ context = "GRANTED"
    /\ approvals = [a \in Approvals |-> "ABSENT"]
    /\ claims = [a \in Approvals |-> "NONE"]
    /\ attempts = <<>>
    /\ receipts = [o \in Ops |-> [status |-> "NONE", outcome |-> "NONE", tool |-> "READ"]]
    /\ used = [s \in Sessions |-> [toolCalls |-> 0, serverCalls |-> 0, bytes |-> 0]]
    /\ reserved = [s \in Sessions |-> 0]
    /\ cancelled = {}
    /\ procs = [p \in Callers |-> Idle]
    /\ sent = {} /\ handled = {} /\ effects = {} /\ absent = {}

-----------------------------------------------------------------------------
\* Admission.

\* _server_reason, _credential_reason and _snapshot_reason all pass; a degraded
\* server takes no approval-gated call.
Admitted(tool) ==
    /\ context = "GRANTED"
    /\ server \in (IF tool = "FINANCIAL" THEN {"HEALTHY"} ELSE {"HEALTHY", "DEGRADED"})

\* No receipt yet, or one that reconciliation has made retryable.
MayAttempt(q) ==
    LET r == receipts[q.op] IN
    r.status # "NONE" => r.tool = q.tool /\ r.outcome = "CONFIRMED_NO_EFFECT"

\* Wrong: what other calls have reserved is not counted.
CurrentBudgetLeft(s) ==
    /\ s \notin cancelled
    /\ used[s].toolCalls + 1 <= MaxToolCalls
    /\ used[s].serverCalls + 1 <= MaxServerCalls
    /\ used[s].bytes + 1 <= MaxBytes

\* _check_budget for one more call of session s.
BudgetLeft(s) ==
    /\ s \notin cancelled
    /\ used[s].toolCalls + reserved[s] + 1 <= MaxToolCalls
    /\ used[s].serverCalls + reserved[s] + 1 <= MaxServerCalls
    /\ used[s].bytes + reserved[s] + 1 <= MaxBytes

\* Wrong: an approval is looked at, its claim is not.
ApprovalIssued(q) ==
    /\ q.approval # NoApproval
    /\ approvals[q.approval] = "ISSUED"
    /\ ApprovalOp[q.approval] = q.op

\* _approval_reason: issued, unexpired, bound to the operation, unclaimed.
ApprovalFree(q) ==
    /\ q.approval # NoApproval
    /\ approvals[q.approval] = "ISSUED"
    /\ ApprovalOp[q.approval] = q.op
    /\ claims[q.approval] \in {"NONE", "CONFIRMED_NO_EFFECT"}

\* _consume_rate_slot: every attempt of a tool took one slot of the window.
RateSlotLeft(tool) ==
    Cardinality({n \in DOMAIN attempts : attempts[n].proposal.tool = tool}) < RateLimit

CallOf(p) == procs[p].call
AttemptOf(p) == attempts[procs[p].attempt]

Goto(p, pc) == procs' = [procs EXCEPT ![p].pc = pc]
GoIdle(p) == procs' = [procs EXCEPT ![p] = Idle]

\* prepare_tool_call before the lock: the proposal and the operation's receipt.
Admit(p, q) ==
    /\ procs[p].pc = "idle"
    /\ Admitted(q.tool) /\ MayAttempt(q)
    /\ procs' = [procs EXCEPT ![p] = At("admitted", q, 0, "NONE")]
    /\ UNCHANGED <<attempts, claims, receipts, used, reserved, governance, backend>>

Reservable(q) ==
    /\ BudgetLeft(q.session) /\ RateSlotLeft(q.tool)
    /\ q.tool = "FINANCIAL" => ApprovalFree(q)

\* prepare_tool_call under the lock: deny, or reserve, persist and claim.
Reserve(p) ==
    /\ procs[p].pc = "admitted"
    /\ LET q == CallOf(p) IN
       \/ /\ ~Reservable(q) /\ GoIdle(p)
          /\ UNCHANGED <<attempts, reserved, claims>>
       \/ /\ Reservable(q)
          /\ attempts' = Append(attempts, [proposal |-> q, status |-> "RESERVED"])
          /\ reserved' = [reserved EXCEPT ![q.session] = @ + 1]
          /\ claims' = [a \in Approvals |->
                IF a = q.approval /\ q.tool = "FINANCIAL" THEN "CLAIMED" ELSE claims[a]]
          /\ procs' = [procs EXCEPT ![p] = At("prepared", q, Len(attempts'), "NONE")]
    /\ UNCHANGED <<receipts, used, governance, backend>>

-----------------------------------------------------------------------------
\* Dispatch.

SetAttempt(n, status) ==
    attempts' = [attempts EXCEPT ![n] = [proposal |-> @.proposal, status |-> status]]

\* The claim of a's approval moves on; a call may name an approval that was
\* never claimed, and then the lookup raises.
SetClaim(a, status) ==
    claims' = [b \in Approvals |-> IF b = a /\ claims[b] # "NONE" THEN status ELSE claims[b]]

ClaimFound(a) == a = NoApproval \/ claims[a] # "NONE"

\* Wrong: the attempt is cancelled but keeps what it reserved.
KeepReservation(s) == UNCHANGED reserved

\* _release_reservation
Release(s) == reserved' = [reserved EXCEPT ![s] = @ - 1]

\* record_dispatch of a session that was cancelled: nothing has been sent.
CancelAttempt(p) ==
    /\ SetAttempt(procs[p].attempt, "CANCELLED")
    /\ Release(CallOf(p).session)
    /\ SetClaim(CallOf(p).approval, "CONFIRMED_NO_EFFECT")
    /\ GoIdle(p)

\* record_dispatch
RecordDispatch(p) ==
    /\ procs[p].pc = "prepared"
    /\ \/ CallOf(p).session \in cancelled /\ CancelAttempt(p)
       \/ /\ CallOf(p).session \notin cancelled
          /\ SetAttempt(procs[p].attempt, "DISPATCHED")
          /\ SetClaim(CallOf(p).approval, "IN_FLIGHT")
          /\ IF ClaimFound(CallOf(p).approval) THEN Goto(p, "dispatched") ELSE GoIdle(p)
          /\ UNCHANGED reserved
    /\ UNCHANGED <<receipts, used, governance, backend>>

\* The adapter sends the request.
Send(p) ==
    /\ procs[p].pc = "dispatched"
    /\ Goto(p, "calling")
    /\ sent' = sent \cup {procs[p].attempt}
    /\ UNCHANGED <<attempts, claims, receipts, used, reserved, governance,
                   handled, effects, absent>>

\* The caller's task is cancelled, or it never uses what it prepared; a request
\* already sent stays under way.
Abandon(p) ==
    /\ procs[p].pc \in {"prepared", "calling"}
    /\ GoIdle(p)
    /\ UNCHANGED <<attempts, claims, receipts, used, reserved, governance, backend>>

-----------------------------------------------------------------------------
\* Completion.

\* What the adapter may report: a response of the backend, well formed or not,
\* that counts or was injected as unknown; or a failure, whatever was done.
Reports(n) == {"FAILED"} \cup (IF n \in handled THEN {"OK", "INVALID", "UNKNOWN"} ELSE {})

\* The result breaks the output contract or the session's bytes.
Unusable(s, answer, size) == answer = "INVALID" \/ used[s].bytes + size > MaxBytes

\* Wrong: a side effect whose response cannot be read is denied like a read.
DenyUnusable(tool) == TRUE

\* Only a read may be denied after its dispatch.
Deniable(tool) == tool = "READ"

\* The reservation becomes actual usage.
Account(s, size) ==
    /\ Release(s)
    /\ used' = [used EXCEPT ![s] = [toolCalls |-> @.toolCalls + 1,
                                    serverCalls |-> @.serverCalls + 1,
                                    bytes |-> @.bytes + size]]

\* A read that failed is denied, and leaves no receipt.
DenyResult(p, invalid) ==
    /\ SetAttempt(procs[p].attempt, IF invalid THEN "RESPONSE_INVALID" ELSE "OUTCOME_UNKNOWN")
    /\ GoIdle(p)
    /\ UNCHANGED receipts

WriteReceipt(p, unknown) ==
    /\ receipts' = [receipts EXCEPT ![CallOf(p).op] =
          [status |-> IF unknown THEN "UNKNOWN_OUTCOME" ELSE "SUCCEEDED",
           outcome |-> "NONE", tool |-> CallOf(p).tool]]
    /\ procs' = [procs EXCEPT ![p] = At("recorded", CallOf(p), procs[p].attempt,
                                        IF unknown THEN "UNKNOWN" ELSE "OK")]
    /\ UNCHANGED attempts

\* complete_tool_call up to the receipt.
Complete(p) ==
    /\ procs[p].pc = "calling"
    /\ AttemptOf(p).status = "DISPATCHED"
    /\ \E answer \in Reports(procs[p].attempt) :
       \E size \in IF answer = "FAILED" THEN {0} ELSE Sizes :
          LET invalid == answer # "FAILED" /\ Unusable(CallOf(p).session, answer, size)
              failed == invalid \/ answer = "FAILED"
              denied == failed /\ Deniable(CallOf(p).tool) IN
          /\ Account(CallOf(p).session, size)
          /\ \/ denied /\ DenyResult(p, invalid)
             \/ ~denied /\ WriteReceipt(p, failed \/ answer = "UNKNOWN")
    /\ UNCHANGED <<claims, governance, backend>>

\* complete_tool_call of an attempt that is not dispatched any more raises.
CompleteRefused(p) ==
    /\ procs[p].pc = "calling"
    /\ AttemptOf(p).status # "DISPATCHED"
    /\ GoIdle(p)
    /\ UNCHANGED <<attempts, claims, receipts, used, reserved, governance, backend>>

\* Wrong: whatever came back, the approval counts as used up.
ClaimSpent(answer) == "SUCCEEDED"

\* The claim follows the receipt.
ClaimAfter(answer) == IF answer = "OK" THEN "SUCCEEDED" ELSE "UNKNOWN"

\* complete_tool_call after the receipt: attempt, then claim.
Settle(p) ==
    /\ procs[p].pc = "recorded"
    /\ SetAttempt(procs[p].attempt,
                  IF procs[p].answer = "OK" THEN "SUCCEEDED" ELSE "OUTCOME_UNKNOWN")
    /\ SetClaim(CallOf(p).approval, ClaimAfter(procs[p].answer))
    /\ GoIdle(p)
    /\ UNCHANGED <<receipts, used, reserved, governance, backend>>

-----------------------------------------------------------------------------
\* Reconciliation and the other entry points.

Last(o) ==
    LET mine == {n \in DOMAIN attempts : attempts[n].proposal.op = o}
    IN CHOOSE n \in mine : \A m \in mine : m <= n

Finding(o) ==
    IF o \in effects THEN "CONFIRMED_EFFECT"
    ELSE IF o \in absent THEN "CONFIRMED_NO_EFFECT" ELSE "STILL_UNKNOWN"

\* reconcile: the receipt, and the newest attempt of the operation with its
\* approval's claim.
Reconcile(o) ==
    /\ receipts[o].status = "UNKNOWN_OUTCOME"
    /\ server # "QUARANTINED" /\ context # "REVOKED"
    /\ LET known == Finding(o) # "STILL_UNKNOWN" IN
       /\ receipts' = [receipts EXCEPT ![o] =
             [status |-> IF known THEN "RECONCILED" ELSE "UNKNOWN_OUTCOME",
              outcome |-> Finding(o), tool |-> @.tool]]
       /\ SetAttempt(Last(o), IF known THEN "RECONCILED" ELSE "OUTCOME_UNKNOWN")
       /\ IF known
          THEN SetClaim(attempts[Last(o)].proposal.approval,
                        IF Finding(o) = "CONFIRMED_EFFECT" THEN "SUCCEEDED"
                                                           ELSE "CONFIRMED_NO_EFFECT")
          ELSE UNCHANGED claims
    /\ UNCHANGED <<used, reserved, procs, governance, backend>>

\* issue_approval: the proposal must be admissible when it is approved.
IssueApproval(a) ==
    /\ approvals[a] = "ABSENT"
    /\ Admitted("FINANCIAL")
    /\ approvals' = [approvals EXCEPT ![a] = "ISSUED"]
    /\ UNCHANGED <<server, context, cancelled, claims, attempts, receipts, used,
                   reserved, procs, backend>>

\* cancel
Cancel(s) ==
    /\ cancelled' = cancelled \cup {s}
    /\ UNCHANGED <<server, context, approvals, claims, attempts, receipts, used,
                   reserved, procs, backend>>

\* read_resource: the budget is checked as it stands, nothing is reserved.
ReadResource(s, size) ==
    /\ Admitted("READ")
    /\ s \notin cancelled
    /\ used[s].toolCalls + reserved[s] <= MaxToolCalls
    /\ used[s].serverCalls + reserved[s] <= MaxServerCalls
    /\ used[s].bytes + reserved[s] <= MaxBytes
    /\ size <= MaxBytes - used[s].bytes
    /\ used' = [used EXCEPT ![s] = [toolCalls |-> @.toolCalls,
                                    serverCalls |-> @.serverCalls + 1,
                                    bytes |-> @.bytes + size]]
    /\ UNCHANGED <<claims, attempts, receipts, reserved, procs, governance, backend>>

\* quarantine_server
Quarantine ==
    /\ server' = "QUARANTINED"
    /\ UNCHANGED <<context, approvals, cancelled, claims, attempts, receipts, used,
                   reserved, procs, backend>>

-----------------------------------------------------------------------------
\* The environment.

\* Health reports; credentials, snapshots and descriptors come and go.
ChangeHealth ==
    /\ server # "QUARANTINED"
    /\ server' \in {"HEALTHY", "DEGRADED"} \ {server}
    /\ UNCHANGED <<context, approvals, cancelled, claims, attempts, receipts, used,
                   reserved, procs, backend>>

ChangeContext ==
    /\ context' \in {"GRANTED", "STALE", "REVOKED"} \ {context}
    /\ UNCHANGED <<server, approvals, cancelled, claims, attempts, receipts, used,
                   reserved, procs, backend>>

ExpireApproval(a) ==
    /\ approvals[a] = "ISSUED"
    /\ approvals' = [approvals EXCEPT ![a] = "EXPIRED"]
    /\ UNCHANGED <<server, context, cancelled, claims, attempts, receipts, used,
                   reserved, procs, backend>>

\* A request reaches the backend, maybe after its caller has given up, or never.
Handle(n) ==
    /\ n \in sent
    /\ sent' = sent \ {n}
    /\ handled' = handled \cup {n}
    /\ effects' = IF attempts[n].proposal.tool = "FINANCIAL"
                  THEN effects \cup {attempts[n].proposal.op} ELSE effects
    /\ UNCHANGED <<governance, claims, attempts, receipts, used, reserved, procs, absent>>

Lose(n) ==
    /\ n \in sent
    /\ sent' = sent \ {n}
    /\ UNCHANGED <<governance, claims, attempts, receipts, used, reserved, procs,
                   handled, effects, absent>>

Outstanding(o) == \E n \in sent : attempts[n].proposal.op = o

\* The provider states, truthfully, that it never did the operation and that
\* no request for it is left that could do it.
ConfirmAbsence(o) ==
    /\ receipts[o].status = "UNKNOWN_OUTCOME"
    /\ o \notin effects /\ ~Outstanding(o)
    /\ absent' = absent \cup {o}
    /\ UNCHANGED <<governance, claims, attempts, receipts, used, reserved, procs,
                   sent, handled, effects>>

-----------------------------------------------------------------------------

\* What a caller does as long as nobody else has changed its attempt.
Working(p) ==
    \/ \E q \in Proposals : Admit(p, q)
    \/ Reserve(p) \/ RecordDispatch(p) \/ Send(p) \/ Abandon(p)
    \/ Complete(p) \/ Settle(p)

Calling(p) == Working(p) \/ CompleteRefused(p)

Environment ==
    \/ \E a \in Approvals : IssueApproval(a) \/ ExpireApproval(a)
    \/ \E s \in Sessions : Cancel(s)
    \/ \E s \in Sessions, size \in Sizes : ReadResource(s, size)
    \/ Quarantine \/ ChangeHealth \/ ChangeContext
    \/ \E n \in sent : Handle(n) \/ Lose(n)
    \/ \E o \in Ops : ConfirmAbsence(o)

Next ==
    \/ \E p \in Callers : Calling(p)
    \/ Environment
    \/ \E o \in Ops : Reconcile(o)

Spec == Init /\ [][Next]_vars
=============================================================================
