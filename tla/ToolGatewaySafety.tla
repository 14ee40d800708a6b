------------------------- MODULE ToolGatewaySafety -------------------------
(* What the gateway must never get wrong about budgets, claims and receipts. *)
EXTENDS ToolGateway

\* A caller works on operation o.
WorkedOn(o) == \E p \in Callers : procs[p].pc # "idle" /\ CallOf(p).op = o

\* An attempt of operation o is neither settled nor given up.
Open(o) == \E n \in DOMAIN attempts :
              attempts[n].proposal.op = o /\ attempts[n].status \in {"RESERVED", "DISPATCHED"}

\* Reconciliation as an operator does it: nobody works on the operation, no
\* request of it is under way and no attempt of it is left open.
QuietReconcile(o) == ~WorkedOn(o) /\ ~Outstanding(o) /\ ~Open(o) /\ Reconcile(o)

\* Then no attempt is settled under its caller: no completion is refused.
QuietNext ==
    \/ \E p \in Callers : Working(p)
    \/ Environment
    \/ \E o \in Ops : QuietReconcile(o)

QuietSpec == Init /\ [][QuietNext]_vars

-----------------------------------------------------------------------------

\* What a session has used and what its unfinished calls have reserved together
\* fit the budget of tool calls, whoever prepares concurrently, crashes, is
\* cancelled or reconciled (_check_budget, _reserve, complete_tool_call).
BudgetHolds ==
    \A s \in Sessions : used[s].toolCalls + reserved[s] <= MaxToolCalls

\* An attempt that holds a reservation: prepared or dispatched, and not past
\* the point of complete_tool_call where the reservation is released.
Holds(n, s) ==
    /\ attempts[n].proposal.session = s
    /\ attempts[n].status \in {"RESERVED", "DISPATCHED"}
    /\ ~\E p \in Callers : procs[p].pc = "recorded" /\ procs[p].attempt = n

\* Every reserved call belongs to exactly one attempt that can still release
\* it: no reservation is leaked and none is released twice.
ReservationsMatchAttempts ==
    \A s \in Sessions :
        reserved[s] = Cardinality({n \in DOMAIN attempts : Holds(n, s)})

\* A host that names its calls properly: an operation is one invocation of one
\* tool (logical_operation_id), approved at most once, and only a consequential
\* call carries an approval.
OneCallEach ==
    /\ \A a, b \in Approvals : ApprovalOp[a] = ApprovalOp[b] => a = b
    /\ \A q \in Proposals : q.tool # "FINANCIAL" => q.approval = NoApproval
    /\ \A q, r \in Proposals : q.op = r.op => q.tool = r.tool

GatedAttempts(a) ==
    {n \in DOMAIN attempts : attempts[n].proposal.approval = a
                             /\ attempts[n].proposal.tool = "FINANCIAL"}

\* What the newest attempt under an approval says about its claim.
ClaimOf(n) ==
    CASE attempts[n].status = "RESERVED" -> "CLAIMED"
      [] attempts[n].status = "CANCELLED" -> "CONFIRMED_NO_EFFECT"
      [] attempts[n].status = "DISPATCHED" -> "IN_FLIGHT"
      [] attempts[n].status = "SUCCEEDED" -> "SUCCEEDED"
      [] attempts[n].status = "RECONCILED" ->
            IF receipts[attempts[n].proposal.op].outcome = "CONFIRMED_EFFECT"
            THEN "SUCCEEDED" ELSE "CONFIRMED_NO_EFFECT"
      [] OTHER -> "UNKNOWN"

\* The claim table and the attempt table, written by four different methods,
\* never tell different stories about an approval.
ClaimsMatchAttempts ==
    \A a \in Approvals :
        claims[a] = IF GatedAttempts(a) = {} THEN "NONE"
                    ELSE ClaimOf(CHOOSE n \in GatedAttempts(a) :
                                    \A m \in GatedAttempts(a) : m <= n)

\* Of the operations that an approval stands for, one consequential operation is
\* attempted again only when every earlier attempt was cancelled before dispatch
\* or reconciled; in particular two callers never have it under way together.
\* A second approval of one operation carries a claim of its own and would not
\* stop them: the runs issue one.
RetryAfterAbsence ==
    [][\A n \in DOMAIN attempts' \ DOMAIN attempts :
          attempts'[n].proposal.tool = "FINANCIAL" =>
            \A m \in DOMAIN attempts :
              attempts[m].proposal.op = attempts'[n].proposal.op =>
                attempts[m].status \in {"CANCELLED", "RECONCILED"}]_vars

Confirmed(r) ==
    r.tool = "FINANCIAL" /\ (r.status = "SUCCEEDED" \/ r.outcome = "CONFIRMED_EFFECT")

\* A receipt that confirms a consequential effect is never overwritten, by a
\* slower caller or by a later reconciliation.
ConfirmedStays ==
    [][\A o \in Ops : Confirmed(receipts[o]) => receipts'[o] = receipts[o]]_vars

\* A consequential operation is settled before it is tried again, and settled
\* for good once its effect is confirmed.
EffectsSettleOnce == RetryAfterAbsence /\ ConfirmedStays

Promise(a) == INSTANCE ApprovedEffect
                WITH phase <- claims[a], happened <- ApprovalOp[a] \in effects

\* Every approval of the gateway keeps the promise of ApprovedEffect: this is
\* Promise(a)!Spec for every a, with the quantifier inside the box for TLC.
ApprovalsKeepPromise ==
    /\ \A a \in Approvals : Promise(a)!Init
    /\ [][\A a \in Approvals : [Promise(a)!Next]_(Promise(a)!promiseVars)]_vars
=============================================================================
