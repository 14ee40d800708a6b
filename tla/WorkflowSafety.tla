--------------------------- MODULE WorkflowSafety ---------------------------
(***************************************************************************)
(* What WorkflowRuntime promises: relations between the tables of the      *)
(* store, between the store and the outside world, and the refund contract. *)
(***************************************************************************)
EXTENDS WorkflowRuntime

-----------------------------------------------------------------------------
\* Invariants.

\* The rows of one run, written by a dozen transactions, never disagree: the
\* run executes exactly while its operation is in flight, reconciles exactly
\* while the outcome is unknown, is verified or completed only on success, is
\* ready only when a new attempt is legitimate; the attempt receipts and the
\* budget count the same attempts.
RunMatchesOperation ==
    /\ run.status = "EXECUTING" <=> op.status = "IN_FLIGHT"
    /\ run.status = "RECONCILING" <=> op.status = "UNKNOWN_OUTCOME"
    /\ run.status \in {"VERIFYING", "COMPLETED"} => op.status = "SUCCEEDED"
    /\ run.status = "READY_TO_RESUME" =>
          op.status \in {"ABSENT", "RETRYABLE_FAILURE", "CONFIRMED_NO_EFFECT"}
    /\ run.status \in {"CREATED", "RUNNING"} \cup Waiting => op.status = "ABSENT"
    /\ op.attempt = run.attemptsUsed
    /\ \A n \in 1..MaxAttempts :
          /\ attempts[n] = "STARTED" <=> n = op.attempt /\ op.status = "IN_FLIGHT"
          /\ attempts[n] = "ABSENT" <=> n > op.attempt

\* A process that holds a claim of attempt n at the call boundary, or past it.
Calling(p, n) == procs[p].pc \in {"dispatched", "answered"} /\ procs[p].attempt = n

\* However often a claim is redelivered, each attempt reaches the provider at
\* most once, from one process, and attempts never exceed their budget.
CallsWithinBudget ==
    /\ calls + Cardinality({p \in Workers : procs[p].pc = "dispatched"})
          <= run.attemptsUsed
    /\ run.attemptsUsed <= MaxAttempts
    /\ \A n \in 1..MaxAttempts : \A p, q \in Workers :
          Calling(p, n) /\ Calling(q, n) => p = q

\* Money moves only for a run whose bound approval receipt was spent, and
\* neither a timeout nor a rejection can have ended that run.
EffectAuthorised ==
    effect => /\ run.approval # NoReceipt
              /\ approvals[run.approval] = "CONSUMED"
              /\ ReceiptBound[run.approval]
              /\ timer.status # "FIRED"
              /\ run.status \notin {"REJECTED", "EXPIRED", "ESCALATED"}

\* COMPLETED is said only of a refund the provider holds and the business
\* ledger shows, on a run nobody asked to stop.
CompletedMeansEffect ==
    run.status = "COMPLETED" =>
        effect /\ ledger /\ op.status = "SUCCEEDED" /\ ~run.cancelReq /\ ~run.manualReq

\* A control intent accepted while an effect may exist is never lost: from then
\* on the run settles that one effect and ends as the stronger intent asks.
IntentIsKept ==
    /\ run.cancelReq \/ run.manualReq =>
          run.status \in {"EXECUTING", "RECONCILING", "VERIFYING", "CANCELLED",
                          "MANUAL_CONTROL"}
    /\ run.manualReq /\ run.status \in Terminal => run.status = "MANUAL_CONTROL"

WaitEnding == {"APPROVAL_AVAILABLE", "APPROVAL_REJECTED", "APPROVAL_TIMEOUT",
               "TIMER_FIRED"}

Processed(types) == {e \in Events : inbox[e] = "PROCESSED" /\ e.type \in types}

\* Approval, rejection and timeout race for one wait: at most one of all their
\* deliveries is PROCESSED, and the run, the timer and the receipts show that
\* one and no other.
WaitEndsOnce ==
    /\ Cardinality(Processed(WaitEnding)) <= 1
    /\ (run.approval # NoReceipt) = (Processed({"APPROVAL_AVAILABLE"}) # {})
    /\ \A r \in Receipts : approvals[r] = "CONSUMED" => r = run.approval
    /\ (run.status = "REJECTED") = (Processed({"APPROVAL_REJECTED"}) # {})
    /\ (timer.status = "FIRED") = (Processed({"APPROVAL_TIMEOUT", "TIMER_FIRED"}) # {})
    /\ timer.status = "FIRED" => run.status = TimeoutTarget(timer.policy)

\* A delivery rewrapped under another envelope id is not admitted twice.
DeliveriesAdmittedOnce ==
    \A e, f \in Events :
        /\ e # f /\ inbox[e] # "ABSENT" /\ inbox[f] # "ABSENT"
        => ~(e.src = f.src /\ e.sid = f.sid)

\* Whatever arrives, rewrapped, late or at once, a wait has one ending and every
\* delivery one admission.
EveryWaitHasOneEnding == WaitEndsOnce /\ DeliveriesAdmittedOnce

-----------------------------------------------------------------------------
\* Action properties.

\* A late answer never rewrites the receipt of an attempt that was closed.
ReceiptsAreFinal ==
    [][\A n \in 1..MaxAttempts :
          attempts[n] \notin {"ABSENT", "STARTED"} => attempts'[n] = attempts[n]]_vars

\* An event the inbox refuses or finds stale changes no other table.
RefusedEventsAreInert ==
    [][(\E e \in Events : inbox[e] = "ABSENT" /\ inbox'[e] \in {"REJECTED", "STALE"})
          => UNCHANGED <<run, leaseLeft, approvals, timer, op, attempts, outbox>>]_vars

\* While a dispatched worker's lease is live nobody takes its operation from
\* it: the operation leaves flight only by the answer of its own attempt.
LiveLeaseProtects ==
    [][op.status = "IN_FLIGHT" /\ op.dispatched /\ leaseLeft > 0 /\ op'.status # "IN_FLIGHT"
          => \E p \in Workers : Calling(p, op.attempt) /\ procs'[p].pc = "idle"]_vars

-----------------------------------------------------------------------------
\* The refund contract, under the discipline its workers have to keep.

\* The lease is held across what it is meant to protect: a provider call ends
\* before the caller's lease does, and whoever reconciles claims the lease
\* first and keeps it from the query to the commit.  No code enforces this.
LeaseHeld ==
    \A p \in Workers :
        /\ procs[p].pc = "dispatched" => run.owner = procs[p].owner /\ leaseLeft > 0
        /\ procs[p].pc = "queried" => Reconciling /\ run.owner = p /\ leaseLeft > 0

DisciplinedSpec == Init /\ [][Next /\ LeaseHeld']_vars

\* What a closed run says about the money.
Verdict ==
    IF run.status \notin Terminal THEN "open"
    ELSE IF op.status = "SUCCEEDED" THEN "refunded" ELSE "not_refunded"

Contract == INSTANCE RefundContract WITH
    authorised <- run.approval # NoReceipt,
    refunded <- effect,
    verdict <- Verdict

\* Disciplined workers implement the contract: the refund follows a spent
\* approval, a run closes with the truth about it, and no refund happens later.
RefundKeepsContract == Contract!Spec

\* A run is closed only when the outcome of its effect is known: closed books
\* do not hide a refund.  Follows from the contract; README.md says it of the
\* code without the discipline.
NoEffectErased == run.status \in Terminal /\ effect => op.status = "SUCCEEDED"

=============================================================================
