------------------------- MODULE MCWorkflowRuntime -------------------------
(* Small instances of WorkflowRuntime for TLC. *)
EXTENDS WorkflowLiveness, TLC

CONSTANTS r1, r2, w1, w2

OneReceipt == {r1}
TwoReceipts == {r1, r2}

\* r1 is issued for this proposal and outlives it; r2 names another proposal.
MCReceiptBound == [r \in Receipts |-> r = r1]
MCReceiptIssued == [r \in Receipts |-> 1]
MCReceiptExpires == [r \in Receipts |-> 3]

Ev(id, src, sid, type, gen, at, ref) ==
    [id |-> id, src |-> src, sid |-> sid, type |-> type, gen |-> gen, at |-> at,
     trusted |-> TRUE, ref |-> ref]

Gate == "approval-gateway"
Ops == "operator-control"

Approve == Ev(1, Gate, 1, "APPROVAL_AVAILABLE", 1, 1, r1)
Cancel == Ev(2, Ops, 1, "CANCEL_REQUESTED", 1, 1, "NONE")
Takeover == Ev(3, Ops, 2, "MANUAL_TAKEOVER", 1, 1, "NONE")
Timeout == Ev(4, "scheduler", 1, "TIMER_FIRED", 1, Deadline, "TIMER")

\* The same approval delivery in a new envelope; an approval that names the
\* wrong receipt; a rejection.
Rewrapped == [Approve EXCEPT !.id = 5]
ApproveOther == Ev(6, Gate, 2, "APPROVAL_AVAILABLE", 1, 2, r2)
Reject == Ev(7, Gate, 3, "APPROVAL_REJECTED", 1, 1, "NONE")

\* Events admission refuses or no handler supports.
Unsigned == [Reject EXCEPT !.id = 11, !.sid = 11, !.trusted = FALSE]
Callback == Ev(12, "integration-gateway", 1, "EXTERNAL_CALLBACK", 1, 1, "NONE")

ExecutionEvents == {Approve, Cancel}
AdmissionEvents == {Approve, Rewrapped, ApproveOther, Reject, Timeout, Unsigned}
AllEvents == ExecutionEvents \cup AdmissionEvents
ClosureEvents == {Approve, Timeout, Cancel, Takeover}
ContractEvents == {Approve, Cancel, Callback}

\* The run whose timer expires it is for the workers: two of them, two attempts
\* and a cancellation.  The run whose timer escalates is for the events: one
\* worker, one attempt and everything that races for the wait.  The context,
\* which is read at a claim only, changes while nobody holds one.
OneStudy ==
    /\ authority \/ \A w \in Workers : procs[w] = Idle
    /\ IF timer.policy = "EXPIRE"
       THEN /\ \A e \in AllEvents \ ExecutionEvents : inbox[e] = "ABSENT"
            /\ \A r \in Receipts \ OneReceipt : approvals[r] = "ABSENT"
       ELSE /\ inbox[Cancel] = "ABSENT" /\ op.attempt <= 1
            /\ \E w \in Workers : procs[w] = Idle /\ w \notin {run.owner, op.owner}

WorkerSymmetry == Permutations(Workers)
=============================================================================
