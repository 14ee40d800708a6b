----------------------------- MODULE RunPolicy -----------------------------
(***************************************************************************)
(* The application-owned policy of a durable run: the statuses, the legal  *)
(* transitions between them and the outcome a control intent imposes.      *)
(* Translated from advanced/10-long-running-asynchronous-agents/policy.py  *)
(* and from the pure decisions lab.py takes inside its transactions.       *)
(***************************************************************************)
EXTENDS Naturals

Terminal == {"COMPLETED", "REJECTED", "EXPIRED", "CANCELLED", "FAILED",
             "ESCALATED", "MANUAL_CONTROL"}

Waiting == {"WAITING_APPROVAL", "WAITING_EVENT", "WAITING_TIMER"}

RunStatus == Terminal \cup Waiting \cup
    {"CREATED", "RUNNING", "READY_TO_RESUME", "EXECUTING", "RECONCILING",
     "VERIFYING"}

EventType == {"APPROVAL_AVAILABLE", "APPROVAL_REJECTED", "APPROVAL_TIMEOUT",
              "EXTERNAL_CALLBACK", "TIMER_FIRED", "CANCEL_REQUESTED",
              "MANUAL_TAKEOVER"}

\* allowed_sources: the one source that may emit events of a type.
AuthorizedSource(type) ==
    CASE type \in {"APPROVAL_AVAILABLE", "APPROVAL_REJECTED"} -> "approval-gateway"
      [] type \in {"APPROVAL_TIMEOUT", "TIMER_FIRED"} -> "scheduler"
      [] type = "EXTERNAL_CALLBACK" -> "integration-gateway"
      [] OTHER -> "operator-control"

\* "ABSENT" stands for "no row": the operation was never claimed.
OperationStatus == {"ABSENT", "IN_FLIGHT", "UNKNOWN_OUTCOME",
                    "CONFIRMED_NO_EFFECT", "RETRYABLE_FAILURE", "SUCCEEDED",
                    "FAILED"}

AttemptStatus == {"ABSENT", "STARTED", "SUCCEEDED", "UNKNOWN_OUTCOME",
                  "RETRYABLE_FAILURE", "TERMINAL_FAILURE"}

ReconciliationStatus == {"CONFIRMED_EFFECT", "CONFIRMED_NO_EFFECT",
                         "STILL_UNKNOWN"}

-----------------------------------------------------------------------------

\* Where an interrupted wait may go; approval alone can also be rejected.
AfterWait == {"READY_TO_RESUME", "EXPIRED", "ESCALATED", "CANCELLED",
              "MANUAL_CONTROL"}

\* ALLOWED_TRANSITIONS: the statuses a run may move to from s.
Successors(s) ==
    CASE s = "CREATED" -> {"RUNNING", "CANCELLED"}
      [] s = "RUNNING" -> Waiting \cup {"FAILED", "CANCELLED", "MANUAL_CONTROL"}
      [] s = "WAITING_APPROVAL" -> AfterWait \cup {"REJECTED"}
      [] s \in {"WAITING_EVENT", "WAITING_TIMER"} -> AfterWait
      [] s = "READY_TO_RESUME" ->
            {"EXECUTING", "CANCELLED", "FAILED", "MANUAL_CONTROL"}
      [] s = "EXECUTING" ->
            {"READY_TO_RESUME", "RECONCILING", "VERIFYING", "FAILED",
             "CANCELLED", "MANUAL_CONTROL"}
      [] s = "RECONCILING" ->
            {"READY_TO_RESUME", "EXECUTING", "VERIFYING", "FAILED",
             "CANCELLED", "MANUAL_CONTROL"}
      [] s = "VERIFYING" ->
            {"COMPLETED", "FAILED", "CANCELLED", "MANUAL_CONTROL"}
      [] OTHER -> {}

CanMove(s, t) == t \in Successors(s)

\* The status a timer's persisted policy sends an expired wait to.
TimeoutTarget(policy) ==
    CASE policy = "EXPIRE"   -> "EXPIRED"
      [] policy = "ESCALATE" -> "ESCALATED"
      [] policy = "CANCEL"   -> "CANCELLED"

\* Wrong: the last of the two checks wins instead of the stronger intent.
CancelFirst(manual, cancel, target) ==
    IF cancel THEN "CANCELLED" ELSE IF manual THEN "MANUAL_CONTROL" ELSE target

\* A pending control intent overrides target; manual takeover wins over
\* cancellation when both were requested.
UnderIntent(manual, cancel, target) ==
    IF manual THEN "MANUAL_CONTROL" ELSE IF cancel THEN "CANCELLED" ELSE target

-----------------------------------------------------------------------------

\* What a provider answer means to the operation row, to its attempt receipt
\* and to the run.  TRANSIENT_DEPENDENCY is the only retryable failure code.
Answers == {"SUCCESS", "UNKNOWN_OUTCOME", "TRANSIENT_DEPENDENCY",
            "POLICY_DENIED"}

OperationAfter(answer) ==
    CASE answer = "SUCCESS"              -> "SUCCEEDED"
      [] answer = "UNKNOWN_OUTCOME"      -> "UNKNOWN_OUTCOME"
      [] answer = "TRANSIENT_DEPENDENCY" -> "RETRYABLE_FAILURE"
      [] OTHER                           -> "FAILED"

AttemptAfter(answer) ==
    IF answer = "POLICY_DENIED" THEN "TERMINAL_FAILURE" ELSE OperationAfter(answer)

\* Only outcomes that leave no open obligation (retry or failure) give way to
\* a control intent; a success must still be verified, an unknown reconciled.
RunAfter(answer, manual, cancel) ==
    CASE answer = "SUCCESS"              -> "VERIFYING"
      [] answer = "UNKNOWN_OUTCOME"      -> "RECONCILING"
      [] answer = "TRANSIENT_DEPENDENCY" ->
            UnderIntent(manual, cancel, "READY_TO_RESUME")
      [] OTHER -> UnderIntent(manual, cancel, "FAILED")
=============================================================================
