-------------------------- MODULE WorkflowLiveness --------------------------
(***************************************************************************)
(* What WorkflowRuntime eventually does, and the scheduling that takes.    *)
(* Fair are the clock, the sweeper that recovers expired dispatches, the   *)
(* ledger observer and the verifier (calls an operator repeats until they  *)
(* succeed) and the timer service, which reads the timers table.  Workers  *)
(* and people may stop for ever.                                           *)
(***************************************************************************)
EXTENDS WorkflowSafety

\* The scheduler emits timer events only for a timer it found in the store.
SchedulerReadsTimers ==
    \A e \in Events :
        e.src = "scheduler" /\ inbox'[e] # inbox[e] => timer.status # "ABSENT"

Fire(e) == e.src = "scheduler" /\ timer.status # "ABSENT" /\ Deliver(e)

ServicesFair ==
    /\ WF_vars(Tick) /\ WF_vars(Recover) /\ WF_vars(Observe) /\ WF_vars(Verify)
    /\ \A e \in Events : WF_vars(Fire(e))

FairSpec == Init /\ [][Next /\ SchedulerReadsTimers]_vars /\ ServicesFair

\* A wait whose timer was stored ends, whatever reviewers and operators do.
WaitEnds ==
    run.status = "WAITING_APPROVAL" /\ timer.status = "PENDING"
        ~> run.status # "WAITING_APPROVAL"

\* A dispatched attempt never stays in flight: an answer is recorded or the
\* expired lease turns it into an obligation to reconcile.
DispatchSettles ==
    run.status = "EXECUTING" /\ op.dispatched ~> run.status # "EXECUTING"

\* A run that found its effect is verified and closed.
VerificationEnds == run.status = "VERIFYING" ~> run.status \in Terminal

\* Nothing that the services look after stays where it is: waits, dispatched
\* calls and verifications all end (the sweeper recover_expired_inflight, the
\* timers table, verify_and_complete).
RunsSettle == WaitEnds /\ DispatchSettles /\ VerificationEnds
=============================================================================
