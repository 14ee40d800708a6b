------------------------- MODULE NotificationSafety -------------------------
(* What delivery promises of the notifications of one incident. *)
EXTENDS NotificationDelivery

\* The outcomes after which the recipient has, or may have, the message.
Reached == {"DELIVERED", "UNKNOWN"}

Hits(n) == {i \in 1..MaxAttempts : attempts[n][i] \in Reached}

\* A notification reaches its recipient at most once: no interleaving of
\* deliverers, sweeps, stale deferrals and crashes makes a second attempt after
\* one that was delivered or whose outcome is unknown.
ReachesOnce == \A n \in Notes : \A i, j \in Hits(n) : i = j

\* The numbers of the attempts leave no gap, and a row never counts an attempt
\* that was not made: what a worker counted before the row moved on is harmless.
AttemptsAreCounted ==
    \A n \in Notes :
        /\ \A i \in 2..MaxAttempts : Taken(n, i) => Taken(n, i - 1)
        /\ \A i \in 1..notes[n].count : Taken(n, i)

\* An escalation is SENT only when its own message reached the role, directly or
\* as a reconciled unknown, whatever happened to the incident meanwhile.
SentMeansDelivered == \A r \in RoleSet : escalations[r] = "SENT" => Hits(r) # {}

\* A confirmed page or escalation keeps its confirmation: no worker that had
\* read the row earlier replaces the receipt.
ConfirmedPageStays ==
    [][\A n \in Notes \ Low : Confirmed(n) => notes'[n].receipt = notes[n].receipt]_vars

-----------------------------------------------------------------------------

\* Every page ends in a receipt somebody can act on, or cancelled.
Settled(n) ==
    \/ notes[n].status = "CANCELLED"
    \/ notes[n].receipt \in {"DELIVERED", "RECONCILED", "UNKNOWN", "PERMANENT_FAILURE",
                             "DEAD_LETTERED"}

\* Processes go on with their calls, some caller keeps asking for the page, and
\* the escalation job runs again and again.
FairSpec ==
    /\ Spec
    /\ \A p \in Procs : WF_vars(Proceed(p))
    /\ \A p \in Deliverers : SF_vars(Deliver(p, Page))
    /\ \A p \in Sweepers : WF_vars(Sweep(p))

\* While no worker dies, a saved page does not stay without a result: it is
\* delivered, unknown, failed for good, or dead-lettered after its last attempt.
PageSettles == (notes[Page] # Absent) ~> (Settled(Page) \/ crashes > 0)

\* Without acknowledgment every role that is due gets a page of its own
\* (QUIET_HOURS_AND_PREFERENCES.md:50).
EveryDueRoleIsPaged ==
    \A i \in DOMAIN Roles :
        (i <= due /\ Scheduled(Roles[i]))
            ~> (~Scheduled(Roles[i]) \/ notes[Roles[i]] # Absent \/ crashes > 0)
=============================================================================
