--------------------------- MODULE MCNotification ---------------------------
(* Small instances of NotificationDelivery for TLC. *)
EXTENDS NotificationSafety, TLC

CONSTANTS commander, vp

NoRole == << >>
OneRole == <<commander>>
TwoRoles == <<commander, vp>>

\* Rows are delivered independently of each other: one notification in delivery
\* at a time is enough, and the low ones need no escalation beside them.
OneInDelivery ==
    /\ Cardinality({n \in Notes : notes[n].receipt # "NONE" \/ Taken(n, 1)}) <= 1
    /\ notes[Page] # Absent => \A n \in Low : notes[n] = Absent

DelivererSymmetry == Permutations(Deliverers)
=============================================================================
