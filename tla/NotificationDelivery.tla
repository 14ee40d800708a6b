------------------------ MODULE NotificationDelivery ------------------------
(***************************************************************************)
(* The delivery half of advanced/08-proactive-agents/lab.py: workers in    *)
(* deliver_notification, a job in execute_due_escalations, operators who   *)
(* acknowledge, resolve and reconcile, over the rows of one incident in    *)
(* DurableProactiveStore.  The connection is in autocommit mode, so every  *)
(* SQL statement is a commit of its own and the steps below interleave.    *)
(*                                                                         *)
(* A provider call is the insertion of its DeliveryAttempt, as in the      *)
(* code.  Not kept: channels, recipients and their re-resolution, the      *)
(* audit log, and the recipient's hourly count, which depends on other     *)
(* incidents too: a low-priority load finds the limit reached or not.      *)
(***************************************************************************)
EXTENDS Integers, Sequences, FiniteSets

CONSTANTS
    Deliverers,    \* processes that call deliver_notification
    Sweepers,      \* processes that call execute_due_escalations
    Page,          \* the incident's P1 notification
    Low,           \* its notifications of lower severity
    Roles,         \* escalation_roles; a role names its row and its notification
    NoNote,
    MaxAttempts,
    MaxCrashes     \* bound of the model: processes killed

RoleSet == {Roles[i] : i \in 1..Len(Roles)}
Notes == {Page} \cup Low \cup RoleSet
Procs == Deliverers \cup Sweepers

ASSUME DeliveryAssumption ==
    /\ Deliverers \cap Sweepers = {}
    /\ Roles \in Seq(RoleSet) /\ Cardinality(RoleSet) = Len(Roles)
    /\ Low \cap ({Page} \cup RoleSet) = {} /\ Page \notin RoleSet
    /\ NoNote \notin Notes
    /\ MaxAttempts \in Nat \ {0} /\ MaxCrashes \in Nat

VARIABLES
    incident,      \* its status; ACTIVE is any that lets escalations go out
    notes,         \* notifications: status, attempt_count and last receipt
    attempts,      \* delivery_attempts: (notification, attempt number) -> outcome
    deadLetters,   \* dead_letters
    escalations,   \* role -> status of its escalation row
    due,           \* how many of the roles' due_at have passed
    closing,       \* the steps an operator's call has still to do
    procs,
    crashes

vars == <<incident, notes, attempts, deadLetters, escalations, due, closing,
          procs, crashes>>

\* What the provider reports of one attempt.
Outcomes == {"DELIVERED", "UNKNOWN", "TRANSIENT_FAILURE", "PERMANENT_FAILURE"}

Receipts == Outcomes \cup {"NONE", "DEFERRED", "RECONCILED", "DEAD_LETTERED"}

NoteStatus == {"ABSENT", "ROUTED", "DEFERRED", "SCHEDULED", "DELIVERING",
               "DELIVERED", "FAILED", "CANCELLED"}

\* rows is what is left of the escalations a sweep has selected; a process that
\* delivers outside a sweep has none.
ProcState == [pc: {"idle", "sweeping", "saving", "loading", "sending",
                   "fallback", "finishing", "deferring", "marking"},
              note: Notes \cup {NoNote}, rows: SUBSET RoleSet,
              number: 0..MaxAttempts, outcome: Outcomes \cup {"NONE"}]

TypeOK ==
    /\ incident \in {"ACTIVE", "ACKNOWLEDGED", "RESOLVED"}
    /\ notes \in [Notes -> [status: NoteStatus, count: 0..MaxAttempts, receipt: Receipts]]
    /\ attempts \in [Notes -> [1..MaxAttempts -> Outcomes \cup {"NONE"}]]
    /\ deadLetters \subseteq Notes
    /\ escalations \in [RoleSet -> {"ABSENT", "SCHEDULED", "CANCELLED", "SENT"}]
    /\ due \in 0..Len(Roles)
    /\ closing \in [pc: {"none", "acknowledging", "resolving", "selecting", "cancelling"},
                    todo: SUBSET Notes]
    /\ procs \in [Procs -> ProcState]
    /\ crashes \in 0..MaxCrashes

At(pc, n, rows, number, outcome) ==
    [pc |-> pc, note |-> n, rows |-> rows, number |-> number, outcome |-> outcome]

Idle == At("idle", NoNote, {}, 0, "NONE")

NotClosing == [pc |-> "none", todo |-> {}]

Absent == [status |-> "ABSENT", count |-> 0, receipt |-> "NONE"]
Routed == [Absent EXCEPT !.status = "ROUTED"]

\* The engine has made the incident ACTIVE and saved nothing yet.
Init ==
    /\ incident = "ACTIVE"
    /\ notes = [n \in Notes |-> Absent]
    /\ attempts = [n \in Notes |-> [i \in 1..MaxAttempts |-> "NONE"]]
    /\ deadLetters = {}
    /\ escalations = [r \in RoleSet |-> "ABSENT"]
    /\ due = 0
    /\ closing = NotClosing
    /\ procs = [p \in Procs |-> Idle]
    /\ crashes = 0

Goto(p, s) == procs' = [procs EXCEPT ![p] = s]

-----------------------------------------------------------------------------
\* deliver_notification.

\* Wrong: any receipt counts as a delivery.
HasReceipt(n) == notes[n].receipt # "NONE"

Confirmed(n) == notes[n].receipt \in {"DELIVERED", "RECONCILED"}

\* Wrong: an unknown outcome is retried like a failure.
OpenUnlessDelivered(n) ==
    notes[n].status \notin {"ABSENT", "CANCELLED"} /\ ~Confirmed(n)

\* The row may be delivered: not cancelled, not confirmed, not unknown.
Open(n) ==
    /\ notes[n].status \notin {"ABSENT", "CANCELLED"}
    /\ ~Confirmed(n) /\ notes[n].receipt # "UNKNOWN"

\* The row is read; a low priority may find its recipient's hour full.
Load(p, n, rows) ==
    /\ Open(n)
    /\ \/ notes[n].count < MaxAttempts
          /\ Goto(p, At("sending", n, rows, notes[n].count, "NONE"))
       \/ n \in Low
          /\ Goto(p, At("deferring", n, rows, notes[n].count, "NONE"))

Deliver(p, n) ==
    /\ procs[p].pc = "idle"
    /\ Load(p, n, {})
    /\ UNCHANGED <<incident, notes, attempts, deadLetters, escalations, due,
                   closing, crashes>>

\* Wrong: an attempt number may be used again.
NeverTaken(n, number) == FALSE

\* UNIQUE (tenant_id, logical_notification_id, attempt_number)
Taken(n, number) == attempts[n][number] # "NONE"

\* Only a transient failure of a P1 has a second channel to fall back on.
FallsBack(p, outcome) ==
    /\ procs[p].pc = "sending" /\ outcome = "TRANSIENT_FAILURE"
    /\ procs[p].note \notin Low
    /\ procs[p].number + 1 < MaxAttempts

\* _record_provider_attempt: on the primary channel, then on the fallback; a
\* number that is taken raises and ends the call, and the sweep around it.
Attempt(p) ==
    /\ procs[p].pc \in {"sending", "fallback"}
    /\ LET n == procs[p].note
           number == procs[p].number + 1 IN
       \/ /\ Taken(n, number)
          /\ Goto(p, Idle)
          /\ UNCHANGED attempts
       \/ /\ ~Taken(n, number)
          /\ \E outcome \in Outcomes :
                /\ attempts' = [attempts EXCEPT ![n][number] = outcome]
                /\ Goto(p, At(IF FallsBack(p, outcome) THEN "fallback" ELSE "finishing",
                              n, procs[p].rows, number, outcome))
    /\ UNCHANGED <<incident, notes, deadLetters, escalations, due, closing, crashes>>

\* Wrong: one attempt more is expected after the last.
ExhaustedLater(number) == number > MaxAttempts

Exhausted(number) == number >= MaxAttempts

\* Wrong: the row counts the attempt that comes next.
CountsNext(number, outcome) ==
    [status |-> "SCHEDULED", count |-> number + 1, receipt |-> outcome]

\* The row after its last attempt.
RowAfter(number, outcome) ==
    CASE outcome = "DELIVERED" ->
            [status |-> "DELIVERED", count |-> number, receipt |-> outcome]
      [] outcome = "UNKNOWN" ->
            [status |-> "DELIVERING", count |-> number, receipt |-> outcome]
      [] outcome = "PERMANENT_FAILURE" ->
            [status |-> "FAILED", count |-> number, receipt |-> outcome]
      [] outcome = "TRANSIENT_FAILURE" /\ Exhausted(number) ->
            [status |-> "FAILED", count |-> number, receipt |-> "DEAD_LETTERED"]
      [] OTHER ->
            [status |-> "SCHEDULED", count |-> number, receipt |-> outcome]

\* The loop of execute_due_escalations goes on with its next row.
NextRow(p, r) ==
    LET rest == procs[p].rows \ {r} IN
    Goto(p, IF rest = {} THEN Idle ELSE At("sweeping", NoNote, rest, 0, "NONE"))

\* update_notification, with the dead letter before it: whatever the row has
\* become since it was read.
Finish(p) ==
    /\ procs[p].pc = "finishing"
    /\ LET n == procs[p].note
           row == RowAfter(procs[p].number, procs[p].outcome) IN
       /\ notes' = [notes EXCEPT ![n] = row]
       /\ deadLetters' = IF row.status = "FAILED" THEN deadLetters \cup {n} ELSE deadLetters
       /\ CASE procs[p].rows = {} -> Goto(p, Idle)
            [] procs[p].rows # {} /\ row.status = "DELIVERED" ->
                  Goto(p, At("marking", n, procs[p].rows, 0, "NONE"))
            [] OTHER -> NextRow(p, n)
    /\ UNCHANGED <<incident, attempts, escalations, due, closing, crashes>>

\* A typed deferral: the count is the one that was read.
Defer(p) ==
    /\ procs[p].pc = "deferring"
    /\ notes' = [notes EXCEPT ![procs[p].note] =
          [status |-> "DEFERRED", count |-> procs[p].number, receipt |-> "DEFERRED"]]
    /\ Goto(p, Idle)
    /\ UNCHANGED <<incident, attempts, deadLetters, escalations, due, closing, crashes>>

-----------------------------------------------------------------------------
\* execute_due_escalations.

Scheduled(r) == escalations[r] = "SCHEDULED"

\* due_escalations: the rows are selected once.
Sweep(p) ==
    /\ procs[p].pc = "idle"
    /\ LET rows == {r \in {Roles[i] : i \in 1..due} : Scheduled(r)} IN
       /\ rows # {}
       /\ Goto(p, At("sweeping", NoNote, rows, 0, "NONE"))
    /\ UNCHANGED <<incident, notes, attempts, deadLetters, escalations, due,
                   closing, crashes>>

CancelScheduled ==
    escalations' = [r \in RoleSet |-> IF Scheduled(r) THEN "CANCELLED" ELSE escalations[r]]

\* The rows come in the order of their due_at, which is that of the roles.
DueBefore(r, q) == \E i, j \in DOMAIN Roles : Roles[i] = r /\ Roles[j] = q /\ i <= j

\* One row: its incident is settled, or its role gets a notification.
CheckRow(p) ==
    /\ procs[p].pc = "sweeping"
    /\ \E r \in procs[p].rows :
          /\ \A q \in procs[p].rows : DueBefore(r, q)
          /\ \/ /\ incident \in {"ACKNOWLEDGED", "RESOLVED"}
                /\ CancelScheduled /\ NextRow(p, r)
             \/ /\ incident = "ACTIVE"
                /\ Goto(p, At("saving", r, procs[p].rows, 0, "NONE"))
                /\ UNCHANGED escalations
    /\ UNCHANGED <<incident, notes, attempts, deadLetters, due, closing, crashes>>

\* save_notification: once per role.
SaveRow(p) ==
    /\ procs[p].pc = "saving"
    /\ LET r == procs[p].note IN
       /\ notes' = [notes EXCEPT ![r] = IF notes[r] = Absent THEN Routed ELSE notes[r]]
       /\ Goto(p, At("loading", r, procs[p].rows, 0, "NONE"))
    /\ UNCHANGED <<incident, attempts, deadLetters, escalations, due, closing, crashes>>

\* deliver_notification returns an earlier confirmation, goes on, or raises and
\* takes the whole sweep with it.
LoadRow(p) ==
    /\ procs[p].pc = "loading"
    /\ LET r == procs[p].note IN
       CASE notes[r].status # "CANCELLED" /\ Confirmed(r) ->
               Goto(p, At("marking", r, procs[p].rows, 0, "NONE"))
         [] Open(r) /\ notes[r].count < MaxAttempts -> Load(p, r, procs[p].rows)
         [] OTHER -> Goto(p, Idle)
    /\ UNCHANGED <<incident, notes, attempts, deadLetters, escalations, due,
                   closing, crashes>>

\* mark_escalation_sent
Mark(p) ==
    /\ procs[p].pc = "marking"
    /\ escalations' = [escalations EXCEPT ![procs[p].note] = "SENT"]
    /\ NextRow(p, procs[p].note)
    /\ UNCHANGED <<incident, notes, attempts, deadLetters, due, closing, crashes>>

\* A process dies and is started again: it forgets the row it has read.
Crash(p) ==
    /\ procs[p].pc # "idle" /\ crashes < MaxCrashes
    /\ Goto(p, Idle)
    /\ crashes' = crashes + 1
    /\ UNCHANGED <<incident, notes, attempts, deadLetters, escalations, due, closing>>

-----------------------------------------------------------------------------
\* Operators and the engine.

\* process_event saves the notification of a trigger it has activated, without
\* looking at the incident again; a lower severity may wait for a digest.
SaveNotification(n) ==
    /\ n \in {Page} \cup Low /\ notes[n] = Absent
    /\ \E status \in {"ROUTED"} \cup (IF n \in Low THEN {"DEFERRED"} ELSE {}) :
          notes' = [notes EXCEPT ![n].status = status]
    /\ UNCHANGED <<incident, attempts, deadLetters, escalations, due, closing, procs, crashes>>

\* schedule_escalations: after the P1, one row per role, a statement each.
ScheduleEscalation(i) ==
    /\ notes[Page] # Absent
    /\ escalations[Roles[i]] = "ABSENT"
    /\ \A j \in 1..(i - 1) : escalations[Roles[j]] # "ABSENT"
    /\ escalations' = [escalations EXCEPT ![Roles[i]] = "SCHEDULED"]
    /\ UNCHANGED <<incident, notes, attempts, deadLetters, due, closing, procs, crashes>>

\* The next role's due_at passes.
AckTimeout ==
    /\ due < Len(Roles) /\ escalations[Roles[due + 1]] # "ABSENT"
    /\ due' = due + 1
    /\ UNCHANGED <<incident, notes, attempts, deadLetters, escalations, closing,
                   procs, crashes>>

\* acknowledge_incident, resolve_incident: the incident first.
Acknowledge ==
    /\ closing = NotClosing
    /\ incident' = "ACKNOWLEDGED"
    /\ closing' = [NotClosing EXCEPT !.pc = "acknowledging"]
    /\ UNCHANGED <<notes, attempts, deadLetters, escalations, due, procs, crashes>>

Resolve ==
    /\ closing = NotClosing
    /\ incident' = "RESOLVED"
    /\ closing' = [NotClosing EXCEPT !.pc = "resolving"]
    /\ UNCHANGED <<notes, attempts, deadLetters, escalations, due, procs, crashes>>

\* cancel_escalations
CancelEscalations ==
    /\ closing.pc \in {"acknowledging", "resolving"}
    /\ CancelScheduled
    /\ closing' = [NotClosing EXCEPT !.pc =
                      IF closing.pc = "resolving" THEN "selecting" ELSE "none"]
    /\ UNCHANGED <<incident, notes, attempts, deadLetters, due, procs, crashes>>

\* cancel_pending_notifications: the rows are read, then updated one by one.
SelectPending ==
    /\ closing.pc = "selecting"
    /\ LET pending == {n \in Notes :
                         notes[n].status \notin {"ABSENT", "DELIVERED", "CANCELLED"}} IN
       closing' = IF pending = {} THEN NotClosing
                  ELSE [pc |-> "cancelling", todo |-> pending]
    /\ UNCHANGED <<incident, notes, attempts, deadLetters, escalations, due, procs, crashes>>

CancelNote(n) ==
    /\ n \in closing.todo
    /\ notes' = [notes EXCEPT ![n].status = "CANCELLED"]
    /\ closing' = IF closing.todo = {n} THEN NotClosing
                  ELSE [closing EXCEPT !.todo = @ \ {n}]
    /\ UNCHANGED <<incident, attempts, deadLetters, escalations, due, procs, crashes>>

\* The engine activates an acknowledged incident again.
Reactivate ==
    /\ incident = "ACKNOWLEDGED"
    /\ incident' = "ACTIVE"
    /\ UNCHANGED <<notes, attempts, deadLetters, escalations, due, closing, procs, crashes>>

\* reconcile_unknown_delivery, as one step: nobody delivers an unknown row.
Reconcile(n) ==
    /\ notes[n].receipt = "UNKNOWN"
    /\ notes' = [notes EXCEPT ![n].status = "DELIVERED", ![n].receipt = "RECONCILED"]
    /\ UNCHANGED <<incident, attempts, deadLetters, escalations, due, closing, procs, crashes>>

-----------------------------------------------------------------------------

\* A process goes on with the call it is in.
Proceed(p) ==
    \/ Attempt(p) \/ Finish(p) \/ Defer(p)
    \/ CheckRow(p) \/ SaveRow(p) \/ LoadRow(p) \/ Mark(p)

Operator ==
    \/ Acknowledge \/ Resolve \/ CancelEscalations \/ SelectPending \/ Reactivate
    \/ \E n \in Notes : CancelNote(n) \/ Reconcile(n)

Next ==
    \/ \E p \in Procs : Proceed(p) \/ Crash(p)
    \/ \E p \in Deliverers, n \in Notes : Deliver(p, n)
    \/ \E p \in Sweepers : Sweep(p)
    \/ \E n \in Notes : SaveNotification(n)
    \/ \E i \in DOMAIN Roles : ScheduleEscalation(i)
    \/ AckTimeout
    \/ Operator

Spec == Init /\ [][Next]_vars
=============================================================================
