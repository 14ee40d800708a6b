--------------------------- MODULE IncidentEngine ---------------------------
(***************************************************************************)
(* The intake half of advanced/08-proactive-agents/lab.py: the calls of    *)
(* ProactiveEngine.process_event by several workers for the events of one  *)
(* correlation key, with resolve_incident and acknowledge_incident by      *)
(* operators.  Every SQL statement commits by itself, so a call is a       *)
(* sequence of steps and calls interleave.                                 *)
(*                                                                         *)
(* An event is its place in the producer's sequence, an incident the event *)
(* that opened it, or 0 for the one that has the key itself.  Events are   *)
(* metric observations and recoveries; one that admit_event rejects        *)
(* changes nothing and is not received here.  The 15 minutes of a          *)
(* cooldown, the 5 of a fingerprint claim and the age at which a reading   *)
(* is stale may end at any moment.  The audit log, services, digests and   *)
(* what becomes of a notification (NotificationDelivery) are left out.     *)
(***************************************************************************)
EXTENDS Integers, Sequences, FiniteSets

CONSTANTS
    Workers,
    Streams,       \* what the producer may send: sequences of [kind, time]
    Window,        \* correlation_window_seconds
    Sustain,       \* sustain_duration_seconds
    Recovery,      \* recovery_duration_seconds
    MinSeverity,   \* minimum_severity
    MaxRedeliveries, MaxCommands, MaxCrashes    \* bounds of the model

Kinds == {"p1", "breach", "band", "healthy", "missing", "recovered"}

Events == UNION {DOMAIN s : s \in Streams}

ASSUME IncidentAssumption ==
    /\ Streams \subseteq Seq([kind : Kinds, time : Nat])
    /\ \A s \in Streams : \A i, j \in DOMAIN s : i < j => s[i].time < s[j].time
    /\ Window \in Nat /\ Sustain \in Nat /\ Recovery \in Nat /\ MinSeverity \in 1..4
    /\ MaxRedeliveries \in Nat /\ MaxCommands \in Nat /\ MaxCrashes \in Nat

VARIABLES
    stream,        \* the events of this run
    emitted,       \* how many of them have happened
    recorded,      \* processed_events
    links,         \* its incident_id column
    incidents,     \* the aggregates
    samples,       \* metric_samples of each incident
    cooling,       \* incidents whose last notification is in its cooldown
    claimed,       \* the fingerprint is claimed and the claim has not expired
    notified,      \* notifications: incident and severity
    workers,
    redeliveries, commands, crashes

vars == <<stream, emitted, recorded, links, incidents, samples, cooling, claimed,
          notified, workers, redeliveries, commands, crashes>>

\* What a step of a worker leaves alone, a delivery or a crash apart.
env == <<stream, emitted, redeliveries, commands, crashes>>

Incidents == Events \cup {0}

None == -1

\* version 0 is an incident that does not exist; last is its last sequence
\* number, which its last_seen follows; resolvedAt and now count events.
Aggregate == [status: {"NORMAL", "PENDING", "ACTIVE", "ACKNOWLEDGED", "RESOLVED"},
              last: Incidents, count: Nat, severity: 0..4,
              resolvedAt: Incidents \cup {None}, version: Nat]

NoIncident == [status |-> "NORMAL", last |-> 0, count |-> 0, severity |-> 0,
               resolvedAt |-> None, version |-> 0]

Call == [pc: {"idle", "correlating", "creating", "rereading", "opening", "updating",
              "refusing", "binding", "sampling", "judging", "suspecting", "claiming",
              "activating", "saving", "resolving", "closing", "repeating"},
         event: Incidents, now: Incidents, incident: Incidents, row: Aggregate]

IntakeTypeOK ==
    /\ stream \in Streams /\ emitted \in 0..Len(stream)
    /\ recorded \subseteq 1..emitted
    /\ links \in [Events -> Incidents \cup {None}]
    /\ incidents \in [Incidents -> Aggregate]
    /\ samples \in [Incidents -> SUBSET Events]
    /\ cooling \subseteq Incidents /\ claimed \in BOOLEAN
    /\ notified \subseteq Incidents \X (1..4)
    /\ workers \in [Workers -> Call]
    /\ redeliveries \in 0..MaxRedeliveries /\ commands \in 0..MaxCommands
    /\ crashes \in 0..MaxCrashes

Idle == [pc |-> "idle", event |-> 0, now |-> 0, incident |-> 0, row |-> NoIncident]

Init ==
    /\ stream \in Streams /\ emitted = 0
    /\ recorded = {} /\ links = [e \in Events |-> None]
    /\ incidents = [i \in Incidents |-> NoIncident]
    /\ samples = [i \in Incidents |-> {}]
    /\ cooling = {} /\ claimed = FALSE /\ notified = {}
    /\ workers = [w \in Workers |-> Idle]
    /\ redeliveries = 0 /\ commands = 0 /\ crashes = 0

Exists(i) == incidents[i].version > 0

Kind(e) == stream[e].kind

\* derive_severity
Severity(e) == CASE Kind(e) = "p1" -> 1
                 [] Kind(e) = "breach" -> 2
                 [] Kind(e) = "band" -> 3
                 [] OTHER -> 4

\* Where the worker's call goes on, and with which row of which incident.
Goto(w, pc) == workers' = [workers EXCEPT ![w].pc = pc]
GotoWith(w, pc, i, row) ==
    workers' = [workers EXCEPT ![w].pc = pc, ![w].incident = i, ![w].row = row]
Return(w) == workers' = [workers EXCEPT ![w] = Idle]

-----------------------------------------------------------------------------
\* The environment.

Emit ==
    /\ emitted < Len(stream)
    /\ emitted' = emitted + 1
    /\ UNCHANGED <<stream, recorded, links, incidents, samples, cooling, claimed,
                   notified, workers, redeliveries, commands, crashes>>

\* The fingerprint's claim expires.
ClaimExpires ==
    /\ claimed /\ claimed' = FALSE
    /\ UNCHANGED <<env, recorded, links, incidents, samples, cooling, notified,
                   workers>>

CooldownEnds(i) ==
    /\ i \in cooling /\ cooling' = cooling \ {i}
    /\ UNCHANGED <<env, recorded, links, incidents, samples, claimed, notified,
                   workers>>

\* A worker dies and is started again.
Crash(w) ==
    /\ workers[w].pc # "idle" /\ crashes < MaxCrashes
    /\ Return(w)
    /\ crashes' = crashes + 1
    /\ UNCHANGED <<stream, emitted, recorded, links, incidents, samples, cooling,
                   claimed, notified, redeliveries, commands>>

-----------------------------------------------------------------------------
\* The store.

\* Wrong: an older row than the one stored may be written.
NeverStale(i, row) == TRUE

\* update_incident: compare and set on state_version.
Fresh(i, row) == incidents[i].version = row.version

\* Wrong: a write keeps the version it has read.
SameVersion(row) == row

Newer(row) == [row EXCEPT !.version = @ + 1]

\* The call writes what it made of the row it has read; a conflict ends it.
Update(w, row, pc) ==
    LET i == workers[w].incident IN
    \/ /\ Fresh(i, workers[w].row)
       /\ incidents' = [incidents EXCEPT ![i] = Newer(row)]
       /\ IF pc = "idle" THEN Return(w) ELSE GotoWith(w, pc, i, Newer(row))
    \/ /\ ~Fresh(i, workers[w].row)
       /\ Return(w)
       /\ UNCHANGED incidents

\* get_incident_by_correlation: an incident of the key that was seen last.
SeenLast(i) ==
    Exists(i) /\ \A j \in Incidents : Exists(j) => incidents[j].last <= incidents[i].last

\* Wrong: the readings of all incidents of the key count.
StreakOfKey(i, passing) ==
    LET readings == UNION {samples[j] : j \in Incidents} IN
    {e \in readings : \A f \in readings : f >= e => Kind(f) \in passing}

\* sustained_duration: the readings at the end of the incident's that all pass
\* the threshold span the duration.
Streak(i, passing) ==
    {e \in samples[i] : \A f \in samples[i] : f >= e => Kind(f) \in passing}

Spans(i, passing, duration) ==
    duration = 0 \/ \E e, f \in Streak(i, passing) :
                       stream[f].time - stream[e].time >= duration

Breaching == {"p1", "breach"}
Healthy == {"healthy"}

-----------------------------------------------------------------------------
\* process_event, from the admitted event to its incident.

\* record_event
Record(w, e) ==
    /\ workers[w].pc = "idle" /\ e \in (1..emitted) \ recorded
    /\ recorded' = recorded \cup {e}
    /\ workers' = [workers EXCEPT ![w] =
                     [Idle EXCEPT !.pc = "correlating", !.event = e, !.now = emitted]]
    /\ UNCHANGED <<env, links, incidents, samples, cooling, claimed, notified>>

\* A redelivery only counts on the incident that the event is linked to.
Redeliver(w, e) ==
    /\ workers[w].pc = "idle" /\ e \in recorded /\ redeliveries < MaxRedeliveries
    /\ redeliveries' = redeliveries + 1
    /\ \/ links[e] = None /\ UNCHANGED workers
       \/ /\ links[e] # None
          /\ workers' = [workers EXCEPT ![w] =
                [Idle EXCEPT !.pc = "repeating", !.event = e, !.incident = links[e],
                             !.row = incidents[links[e]]]]
    /\ UNCHANGED <<stream, emitted, recorded, links, incidents, samples, cooling,
                   claimed, notified, commands, crashes>>

Later(e, f) == IF e < f THEN f ELSE e

\* Wrong: a redelivery is one occurrence more.
RepeatCounts(w) ==
    /\ workers[w].pc = "repeating"
    /\ LET row == workers[w].row IN
       Update(w, [row EXCEPT !.last = Later(@, workers[w].event), !.count = @ + 1], "idle")
    /\ UNCHANGED <<env, recorded, links, samples, cooling, claimed, notified>>

\* _update_occurrence of a redelivery: an event that was refused as older than the
\* resolution may still be the last that the incident has seen.
Repeat(w) ==
    /\ workers[w].pc = "repeating"
    /\ Update(w, [workers[w].row EXCEPT !.last = Later(@, workers[w].event)], "idle")
    /\ UNCHANGED <<env, recorded, links, samples, cooling, claimed, notified>>

\* Out of order, or from before the resolution.
Refused(row, e) == e <= row.last \/ (row.status = "RESOLVED" /\ e <= row.resolvedAt)

\* Outside the correlation window, or after the resolution.
NewOccurrence(row, e) ==
    \/ stream[e].time > stream[row.last].time + Window
    \/ row.status = "RESOLVED" /\ e > row.resolvedAt

\* The incident is looked up, and what becomes of the event follows from it.
Correlate(w) ==
    /\ workers[w].pc = "correlating"
    /\ LET e == workers[w].event IN
       \/ /\ \A i \in Incidents : ~Exists(i)
          /\ Goto(w, "creating")
       \/ \E i \in Incidents : SeenLast(i) /\
            LET row == incidents[i] IN
            \/ Refused(row, e) /\ GotoWith(w, "refusing", i, row)
            \/ ~Refused(row, e) /\ NewOccurrence(row, e) /\ Goto(w, "opening")
            \/ ~Refused(row, e) /\ ~NewOccurrence(row, e) /\ GotoWith(w, "updating", i, row)
    /\ UNCHANGED <<env, recorded, links, incidents, samples, cooling, claimed, notified>>

FirstRow(e) == [NoIncident EXCEPT !.last = e, !.count = 1, !.version = 1]

\* create_incident, under the key or under the key and the event; only the
\* first can lose to another worker.
Create(w) ==
    /\ workers[w].pc \in {"creating", "opening"}
    /\ LET e == workers[w].event
           i == IF workers[w].pc = "creating" THEN 0 ELSE e IN
       \/ /\ ~Exists(i)
          /\ incidents' = [incidents EXCEPT ![i] = FirstRow(e)]
          /\ GotoWith(w, "binding", i, FirstRow(e))
       \/ /\ Exists(i)
          /\ Goto(w, "rereading")
          /\ UNCHANGED incidents
    /\ UNCHANGED <<env, recorded, links, samples, cooling, claimed, notified>>

\* The loser takes the winner's incident as it now is.
Reread(w) ==
    /\ workers[w].pc = "rereading"
    /\ \E i \in Incidents : SeenLast(i) /\ GotoWith(w, "updating", i, incidents[i])
    /\ UNCHANGED <<env, recorded, links, incidents, samples, cooling, claimed,
                   notified>>

\* _update_occurrence of a new event.
UpdateOccurrence(w) ==
    /\ workers[w].pc = "updating"
    /\ LET row == workers[w].row IN
       Update(w, [row EXCEPT !.last = Later(@, workers[w].event), !.count = @ + 1], "binding")
    /\ UNCHANGED <<env, recorded, links, samples, cooling, claimed, notified>>

\* bind_event_to_incident
Bind(w) ==
    /\ workers[w].pc \in {"refusing", "binding"}
    /\ links' = [links EXCEPT ![workers[w].event] = workers[w].incident]
    /\ \/ workers[w].pc = "refusing" /\ Return(w)
       \/ /\ workers[w].pc = "binding"
          /\ Goto(w, IF Kind(workers[w].event) = "recovered" THEN "resolving" ELSE "sampling")
    /\ UNCHANGED <<env, recorded, incidents, samples, cooling, claimed, notified>>

-----------------------------------------------------------------------------
\* process_event, from the reading to the notification.

\* record_metric_sample
Sample(w) ==
    /\ workers[w].pc = "sampling"
    /\ samples' = [samples EXCEPT ![workers[w].incident] = @ \cup {workers[w].event}]
    /\ Goto(w, "judging")
    /\ UNCHANGED <<env, recorded, links, incidents, cooling, claimed, notified>>

Escalates(row, e) == row.severity # 0 /\ Severity(e) < row.severity

\* evaluate_metric_trigger of a good reading, by the row the worker holds.
Activates(i, row, e) ==
    \/ Escalates(row, e)
    \/ row.status = "ACTIVE" /\ Kind(e) \notin Healthy
    \/ /\ row.status \notin {"ACTIVE", "ACKNOWLEDGED"} /\ Kind(e) \in Breaching
       /\ Spans(i, Breaching, Sustain)

Recovers(i, row, e) ==
    /\ row.status \in {"ACTIVE", "ACKNOWLEDGED"} /\ Kind(e) \in Healthy
    /\ Spans(i, Healthy, Recovery)

Suspects(row, e) ==
    row.status \notin {"ACTIVE", "ACKNOWLEDGED", "PENDING"} /\ Kind(e) \in Breaching

\* A reading that is missing or too old decides nothing.
Judge(w) ==
    /\ workers[w].pc = "judging"
    /\ LET e == workers[w].event
           i == workers[w].incident
           row == workers[w].row IN
       \/ Return(w)
       \/ /\ Kind(e) # "missing"
          /\ CASE Activates(i, row, e) ->
                     /\ Severity(e) <= MinSeverity /\ Goto(w, "claiming")
               [] Recovers(i, row, e) -> Goto(w, "resolving")
               [] OTHER -> Suspects(row, e) /\ Goto(w, "suspecting")
    /\ UNCHANGED <<env, recorded, links, incidents, samples, cooling, claimed,
                   notified>>

Suspect(w) ==
    /\ workers[w].pc = "suspecting"
    /\ Update(w, [workers[w].row EXCEPT !.status = "PENDING"], "idle")
    /\ UNCHANGED <<env, recorded, links, samples, cooling, claimed, notified>>

\* Only a higher severity passes the claim of another event, and only it or a
\* P1 passes the cooldown.
Passes(row, e) == Escalates(row, e) \/ ~claimed
\* Wrong: the same severity interrupts again.
InterruptsAgain(i, row, e) ==
    Severity(e) <= row.severity \/ row.severity = 0 \/ i \notin cooling

Interrupts(i, row, e) ==
    Escalates(row, e) \/ row.severity = 0 \/ i \notin cooling \/ Severity(e) = 1

Claim(w) ==
    /\ workers[w].pc = "claiming"
    /\ LET e == workers[w].event
           row == workers[w].row IN
       IF Passes(row, e) /\ Interrupts(workers[w].incident, row, e)
       THEN Goto(w, "activating") ELSE Return(w)
    /\ claimed' = TRUE
    /\ UNCHANGED <<env, recorded, links, incidents, samples, cooling, notified>>

Activate(w) ==
    /\ workers[w].pc = "activating"
    /\ cooling' = IF Fresh(workers[w].incident, workers[w].row)
                  THEN cooling \cup {workers[w].incident} ELSE cooling
    /\ Update(w, [workers[w].row EXCEPT !.status = "ACTIVE",
                     !.severity = Severity(workers[w].event)], "saving")
    /\ UNCHANGED <<env, recorded, links, samples, claimed, notified>>

\* save_notification: one for each incident and severity.
Save(w) ==
    /\ workers[w].pc = "saving"
    /\ notified' = notified \cup {<<workers[w].incident, Severity(workers[w].event)>>}
    /\ Return(w)
    /\ UNCHANGED <<env, recorded, links, incidents, samples, cooling, claimed>>

\* resolve_incident reads the incident again.
ReadResolved(w) ==
    /\ workers[w].pc = "resolving"
    /\ GotoWith(w, "closing", workers[w].incident, incidents[workers[w].incident])
    /\ UNCHANGED <<env, recorded, links, incidents, samples, cooling, claimed,
                   notified>>

Resolved(row, now) == [row EXCEPT !.status = "RESOLVED", !.resolvedAt = now]

Close(w) ==
    /\ workers[w].pc = "closing"
    /\ Update(w, Resolved(workers[w].row, workers[w].now), "idle")
    /\ UNCHANGED <<env, recorded, links, samples, cooling, claimed, notified>>

-----------------------------------------------------------------------------
\* An operator calls resolve_incident or acknowledge_incident; one that meets a
\* conflict changes nothing.
Command(i, row) ==
    /\ Exists(i) /\ commands < MaxCommands
    /\ incidents' = [incidents EXCEPT ![i] = Newer(row)]
    /\ commands' = commands + 1
    /\ UNCHANGED <<stream, emitted, recorded, links, samples, cooling, claimed,
                   notified, workers, redeliveries, crashes>>

Resolve(i) == Command(i, Resolved(incidents[i], emitted))

Acknowledge(i) == Command(i, [incidents[i] EXCEPT !.status = "ACKNOWLEDGED"])

Step(w) ==
    \/ Repeat(w) \/ Correlate(w) \/ Create(w) \/ Reread(w) \/ UpdateOccurrence(w)
    \/ Bind(w) \/ Sample(w) \/ Judge(w) \/ Suspect(w) \/ Claim(w) \/ Activate(w)
    \/ Save(w) \/ ReadResolved(w) \/ Close(w) \/ Crash(w)

Next ==
    \/ Emit \/ ClaimExpires
    \/ \E w \in Workers : Step(w)
    \/ \E w \in Workers, e \in Events : Record(w, e) \/ Redeliver(w, e)
    \/ \E i \in Incidents : CooldownEnds(i) \/ Resolve(i) \/ Acknowledge(i)

Spec == Init /\ [][Next]_vars
=============================================================================
