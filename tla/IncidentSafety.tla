--------------------------- MODULE IncidentSafety ---------------------------
(* What event intake promises of the incidents of one correlation key. *)
EXTENDS IncidentEngine

\* Redelivery is not an occurrence (EVENT_DEDUPLICATION.md): every occurrence
\* that an incident has counted can be credited to a source event of its own,
\* whichever workers raced for it.
OccurrencesAreSourceEvents ==
    \E credit \in [recorded -> Incidents \cup {None}] :
        \A i \in Incidents :
            incidents[i].count <= Cardinality({e \in recorded : credit[e] = i})

\* The tables agree: an event is linked to an incident that exists, and each
\* reading an incident is judged by is linked to it and one of the occurrences
\* it has counted.
ReadingsAreLinkedOccurrences ==
    /\ \A e \in Events : links[e] # None => e \in recorded /\ Exists(links[e])
    /\ \A i \in Incidents :
          /\ \A e \in samples[i] : links[e] = i /\ e <= incidents[i].last
          /\ Cardinality(samples[i]) <= incidents[i].count

\* Events, links, readings and incidents tell one story (record_event,
\* link_event, record_metric_sample, update_incident).
EventTablesAgree == OccurrencesAreSourceEvents /\ ReadingsAreLinkedOccurrences

\* A single spike never activates: an incident that was ever active holds two
\* breaching readings of its own, the sustain duration apart.
SpikeAloneNeverNotifies ==
    \A i \in Incidents : incidents[i].severity # 0 =>
        \E e, f \in samples[i] :
            /\ {Kind(e), Kind(f)} \subseteq Breaching
            /\ stream[f].time - stream[e].time >= Sustain

\* No worker writes over what another has learned in the meantime: what an
\* incident has seen and counted only grows.
NothingGoesBack ==
    [][\A i \in Incidents :
          /\ incidents[i].last <= incidents'[i].last
          /\ incidents[i].count <= incidents'[i].count
          /\ incidents[i].version <= incidents'[i].version
          /\ incidents[i].severity # 0 => incidents'[i].severity # 0]_vars

Activated(i) ==
    \E w \in Workers : workers[w].incident = i /\ workers[w].pc = "activating"
                       /\ workers'[w].pc = "saving"

\* During its cooldown an incident interrupts again only for a P1 or for more
\* than it was notified for, two workers that judged it at once included.
QuietWhileCooling ==
    [][\A i \in cooling : Activated(i) =>
          incidents'[i].severity = 1 \/ incidents'[i].severity < incidents[i].severity]_vars

Reopened(i) ==
    incidents[i].status = "RESOLVED" /\ incidents'[i].status # "RESOLVED"

\* A resolution is not lost: whoever takes an incident out of RESOLVED, an
\* operator or a worker, has read that it is.
NoUnseenReopen ==
    [][\A i \in Incidents : Reopened(i) =>
          \/ UNCHANGED workers
          \/ \E w \in Workers : workers[w].incident = i /\ workers'[w] # workers[w]
                                /\ workers[w].row = incidents[i]]_vars

\* No event reopens a resolved incident; only an operator's acknowledgment does
\* (EVENT_DEDUPLICATION.md:59).
EventsDoNotReopen == [][\A i \in Incidents : Reopened(i) => UNCHANGED workers]_vars
=============================================================================
