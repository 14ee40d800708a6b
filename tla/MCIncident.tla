----------------------------- MODULE MCIncident -----------------------------
(* Small instances of IncidentEngine for TLC. *)
EXTENDS IncidentSafety, TLC

CONSTANTS w1, w2

\* The events of a stream, one tick apart; after a pause, four.
At(kinds) == [e \in DOMAIN kinds |-> [kind |-> kinds[e], time |-> e]]
Paused(kinds) == [e \in DOMAIN kinds |-> [kind |-> kinds[e], time |-> IF e = 1 THEN 1 ELSE e + 3]]

TwoBreaches == {At(<<"breach", "breach">>)}

MCStreams == TwoBreaches \cup {
    At(<<"breach", "breach", "p1">>),
    At(<<"breach", "breach", "breach">>),
    At(<<"p1", "p1", "healthy">>),
    At(<<"p1", "healthy", "healthy">>),
    Paused(<<"breach", "breach", "recovered">>) }

\* One redelivery, command or crash disturbs a stream of three events, two one of two:
\* a redelivered event may have been refused as older than a command's resolution.
FewFaults == redeliveries + commands + crashes <= 4 - Len(stream)

WorkerSymmetry == Permutations(Workers)
=============================================================================
