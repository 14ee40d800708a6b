------------------------ MODULE IncidentSafety_proofs ------------------------
(***************************************************************************)
(* Theorems about IncidentSafety for any workers, streams, durations and   *)
(* bounds.  The argument is that of compare and set: a row that a worker   *)
(* holds is older than the stored one or equal to it, so a write that      *)
(* succeeds is made of what is stored; and what is true of a row's         *)
(* incident, its readings and its cooldown stays true until the write.     *)
(***************************************************************************)
EXTENDS IncidentSafety, SequenceTheorems, FiniteSetTheorems, TLAPS

\* The steps at which a call has an event, and at which it has a row.
Working == {"correlating", "creating", "rereading", "opening", "updating", "refusing",
            "binding", "sampling", "judging", "suspecting", "claiming", "activating",
            "saving", "resolving", "closing"}
HoldsRow == {"updating", "refusing", "binding", "sampling", "judging", "suspecting",
             "claiming", "activating", "saving", "resolving", "closing", "repeating"}
Sampled == {"judging", "suspecting", "claiming", "activating", "saving"}

\* Two breaching readings of the incident, the sustain duration apart.
Sustained(i) ==
    \E e, f \in samples[i] :
        /\ {Kind(e), Kind(f)} \subseteq Breaching
        /\ stream[f].time - stream[e].time >= Sustain

Sound(i, row) ==
    /\ row.status = "ACTIVE" => row.severity # 0
    /\ row.severity # 0 => Sustained(i)

\* A held row is older than the stored one, or is the stored one.
RowOK(i, row) ==
    /\ row.version <= incidents[i].version
    /\ Fresh(i, row) => row = incidents[i]
    /\ Sound(i, row)

\* A call works on a recorded event and has inserted its reading before it
\* judges; when it is about to activate it has seen a sustained breach, and may
\* still interrupt unless another has activated since.
CallOK(c) ==
    /\ c.pc \in Working => c.event \in recorded
    /\ c.pc \in Sampled => c.event \in samples[c.incident]
    /\ c.pc \in HoldsRow => RowOK(c.incident, c.row)
    /\ c.pc \in {"claiming", "activating"} => Sustained(c.incident)
    /\ c.pc = "activating" /\ Fresh(c.incident, c.row) /\ c.incident \in cooling =>
          Severity(c.event) = 1 \/ Severity(c.event) < c.row.severity

IncidentOK(i) ==
    /\ ~Exists(i) => incidents[i] = NoIncident
    /\ Sound(i, incidents[i])
    /\ i \in cooling => incidents[i].severity # 0
    /\ samples[i] \subseteq recorded

CallsAgree == \A w \in Workers : CallOK(workers[w])
StoreAgrees == \A i \in Incidents : IncidentOK(i)

IInv == IntakeTypeOK /\ CallsAgree /\ StoreAgrees

-----------------------------------------------------------------------------
\* Types.

LEMMA EventsAreNat == Events \subseteq Nat /\ 0 \notin Events /\ Incidents \subseteq Nat
<1>1. \A s \in Streams : DOMAIN s = 1..Len(s) /\ Len(s) \in Nat
    BY IncidentAssumption
<1>2. \A e \in Events : e \in Nat /\ e # 0
    BY <1>1 DEF Events
<1> QED BY <1>2 DEF Incidents

LEMMA RecordedAreEvents ==
    ASSUME IntakeTypeOK
    PROVE  /\ recorded \subseteq Events /\ recorded \subseteq DOMAIN stream
           /\ emitted \in Incidents /\ 1..emitted \subseteq Events
           /\ \A e \in recorded : stream[e].time \in Nat
<1>1. stream \in Streams /\ stream \in Seq([kind : Kinds, time : Nat])
    BY IncidentAssumption DEF IntakeTypeOK
<1>2. DOMAIN stream = 1..Len(stream) /\ Len(stream) \in Nat
    BY <1>1
<1>3. emitted \in 0..Len(stream) /\ recorded \subseteq 1..emitted
    BY DEF IntakeTypeOK
<1>4. DOMAIN stream \subseteq Events
    BY <1>1 DEF Events
<1>5. 1..emitted \subseteq DOMAIN stream
    BY <1>2, <1>3
<1>6. emitted \in Incidents
    BY <1>2, <1>3, <1>4 DEF Incidents
<1>7. \A e \in DOMAIN stream : stream[e] \in [kind : Kinds, time : Nat]
    BY <1>1, <1>2, ElementOfSeq, Zenon
<1>8. \A e \in DOMAIN stream : stream[e].time \in Nat
    BY <1>7
<1> QED BY <1>3, <1>4, <1>5, <1>6, <1>8

LEMMA SeverityType == \A e : Severity(e) \in 1..4
    BY DEF Severity

LEMMA IdleType == Idle \in Call /\ NoIncident \in Aggregate
    BY DEF Idle, Call, NoIncident, Aggregate, Incidents, None

\* A call that moves on stays a call.
LEMMA GotoType ==
    ASSUME workers \in [Workers -> Call], NEW w \in Workers, NEW pc \in Working \cup HoldsRow
    PROVE  /\ Goto(w, pc) => workers' \in [Workers -> Call]
           /\ \A i \in Incidents, row \in Aggregate :
                 GotoWith(w, pc, i, row) => workers' \in [Workers -> Call]
<1>1. workers[w] \in Call
    OBVIOUS
<1>2. [workers[w] EXCEPT !.pc = pc] \in Call
    BY <1>1 DEF Call, Working, HoldsRow
<1>3. \A i \in Incidents, row \in Aggregate :
         [workers[w] EXCEPT !.pc = pc, !.incident = i, !.row = row] \in Call
    BY <1>1 DEF Call, Working, HoldsRow
<1>4. Goto(w, pc) => workers' = [workers EXCEPT ![w] = [workers[w] EXCEPT !.pc = pc]]
    BY DEF Goto
<1>5. ASSUME NEW i \in Incidents, NEW row \in Aggregate, GotoWith(w, pc, i, row)
      PROVE  workers' = [workers EXCEPT ![w] =
                           [workers[w] EXCEPT !.pc = pc, !.incident = i, !.row = row]]
    BY <1>5 DEF GotoWith
<1>6. ASSUME NEW i \in Incidents, NEW row \in Aggregate, GotoWith(w, pc, i, row)
      PROVE  workers' \in [Workers -> Call]
  <2> DEFINE c == [workers[w] EXCEPT !.pc = pc, !.incident = i, !.row = row]
  <2>1. c \in Call
      BY <1>3
  <2>2. workers' = [workers EXCEPT ![w] = c]
      BY <1>5, <1>6
  <2> HIDE DEF c
  <2> QED BY <2>1, <2>2
<1>7. ASSUME Goto(w, pc)
      PROVE  workers' \in [Workers -> Call]
    BY <1>2, <1>4, <1>7
<1> QED BY <1>6, <1>7, Zenon

LEMMA ReturnType ==
    ASSUME workers \in [Workers -> Call], NEW w \in Workers, Return(w)
    PROVE  workers' \in [Workers -> Call]
    BY IdleType DEF Return

\* What the moves leave in the worker.
LEMMA GotoFacts ==
    ASSUME workers \in [Workers -> Call], NEW w \in Workers, NEW pc
    PROVE  /\ Goto(w, pc) =>
                /\ workers'[w].pc = pc /\ workers'[w].event = workers[w].event
                /\ workers'[w].incident = workers[w].incident
                /\ workers'[w].row = workers[w].row
                /\ \A v \in Workers \ {w} : workers'[v] = workers[v]
           /\ \A i, row : GotoWith(w, pc, i, row) =>
                /\ workers'[w].pc = pc /\ workers'[w].event = workers[w].event
                /\ workers'[w].incident = i /\ workers'[w].row = row
                /\ \A v \in Workers \ {w} : workers'[v] = workers[v]
           /\ Return(w) =>
                /\ workers'[w] = Idle
                /\ \A v \in Workers \ {w} : workers'[v] = workers[v]
<1>1. workers[w] \in Call
    OBVIOUS
<1>2. /\ [workers[w] EXCEPT !.pc = pc].pc = pc
      /\ [workers[w] EXCEPT !.pc = pc].event = workers[w].event
      /\ [workers[w] EXCEPT !.pc = pc].incident = workers[w].incident
      /\ [workers[w] EXCEPT !.pc = pc].row = workers[w].row
    BY <1>1 DEF Call
<1>3. ASSUME NEW i, NEW row
      PROVE  LET c == [workers[w] EXCEPT !.pc = pc, !.incident = i, !.row = row] IN
             c.pc = pc /\ c.event = workers[w].event /\ c.incident = i /\ c.row = row
    BY <1>1 DEF Call
<1>4. ASSUME Goto(w, pc)
      PROVE  /\ workers'[w] = [workers[w] EXCEPT !.pc = pc]
             /\ \A v \in Workers \ {w} : workers'[v] = workers[v]
    BY <1>4 DEF Goto
<1>5. ASSUME NEW i, NEW row, GotoWith(w, pc, i, row)
      PROVE  /\ workers'[w] = [workers[w] EXCEPT !.pc = pc, !.incident = i, !.row = row]
             /\ \A v \in Workers \ {w} : workers'[v] = workers[v]
    BY <1>5 DEF GotoWith
<1>6. ASSUME NEW i, NEW row, GotoWith(w, pc, i, row)
      PROVE  /\ workers'[w].pc = pc /\ workers'[w].event = workers[w].event
             /\ workers'[w].incident = i /\ workers'[w].row = row
             /\ \A v \in Workers \ {w} : workers'[v] = workers[v]
  <2> DEFINE c == [workers[w] EXCEPT !.pc = pc, !.incident = i, !.row = row]
  <2>1. c.pc = pc /\ c.event = workers[w].event /\ c.incident = i /\ c.row = row
      BY <1>3
  <2>2. workers'[w] = c /\ \A v \in Workers \ {w} : workers'[v] = workers[v]
      BY <1>5, <1>6
  <2> HIDE DEF c
  <2> QED BY <2>1, <2>2
<1>7. ASSUME Goto(w, pc)
      PROVE  /\ workers'[w].pc = pc /\ workers'[w].event = workers[w].event
             /\ workers'[w].incident = workers[w].incident
             /\ workers'[w].row = workers[w].row
             /\ \A v \in Workers \ {w} : workers'[v] = workers[v]
    BY <1>2, <1>4, <1>7
<1>8. ASSUME Return(w)
      PROVE  workers'[w] = Idle /\ \A v \in Workers \ {w} : workers'[v] = workers[v]
    BY <1>8 DEF Return
<1> QED BY <1>6, <1>7, <1>8, Zenon

LEMMA GotoWithFacts ==
    ASSUME IntakeTypeOK, NEW w \in Workers, NEW pc, NEW i, NEW row, GotoWith(w, pc, i, row)
    PROVE  /\ workers'[w].pc = pc /\ workers'[w].event = workers[w].event
           /\ workers'[w].incident = i /\ workers'[w].row = row
           /\ \A v \in Workers \ {w} : workers'[v] = workers[v]
    BY GotoFacts DEF IntakeTypeOK

LEMMA NewerFacts ==
    ASSUME NEW row \in Aggregate
    PROVE  /\ Newer(row) \in Aggregate /\ Newer(row).version = row.version + 1
           /\ Newer(row).status = row.status /\ Newer(row).last = row.last
           /\ Newer(row).count = row.count /\ Newer(row).severity = row.severity
           /\ row.version \in Nat /\ row.count \in Nat /\ row.severity \in 0..4
           /\ row.last \in Incidents
    BY DEF Newer, Aggregate

\* The rows that the steps write.
LEMMA FirstRowFacts ==
    ASSUME NEW e \in Incidents
    PROVE  /\ FirstRow(e) \in Aggregate /\ FirstRow(e).version = 1
           /\ FirstRow(e).status = "NORMAL" /\ FirstRow(e).severity = 0
<1>1. NoIncident \in Aggregate /\ NoIncident.status = "NORMAL" /\ NoIncident.severity = 0
    BY IdleType DEF NoIncident
<1> QED BY <1>1 DEF FirstRow, Aggregate

LEMMA OccurrenceFacts ==
    ASSUME NEW row \in Aggregate, NEW e \in Incidents
    PROVE  LET r == [row EXCEPT !.last = Later(@, e), !.count = @ + 1] IN
           /\ r \in Aggregate /\ r.version = row.version /\ r.status = row.status
           /\ r.severity = row.severity /\ r.count = row.count + 1 /\ row.last <= r.last
<1> DEFINE last == Later(row.last, e)
           count == row.count + 1
           r == [row EXCEPT !.last = last, !.count = count]
<1>1. row.last \in Incidents /\ row.count \in Nat
    BY DEF Aggregate
<1> HIDE DEF count
<1>2. last \in Incidents /\ row.last <= last
  <2>1. row.last \in Nat /\ e \in Nat
      BY <1>1, EventsAreNat
  <2> QED BY <1>1, <2>1 DEF Later
<1>5. count \in Nat
    BY <1>1 DEF count
<1> HIDE DEF last
<1>3. /\ r \in Aggregate /\ r.version = row.version /\ r.status = row.status
      /\ r.severity = row.severity /\ r.count = count /\ r.last = last
    BY <1>2, <1>5 DEF Aggregate
<1>4. r = [row EXCEPT !.last = Later(@, e), !.count = @ + 1]
    BY <1>1 DEF last, count, Aggregate
<1> HIDE DEF r
<1> QED BY <1>2, <1>3, <1>4 DEF count

\* A redelivery is no occurrence, but may be the last event seen.
LEMMA RepeatFacts ==
    ASSUME NEW row \in Aggregate, NEW e \in Incidents
    PROVE  LET r == [row EXCEPT !.last = Later(@, e)] IN
           /\ r \in Aggregate /\ r.version = row.version /\ r.status = row.status
           /\ r.severity = row.severity /\ r.count = row.count /\ row.last <= r.last
<1> DEFINE last == Later(row.last, e)
           r == [row EXCEPT !.last = last]
<1>1. row.last \in Incidents
    BY DEF Aggregate
<1>2. last \in Incidents /\ row.last <= last
  <2>1. row.last \in Nat /\ e \in Nat
      BY <1>1, EventsAreNat
  <2> QED BY <1>1, <2>1 DEF Later
<1>3. r = [row EXCEPT !.last = Later(@, e)]
    OBVIOUS
<1> HIDE DEF last
<1>4. /\ r \in Aggregate /\ r.version = row.version /\ r.status = row.status
      /\ r.severity = row.severity /\ r.count = row.count /\ r.last = last
    BY <1>2 DEF Aggregate
<1> HIDE DEF r
<1> QED BY <1>2, <1>3, <1>4

\* What a redelivery writes, and over which row.
LEMMA RepeatWrites ==
    ASSUME IntakeTypeOK, NEW w \in Workers, Repeat(w)
    PROVE  \E r \in Aggregate :
              /\ Update(w, r, "idle") /\ workers[w].pc \in HoldsRow
              /\ r.version = workers[w].row.version /\ r.status = workers[w].row.status
              /\ r.severity = workers[w].row.severity /\ r.count = workers[w].row.count
              /\ workers[w].row.last <= r.last
<1>1. workers[w].row \in Aggregate /\ workers[w].event \in Incidents
    BY DEF IntakeTypeOK, Call
<1>2. PICK r \in Aggregate :
         /\ r = [workers[w].row EXCEPT !.last = Later(@, workers[w].event)]
         /\ r.version = workers[w].row.version /\ r.status = workers[w].row.status
         /\ r.severity = workers[w].row.severity /\ r.count = workers[w].row.count
         /\ workers[w].row.last <= r.last
    BY <1>1, RepeatFacts
<1>3. Update(w, r, "idle") /\ workers[w].pc \in HoldsRow
    BY <1>2 DEF Repeat, HoldsRow
<1> QED BY <1>2, <1>3

LEMMA StatusFacts ==
    ASSUME NEW row \in Aggregate, NEW status \in {"PENDING", "ACKNOWLEDGED"}
    PROVE  LET r == [row EXCEPT !.status = status] IN
           /\ r \in Aggregate /\ r.version = row.version /\ r.status = status
           /\ r.severity = row.severity /\ r.count = row.count /\ r.last = row.last
    BY DEF Aggregate

LEMMA ResolvedFacts ==
    ASSUME NEW row \in Aggregate, NEW now \in Incidents
    PROVE  LET r == Resolved(row, now) IN
           /\ r \in Aggregate /\ r.version = row.version /\ r.status = "RESOLVED"
           /\ r.severity = row.severity /\ r.count = row.count /\ r.last = row.last
    BY DEF Aggregate, Resolved

LEMMA ActiveFacts ==
    ASSUME NEW row \in Aggregate, NEW severity \in 1..4
    PROVE  LET r == [row EXCEPT !.status = "ACTIVE", !.severity = severity] IN
           /\ r \in Aggregate /\ r.version = row.version /\ r.status = "ACTIVE"
           /\ r.severity = severity /\ r.count = row.count /\ r.last = row.last
<1>1. severity \in 0..4
    OBVIOUS
<1> QED BY <1>1 DEF Aggregate

LEMMA UpdateType ==
    ASSUME IntakeTypeOK, NEW w \in Workers, NEW row \in Aggregate,
           NEW pc \in {"idle"} \cup Working \cup HoldsRow, Update(w, row, pc)
    PROVE  incidents' \in [Incidents -> Aggregate] /\ workers' \in [Workers -> Call]
<1>1. workers \in [Workers -> Call] /\ incidents \in [Incidents -> Aggregate]
      /\ workers[w].incident \in Incidents
    BY DEF IntakeTypeOK, Call
<1>2. CASE Fresh(workers[w].incident, workers[w].row)
  <2>1. incidents' = [incidents EXCEPT ![workers[w].incident] = Newer(row)]
      BY <1>2 DEF Update
  <2>2. incidents' \in [Incidents -> Aggregate]
      BY <1>1, <2>1, NewerFacts
  <2>3. CASE pc = "idle"
      BY <1>1, <1>2, <2>2, <2>3, ReturnType DEF Update
  <2>4. CASE pc # "idle"
    <3>1. GotoWith(w, pc, workers[w].incident, Newer(row)) /\ pc \in Working \cup HoldsRow
        BY <1>2, <2>4 DEF Update
    <3> QED BY <1>1, <2>2, <3>1, NewerFacts, GotoType
  <2> QED BY <2>3, <2>4
<1>3. CASE ~Fresh(workers[w].incident, workers[w].row)
    BY <1>1, <1>3, ReturnType DEF Update
<1> QED BY <1>2, <1>3

LEMMA InitType == Init => IntakeTypeOK
<1> SUFFICES ASSUME Init PROVE IntakeTypeOK
    OBVIOUS
<1>1. stream \in Seq([kind : Kinds, time : Nat])
    BY IncidentAssumption DEF Init
<1>2. Len(stream) \in Nat
    BY <1>1
<1>3. workers \in [Workers -> Call] /\ incidents \in [Incidents -> Aggregate]
    BY IdleType DEF Init
<1>4. stream \in Streams /\ emitted \in 0..Len(stream) /\ recorded \subseteq 1..emitted
    BY <1>2 DEF Init
<1>5. links \in [Events -> Incidents \cup {None}] /\ samples \in [Incidents -> SUBSET Events]
    BY DEF Init
<1>6. redeliveries \in 0..MaxRedeliveries /\ commands \in 0..MaxCommands
      /\ crashes \in 0..MaxCrashes
    BY IncidentAssumption DEF Init
<1>7. cooling \subseteq Incidents /\ claimed \in BOOLEAN /\ notified \subseteq Incidents \X (1..4)
    BY Zenon DEF Init
<1> QED BY <1>3, <1>4, <1>5, <1>6, <1>7 DEF IntakeTypeOK

LEMMA StepType ==
    ASSUME IntakeTypeOK, CallsAgree, NEW w \in Workers, Step(w)
    PROVE  IntakeTypeOK'
<1> DEFINE e == workers[w].event
           i == workers[w].incident
           row == workers[w].row
<1>1. /\ workers \in [Workers -> Call] /\ incidents \in [Incidents -> Aggregate]
      /\ e \in Incidents /\ i \in Incidents /\ row \in Aggregate
      /\ workers[w].now \in Incidents
    BY DEF IntakeTypeOK, Call
<1>2. workers[w].pc \in Working => e \in Events
    BY RecordedAreEvents DEF CallsAgree, CallOK
<1> HIDE DEF e, i, row
<1>3. CASE Repeat(w)
  <2>1. PICK r \in Aggregate : Update(w, r, "idle")
      BY <1>3, RepeatWrites
  <2> QED BY <1>1, <1>3, <2>1, UpdateType DEF Repeat, IntakeTypeOK, env
<1>4. CASE Correlate(w)
  <2>1. workers' \in [Workers -> Call]
      BY <1>1, <1>4, GotoType DEF Correlate, Working, HoldsRow
  <2> QED BY <1>4, <2>1 DEF Correlate, IntakeTypeOK, env
<1>5. CASE Create(w)
  <2>1. FirstRow(e) \in Aggregate
      BY <1>1, FirstRowFacts
  <2>2. \A j \in Incidents : [incidents EXCEPT ![j] = FirstRow(e)] \in [Incidents -> Aggregate]
      BY <1>1, <2>1
  <2>3. (IF workers[w].pc = "creating" THEN 0 ELSE e) \in Incidents
      BY <1>1 DEF Incidents
  <2>4. incidents' \in [Incidents -> Aggregate]
      BY <1>1, <1>5, <2>2, <2>3 DEF Create, e
  <2>5. workers' \in [Workers -> Call]
      BY <1>1, <1>5, <2>1, <2>3, GotoType DEF Create, Working, HoldsRow, e
  <2> QED BY <1>5, <2>4, <2>5 DEF Create, IntakeTypeOK, env
<1>6. CASE Reread(w)
  <2>1. workers' \in [Workers -> Call]
      BY <1>1, <1>6, GotoType DEF Reread, Working
  <2> QED BY <1>6, <2>1 DEF Reread, IntakeTypeOK, env
<1>7. CASE UpdateOccurrence(w)
  <2>1. [row EXCEPT !.last = Later(@, e), !.count = @ + 1] \in Aggregate
      BY <1>1, OccurrenceFacts
  <2> QED BY <1>7, <2>1, UpdateType DEF UpdateOccurrence, IntakeTypeOK, env, Working, e, row
<1>8. CASE Bind(w)
  <2>1. workers' \in [Workers -> Call]
      BY <1>1, <1>8, GotoType, ReturnType DEF Bind, Working
  <2> QED BY <1>1, <1>8, <2>1 DEF Bind, IntakeTypeOK, env, i
<1>9. CASE Sample(w)
  <2>1. workers' \in [Workers -> Call] /\ e \in Events
      BY <1>1, <1>2, <1>9, GotoType DEF Sample, Working
  <2> QED BY <1>1, <1>9, <2>1 DEF Sample, IntakeTypeOK, env, i, e
<1>10. CASE Judge(w)
  <2>1. workers' \in [Workers -> Call]
      BY <1>1, <1>10, GotoType, ReturnType DEF Judge, Working
  <2> QED BY <1>10, <2>1 DEF Judge, IntakeTypeOK, env
<1>11. CASE Suspect(w)
  <2>1. [row EXCEPT !.status = "PENDING"] \in Aggregate
      BY <1>1, StatusFacts
  <2> QED BY <1>11, <2>1, UpdateType DEF Suspect, IntakeTypeOK, env, row
<1>12. CASE Claim(w)
  <2>1. workers' \in [Workers -> Call]
      BY <1>1, <1>12, GotoType, ReturnType DEF Claim, Working
  <2> QED BY <1>12, <2>1 DEF Claim, IntakeTypeOK, env
<1>13. CASE Activate(w)
  <2>1. [row EXCEPT !.status = "ACTIVE", !.severity = Severity(e)] \in Aggregate
      BY <1>1, SeverityType, ActiveFacts
  <2>2. cooling' \subseteq Incidents
      BY <1>1, <1>13 DEF Activate, IntakeTypeOK, i
  <2> QED BY <1>13, <2>1, <2>2, UpdateType DEF Activate, IntakeTypeOK, env, Working, e, row
<1>14. CASE Save(w)
  <2>1. workers' \in [Workers -> Call]
      BY <1>1, <1>14, ReturnType DEF Save
  <2> QED BY <1>1, <1>14, <2>1, SeverityType DEF Save, IntakeTypeOK, env, e, i
<1>15. CASE ReadResolved(w)
  <2>1. workers' \in [Workers -> Call]
      BY <1>1, <1>15, GotoType DEF ReadResolved, Working, i
  <2> QED BY <1>15, <2>1 DEF ReadResolved, IntakeTypeOK, env
<1>16. CASE Close(w)
  <2>1. Resolved(row, workers[w].now) \in Aggregate
      BY <1>1, ResolvedFacts
  <2> QED BY <1>16, <2>1, UpdateType DEF Close, IntakeTypeOK, env, row
<1>17. CASE Crash(w)
    BY <1>1, <1>17, ReturnType, IncidentAssumption DEF Crash, IntakeTypeOK
<1> QED BY <1>3, <1>4, <1>5, <1>6, <1>7, <1>8, <1>9, <1>10, <1>11, <1>12, <1>13, <1>14,
           <1>15, <1>16, <1>17 DEF Step

-----------------------------------------------------------------------------
\* What a step does to what a call relies on: the store only learns, and a row
\* changes with its version.

Learns ==
    /\ UNCHANGED stream /\ recorded \subseteq recorded'
    /\ \A i \in Incidents : samples[i] \subseteq samples'[i] /\ samples'[i] \subseteq recorded'

Kept(i) == incidents'[i] = incidents[i] /\ (i \in cooling' => i \in cooling)
Renewed(i) == incidents[i].version < incidents'[i].version

LEMMA SustainedStays ==
    ASSUME Learns, NEW i \in Incidents, Sustained(i)
    PROVE  Sustained(i)'
<1>1. PICK e, f \in samples[i] :
          /\ {Kind(e), Kind(f)} \subseteq Breaching
          /\ stream[f].time - stream[e].time >= Sustain
    BY DEF Sustained
<1>2. e \in samples'[i] /\ f \in samples'[i] /\ stream' = stream
    BY DEF Learns
<1> QED BY <1>1, <1>2 DEF Sustained, Kind

\* A call that another worker is in can rely on what it could before.
LEMMA OthersKeep ==
    ASSUME IntakeTypeOK, Learns, \A i \in Incidents : Kept(i) \/ Renewed(i),
           incidents' \in [Incidents -> Aggregate],
           NEW v \in Workers, CallOK(workers[v]), workers'[v] = workers[v]
    PROVE  CallOK(workers[v])'
<1> DEFINE c == workers[v]
           i == c.incident
<1>1. c \in Call /\ i \in Incidents /\ c.row.version \in Nat
      /\ incidents[i].version \in Nat /\ incidents'[i].version \in Nat
    BY DEF IntakeTypeOK, Call, Aggregate
<1>2. c' = c
    OBVIOUS
<1>3. /\ c.pc \in Working => c.event \in recorded'
      /\ c.pc \in Sampled => c.event \in samples'[i]
    BY <1>1 DEF CallOK, Learns
<1>4. c.pc \in {"claiming", "activating"} => Sustained(i)'
    BY <1>1, SustainedStays DEF CallOK
<1>5. ASSUME c.pc \in HoldsRow
      PROVE  /\ c.row.version <= incidents'[i].version
             /\ incidents'[i].version = c.row.version =>
                   c.row = incidents'[i] /\ Kept(i) /\ Fresh(i, c.row)
             /\ c.row.status = "ACTIVE" => c.row.severity # 0
             /\ c.row.severity # 0 => Sustained(i)'
  <2>1. RowOK(i, c.row)
      BY <1>5 DEF CallOK
  <2>2. CASE Renewed(i)
      BY <1>1, <2>1, <2>2, SustainedStays DEF Renewed, RowOK, Sound
  <2>3. CASE Kept(i)
      BY <1>1, <2>1, <2>3, SustainedStays DEF Kept, RowOK, Sound, Fresh
  <2> QED BY <1>1, <2>2, <2>3
<1>6. ASSUME c.pc = "activating", incidents'[i].version = c.row.version, i \in cooling'
      PROVE  Severity(c.event)' = 1 \/ Severity(c.event)' < c.row.severity
  <2>1. Kept(i) /\ Fresh(i, c.row)
      BY <1>5, <1>6 DEF HoldsRow
  <2>2. Severity(c.event) = 1 \/ Severity(c.event) < c.row.severity
      BY <1>6, <2>1 DEF Kept, CallOK
  <2>3. Severity(c.event)' = Severity(c.event)
      BY <1>2 DEF Severity, Kind, Learns
  <2> QED BY <2>2, <2>3
<1> QED BY <1>2, <1>3, <1>4, <1>5, <1>6 DEF CallOK, RowOK, Sound, Fresh

\* An incident that a step does not write.
LEMMA IncidentKeeps ==
    ASSUME Learns, NEW i \in Incidents, IncidentOK(i), Kept(i)
    PROVE  IncidentOK(i)'
<1>1. /\ incidents'[i].status = "ACTIVE" => incidents'[i].severity # 0
      /\ incidents'[i].severity # 0 => Sustained(i)'
    BY SustainedStays DEF IncidentOK, Sound, Kept
<1> QED BY <1>1 DEF IncidentOK, Sound, Kept, Exists, Learns

\* A call that takes a row as it is stored.
LEMMA StoredRowOK ==
    ASSUME IntakeTypeOK, NEW i \in Incidents, IncidentOK(i)
    PROVE  RowOK(i, incidents[i])
<1>1. incidents[i].version \in Nat
    BY DEF IntakeTypeOK, Aggregate
<1> QED BY <1>1 DEF RowOK, IncidentOK

LEMMA IdleCallOK ==
    ASSUME NEW w \in Workers, workers'[w] = Idle
    PROVE  CallOK(workers[w])'
    BY DEF CallOK, Idle, Working, Sampled, HoldsRow

\* A write either loses, and ends its call, or is made of the stored row.
LEMMA UpdateFacts ==
    ASSUME IntakeTypeOK, NEW w \in Workers, CallOK(workers[w]), workers[w].pc \in HoldsRow,
           NEW row \in Aggregate, row.version = workers[w].row.version,
           NEW pc, Update(w, row, pc)
    PROVE  /\ \A v \in Workers \ {w} : workers'[v] = workers[v]
           /\ \A i \in Incidents \ {workers[w].incident} : incidents'[i] = incidents[i]
           /\ \/ /\ incidents' = incidents /\ workers'[w] = Idle
                 /\ ~Fresh(workers[w].incident, workers[w].row)
              \/ /\ Fresh(workers[w].incident, workers[w].row)
                 /\ workers[w].row = incidents[workers[w].incident]
                 /\ incidents'[workers[w].incident] = Newer(row)
                 /\ Renewed(workers[w].incident)
                 /\ \/ pc = "idle" /\ workers'[w] = Idle
                    \/ /\ pc # "idle" /\ workers'[w].pc = pc
                       /\ workers'[w].event = workers[w].event
                       /\ workers'[w].incident = workers[w].incident
                       /\ workers'[w].row = Newer(row)
<1> DEFINE i == workers[w].incident
           held == workers[w].row
<1>1. /\ workers \in [Workers -> Call] /\ incidents \in [Incidents -> Aggregate]
      /\ i \in Incidents /\ held \in Aggregate
    BY DEF IntakeTypeOK, Call
<1>2. RowOK(i, held)
    BY DEF CallOK
<1>3. CASE Fresh(i, held)
  <2>1. incidents' = [incidents EXCEPT ![i] = Newer(row)]
      BY <1>3 DEF Update
  <2>2. /\ incidents'[i] = Newer(row)
        /\ \A j \in Incidents \ {i} : incidents'[j] = incidents[j]
      BY <1>1, <2>1
  <2>3. held = incidents[i] /\ Renewed(i)
      BY <1>1, <1>2, <1>3, <2>2, NewerFacts DEF RowOK, Renewed, Fresh
  <2>4. CASE pc = "idle"
    <3>1. Return(w)
        BY <1>3, <2>4 DEF Update
    <3>2. workers'[w] = Idle /\ \A v \in Workers \ {w} : workers'[v] = workers[v]
        BY <1>1, <3>1, GotoFacts
    <3> QED BY <1>3, <2>2, <2>3, <2>4, <3>2
  <2>5. CASE pc # "idle"
    <3>1. GotoWith(w, pc, i, Newer(row))
        BY <1>3, <2>5 DEF Update
    <3>2. /\ workers'[w].pc = pc /\ workers'[w].event = workers[w].event
          /\ workers'[w].incident = i /\ workers'[w].row = Newer(row)
          /\ \A v \in Workers \ {w} : workers'[v] = workers[v]
        BY <1>1, <3>1, GotoFacts
    <3> QED BY <1>3, <2>2, <2>3, <2>5, <3>2
  <2> QED BY <2>4, <2>5
<1>4. CASE ~Fresh(i, held)
  <2>1. Return(w) /\ incidents' = incidents
      BY <1>4 DEF Update
  <2> QED BY <1>1, <1>4, <2>1, GotoFacts
<1> QED BY <1>3, <1>4

\* The write of a row that is sound keeps the invariant but for its own call,
\* which goes on only if it has won.
LEMMA UpdateKeeps ==
    ASSUME IntakeTypeOK, CallsAgree, StoreAgrees, NEW w \in Workers,
           NEW i \in Incidents, workers[w].incident = i, workers[w].pc \in HoldsRow,
           NEW row \in Aggregate, row.version = workers[w].row.version, Sound(i, row),
           NEW pc, Update(w, row, pc), Learns, incidents' \in [Incidents -> Aggregate],
           \A j \in Incidents : j \in cooling' =>
              j \in cooling \/ (j = i /\ row.severity # 0 /\ Fresh(i, workers[w].row)),
           incidents[i].severity # 0 => row.severity # 0
    PROVE  StoreAgrees' /\ \A v \in Workers \ {w} : CallOK(workers[v])'
<1>1. CallOK(workers[w]) /\ \A j \in Incidents : IncidentOK(j)
    BY DEF CallsAgree, StoreAgrees
<1>2. \A j \in Incidents : Kept(j) \/ (j = i /\ incidents'[j] = Newer(row) /\ Renewed(j))
    BY <1>1, UpdateFacts DEF Kept
<1>3. \A v \in Workers \ {w} : CallOK(workers[v])'
  <2>1. \A v \in Workers \ {w} : workers'[v] = workers[v]
      BY <1>1, UpdateFacts
  <2> QED BY <1>2, <2>1, OthersKeep DEF CallsAgree
<1>4. ASSUME incidents'[i] = Newer(row), Renewed(i)
      PROVE  IncidentOK(i)'
  <2>1. /\ Newer(row).status = row.status /\ Newer(row).severity = row.severity
        /\ Newer(row).version = row.version + 1 /\ row.version \in Nat
      BY NewerFacts
  <2>2. row.severity # 0 => Sustained(i)'
      BY <1>1, SustainedStays DEF Sound
  <2>3. i \in cooling' => row.severity # 0
      BY <1>1 DEF IncidentOK
  <2>4. samples'[i] \subseteq recorded'
      BY <1>1 DEF Learns
  <2>5. incidents'[i].version > 0
      BY <1>4, <2>1
  <2>6. Sound(i, incidents[i])'
      BY <1>4, <2>1, <2>2 DEF Sound
  <2> QED BY <1>4, <2>1, <2>3, <2>4, <2>5, <2>6 DEF IncidentOK, Exists
<1>5. \A j \in Incidents : IncidentOK(j)'
    BY <1>1, <1>2, <1>4, IncidentKeeps
<1> QED BY <1>3, <1>5 DEF StoreAgrees

LEMMA LearnsNothing ==
    ASSUME StoreAgrees, UNCHANGED <<stream, recorded, samples>>
    PROVE  Learns
    BY DEF StoreAgrees, IncidentOK, Learns

\* A step that writes no incident.
LEMMA ReadKeeps ==
    ASSUME IntakeTypeOK, CallsAgree, StoreAgrees, Learns, incidents' = incidents,
           cooling' \subseteq cooling
    PROVE  /\ StoreAgrees' /\ \A i \in Incidents : Kept(i)
           /\ \A v \in Workers : workers'[v] = workers[v] => CallOK(workers[v])'
<1>1. \A i \in Incidents : Kept(i)
    BY DEF Kept
<1>2. incidents' \in [Incidents -> Aggregate]
    BY DEF IntakeTypeOK
<1>3. \A v \in Workers : workers'[v] = workers[v] => CallOK(workers[v])'
    BY <1>1, <1>2, OthersKeep DEF CallsAgree
<1>4. \A i \in Incidents : IncidentOK(i)'
    BY <1>1, IncidentKeeps DEF StoreAgrees
<1> QED BY <1>1, <1>3, <1>4 DEF StoreAgrees

LEMMA RowKeeps ==
    ASSUME Learns, NEW i \in Incidents, NEW row, RowOK(i, row), Kept(i)
    PROVE  RowOK(i, row)'
<1>1. row.severity # 0 => Sustained(i)'
    BY SustainedStays DEF RowOK, Sound
<1> QED BY <1>1 DEF RowOK, Sound, Fresh, Kept

\* The call that has moved on.
LEMMA MovesOn ==
    ASSUME IntakeTypeOK, CallsAgree, Learns, NEW w \in Workers,
           NEW e, NEW i \in Incidents, NEW row,
           workers[w].event = e, workers[w].incident = i, workers[w].row = row, Kept(i),
           workers[w].pc \in Working \cap HoldsRow,
           NEW pc \in Working, Goto(w, pc),
           pc \in Sampled => e \in samples'[i],
           pc \in {"claiming", "activating"} => Sustained(i),
           pc = "activating" /\ Fresh(i, row) /\ i \in cooling =>
               Severity(e) = 1 \/ Severity(e) < row.severity
    PROVE  CallOK(workers[w])'
<1>1. workers'[w].pc = pc /\ workers'[w].event = e /\ workers'[w].incident = i
      /\ workers'[w].row = row
    BY GotoFacts DEF IntakeTypeOK
<1>2. RowOK(i, row) /\ e \in recorded
    BY DEF CallsAgree, CallOK
<1>3. RowOK(i, row)' /\ e \in recorded'
    BY <1>2, RowKeeps DEF Learns
<1>4. pc \in {"claiming", "activating"} => Sustained(i)'
    BY SustainedStays
<1>5. pc = "activating" /\ Fresh(i, row)' /\ i \in cooling' =>
          Severity(e)' = 1 \/ Severity(e)' < row.severity
    BY DEF Kept, Fresh, Severity, Kind, Learns
<1> QED BY <1>1, <1>3, <1>4, <1>5 DEF CallOK

\* The call that takes a row as it is stored.
LEMMA HoldsStored ==
    ASSUME IntakeTypeOK, StoreAgrees, Learns, incidents' = incidents, cooling' \subseteq cooling,
           NEW w \in Workers, NEW i \in Incidents,
           workers'[w].pc \in {"refusing", "updating", "closing", "repeating"},
           workers'[w].incident = i, workers'[w].row = incidents[i],
           workers'[w].pc \in Working => workers'[w].event \in recorded
    PROVE  CallOK(workers[w])'
<1>1. PICK r : r = incidents[i]
    OBVIOUS
<1>2. RowOK(i, r)
    BY <1>1, StoredRowOK DEF StoreAgrees
<1>3. RowOK(i, r)'
    BY <1>2, RowKeeps DEF Kept
<1> QED BY <1>1, <1>3 DEF CallOK, Sampled, Working, Learns

LEMMA TakesRow ==
    ASSUME IntakeTypeOK, StoreAgrees, Learns, incidents' = incidents, cooling' \subseteq cooling,
           NEW w \in Workers, NEW i \in Incidents,
           NEW pc \in {"refusing", "updating", "closing"},
           GotoWith(w, pc, i, incidents[i]), workers[w].event \in recorded
    PROVE  CallOK(workers[w])'
<1>1. PICK r : r = incidents[i]
    OBVIOUS
<1>2. workers'[w].pc = pc /\ workers'[w].event = workers[w].event
      /\ workers'[w].incident = i /\ workers'[w].row = r
  <2>1. GotoWith(w, pc, i, r) /\ workers \in [Workers -> Call]
      BY <1>1 DEF IntakeTypeOK
  <2> QED BY <2>1, GotoFacts
<1> QED BY <1>1, <1>2, HoldsStored

\* The call whose write was the last.
LEMMA HasWritten ==
    ASSUME IntakeTypeOK, StoreAgrees', CallsAgree, Learns,
           incidents' \in [Incidents -> Aggregate],
           NEW w \in Workers, NEW i \in Incidents, NEW pc \in {"binding", "saving"},
           workers'[w].pc = pc, workers'[w].event = workers[w].event,
           workers'[w].incident = i, workers'[w].row = incidents'[i],
           workers[w].event \in recorded, pc = "saving" => workers[w].event \in samples[i]
    PROVE  CallOK(workers[w])'
<1>1. PICK r : r = incidents'[i]
    OBVIOUS
<1>2. r.version \in Nat /\ IncidentOK(i)'
    BY <1>1 DEF Aggregate, StoreAgrees
<1>3. RowOK(i, r)'
    BY <1>1, <1>2 DEF RowOK, IncidentOK, Fresh
<1> QED BY <1>1, <1>3 DEF CallOK, Sampled, Learns

-----------------------------------------------------------------------------
\* Every step of a call keeps the invariant.

LEMMA StreakSustains ==
    ASSUME IntakeTypeOK, StoreAgrees, NEW i \in Incidents, NEW e \in samples[i],
           Kind(e) \in Breaching, Spans(i, Breaching, Sustain)
    PROVE  Sustained(i)
<1>1. samples[i] \subseteq recorded
    BY DEF StoreAgrees, IncidentOK
<1>2. \A f \in samples[i] : f \in Nat /\ stream[f].time \in Nat
    BY <1>1, RecordedAreEvents, EventsAreNat
<1>3. CASE Sustain = 0
  <2>1. stream[e].time - stream[e].time >= Sustain
      BY <1>2, <1>3
  <2> QED BY <2>1 DEF Sustained
<1>4. CASE Sustain # 0
  <2>1. PICK f, g \in Streak(i, Breaching) : stream[g].time - stream[f].time >= Sustain
      BY <1>4 DEF Spans
  <2>2. \A h \in Streak(i, Breaching) : h \in samples[i] /\ Kind(h) \in Breaching
      BY <1>2 DEF Streak
  <2>3. f \in samples[i] /\ g \in samples[i] /\ {Kind(f), Kind(g)} \subseteq Breaching
      BY <2>2
  <2> QED BY <2>1, <2>3 DEF Sustained
<1> QED BY <1>3, <1>4

LEMMA ActivatesSustained ==
    ASSUME IntakeTypeOK, StoreAgrees, NEW i \in Incidents, NEW row, Sound(i, row),
           NEW e \in samples[i], Activates(i, row, e)
    PROVE  Sustained(i)
<1>1. CASE row.severity # 0
    BY <1>1 DEF Sound
<1>2. CASE row.severity = 0
  <2>1. Kind(e) \in Breaching /\ Spans(i, Breaching, Sustain)
      BY <1>2 DEF Activates, Escalates, Sound
  <2> QED BY <2>1, StreakSustains
<1> QED BY <1>1, <1>2

\* A worker writes a sound row, made of the row it holds.
Writes(w, r, pc) ==
    LET i == workers[w].incident
        row == workers[w].row IN
    /\ r.version = row.version /\ Sound(i, r) /\ Update(w, r, pc) /\ Learns
    /\ workers[w].pc \in HoldsRow
    /\ pc # "idle" => workers[w].pc \in Working
    /\ pc = "saving" => workers[w].event \in samples[i]
    /\ \/ cooling' = cooling
       \/ cooling' = cooling \cup {i} /\ r.severity # 0 /\ Fresh(i, row)
    /\ incidents[i].severity # 0 /\ Fresh(i, row) => r.severity # 0

LEMMA WriteInductive ==
    ASSUME IInv, NEW w \in Workers, IntakeTypeOK', NEW r \in Aggregate,
           NEW pc \in {"idle", "binding", "saving"}, Writes(w, r, pc)
    PROVE  CallsAgree' /\ StoreAgrees'
<1>1. /\ IntakeTypeOK /\ CallsAgree /\ StoreAgrees /\ CallOK(workers[w])
      /\ workers \in [Workers -> Call] /\ incidents' \in [Incidents -> Aggregate]
    BY DEF IInv, CallsAgree, IntakeTypeOK
<1>2. PICK e \in Incidents, i \in Incidents, row \in Aggregate :
         workers[w].event = e /\ workers[w].incident = i /\ workers[w].row = row
    BY <1>1 DEF Call
<1>3. /\ r.version = row.version /\ Sound(i, r) /\ Update(w, r, pc) /\ Learns
      /\ workers[w].pc \in HoldsRow
      /\ pc # "idle" => workers[w].pc \in Working
      /\ pc = "saving" => e \in samples[i]
      /\ \/ cooling' = cooling
         \/ cooling' = cooling \cup {i} /\ r.severity # 0 /\ Fresh(i, row)
      /\ incidents[i].severity # 0 /\ Fresh(i, row) => r.severity # 0
    BY <1>2 DEF Writes
<1>4. CASE incidents' = incidents /\ workers'[w] = Idle /\ ~Fresh(i, row)
  <2>1. cooling' \subseteq cooling /\ CallOK(workers[w])'
      BY <1>3, <1>4, IdleCallOK
  <2>2. \A v \in Workers \ {w} : workers'[v] = workers[v]
      BY <1>1, <1>2, <1>3, UpdateFacts
  <2> QED BY <1>1, <1>3, <1>4, <2>1, <2>2, ReadKeeps DEF CallsAgree
<1>5. CASE Fresh(i, row)
  <2>1. StoreAgrees' /\ \A v \in Workers \ {w} : CallOK(workers[v])'
    <3>1. \A j \in Incidents : j \in cooling' =>
             j \in cooling \/ (j = i /\ r.severity # 0 /\ Fresh(i, workers[w].row))
        BY <1>2, <1>3
    <3>2. incidents[i].severity # 0 => r.severity # 0
        BY <1>3, <1>5
    <3>3. r.version = workers[w].row.version /\ Sound(i, r) /\ Update(w, r, pc) /\ Learns
          /\ workers[w].pc \in HoldsRow
        BY <1>2, <1>3
    <3> QED BY <1>1, <1>2, <3>1, <3>2, <3>3, UpdateKeeps
  <2>2. CallOK(workers[w])'
    <3>1. \/ pc = "idle" /\ workers'[w] = Idle
          \/ /\ pc # "idle" /\ workers'[w].pc = pc /\ workers'[w].event = e
             /\ workers'[w].incident = i /\ workers'[w].row = incidents'[i]
        BY <1>1, <1>2, <1>3, <1>5, UpdateFacts
    <3>2. pc # "idle" => e \in recorded
        BY <1>1, <1>2, <1>3 DEF CallOK
    <3> QED BY <1>1, <1>2, <1>3, <2>1, <3>1, <3>2, IdleCallOK, HasWritten
  <2> QED BY <2>1, <2>2 DEF CallsAgree
<1> QED BY <1>1, <1>2, <1>3, <1>4, <1>5, UpdateFacts

LEMMA StepInductive ==
    ASSUME IInv, NEW w \in Workers, Step(w), IntakeTypeOK'
    PROVE  CallsAgree' /\ StoreAgrees'
<1>1. /\ IntakeTypeOK /\ CallsAgree /\ StoreAgrees /\ CallOK(workers[w])
      /\ workers \in [Workers -> Call] /\ incidents' \in [Incidents -> Aggregate]
      /\ \A i \in Incidents : IncidentOK(i)
    BY DEF IInv, CallsAgree, StoreAgrees, IntakeTypeOK
<1>2. PICK e \in Incidents, i \in Incidents, row \in Aggregate :
         workers[w].event = e /\ workers[w].incident = i /\ workers[w].row = row
    BY <1>1 DEF Call
<1>3. \* A step that writes no incident keeps the invariant if its call is right.
      ASSUME Learns, incidents' = incidents, cooling' \subseteq cooling,
             \A v \in Workers \ {w} : workers'[v] = workers[v], CallOK(workers[w])'
      PROVE  CallsAgree' /\ StoreAgrees'
    BY <1>1, <1>3, ReadKeeps DEF CallsAgree
<1>4. \* A write keeps it if its row is sound and its call is right.
      ASSUME NEW r \in Aggregate, NEW pc \in {"idle", "binding", "saving"}, Writes(w, r, pc)
      PROVE  CallsAgree' /\ StoreAgrees'
    BY <1>4, WriteInductive DEF IInv
<1>5. workers[w].pc \in HoldsRow => RowOK(i, row) /\ Sound(i, row)
    BY <1>1, <1>2 DEF CallOK, RowOK
<1>6. ASSUME NEW pc, Goto(w, pc) \/ Return(w)
      PROVE  \A v \in Workers \ {w} : workers'[v] = workers[v]
    BY <1>1, <1>6, GotoFacts
<1>7. ASSUME Return(w)
      PROVE  CallOK(workers[w])'
    BY <1>1, <1>7, GotoFacts, IdleCallOK
<1>8. CASE Repeat(w)
  <2>1. Learns
      BY <1>1, <1>8, LearnsNothing DEF Repeat, env
  <2>2. PICK r \in Aggregate :
           /\ Update(w, r, "idle") /\ workers[w].pc \in HoldsRow
           /\ r.version = row.version /\ r.status = row.status
           /\ r.severity = row.severity
      BY <1>1, <1>2, <1>8, RepeatWrites
  <2>3. Sound(i, r)
      BY <1>5, <2>2 DEF Sound
  <2>4. incidents[i].severity # 0 /\ Fresh(i, row) => r.severity # 0
      BY <1>5, <2>2 DEF RowOK
  <2>5. cooling' = cooling
      BY <1>8 DEF Repeat
  <2>6. Writes(w, r, "idle")
      BY <1>2, <2>1, <2>2, <2>3, <2>4, <2>5 DEF Writes
  <2> QED BY <1>4, <2>6
<1>9. CASE Correlate(w)
  <2>1. Learns /\ incidents' = incidents /\ cooling' = cooling
      BY <1>1, <1>9, LearnsNothing DEF Correlate, env
  <2>2. workers[w].event \in recorded
      BY <1>1, <1>9 DEF CallOK, Correlate, Working
  <2>3. CASE Goto(w, "creating") \/ Goto(w, "opening")
    <3>1. workers'[w].pc \in {"creating", "opening"} /\ workers'[w].event = workers[w].event
        BY <1>1, <2>3, GotoFacts
    <3>2. CallOK(workers[w])'
        BY <2>1, <2>2, <3>1 DEF CallOK, HoldsRow, Sampled, Learns
    <3>3. \A v \in Workers \ {w} : workers'[v] = workers[v]
        BY <1>6, <2>3
    <3> QED BY <1>3, <2>1, <3>2, <3>3
  <2>4. ASSUME NEW j \in Incidents, NEW pc \in {"refusing", "updating"},
               GotoWith(w, pc, j, incidents[j])
        PROVE  CallsAgree' /\ StoreAgrees'
    <3>1. CallOK(workers[w])'
        BY <1>1, <2>1, <2>2, <2>4, TakesRow
    <3>2. \A v \in Workers \ {w} : workers'[v] = workers[v]
        BY <1>1, <2>4, GotoFacts
    <3> QED BY <1>3, <2>1, <3>1, <3>2
  <2> QED BY <1>9, <2>3, <2>4 DEF Correlate
<1>10. CASE Create(w)
  <2>1. Learns /\ cooling' = cooling
      BY <1>1, <1>10, LearnsNothing DEF Create, env
  <2>2. e \in recorded
      BY <1>1, <1>2, <1>10 DEF CallOK, Create, Working
  <2>3. CASE incidents' = incidents /\ Goto(w, "rereading")
    <3>1. workers'[w].pc = "rereading" /\ workers'[w].event = e
        BY <1>1, <1>2, <2>3, GotoFacts
    <3>2. CallOK(workers[w])'
        BY <2>1, <2>2, <3>1 DEF CallOK, HoldsRow, Sampled, Learns
    <3>3. \A v \in Workers \ {w} : workers'[v] = workers[v]
        BY <1>6, <2>3
    <3> QED BY <1>3, <2>1, <2>3, <3>2, <3>3
  <2>4. ASSUME NEW j \in Incidents, ~Exists(j),
               incidents' = [incidents EXCEPT ![j] = FirstRow(e)],
               GotoWith(w, "binding", j, FirstRow(e))
        PROVE  CallsAgree' /\ StoreAgrees'
    <3>1. PICK r \in Aggregate : r = FirstRow(e) /\ r.version = 1 /\ r.severity = 0
                                 /\ r.status = "NORMAL"
        BY FirstRowFacts
    <3>2. /\ incidents'[j] = r /\ \A k \in Incidents \ {j} : Kept(k)
          /\ incidents[j] = NoIncident /\ j \notin cooling
        BY <1>1, <2>1, <2>4, <3>1 DEF IntakeTypeOK, Kept, IncidentOK, NoIncident
    <3>3. Renewed(j)
        BY <3>1, <3>2 DEF Renewed, NoIncident
    <3>4. workers'[w].pc = "binding" /\ workers'[w].event = e /\ workers'[w].incident = j
          /\ workers'[w].row = incidents'[j]
          /\ \A v \in Workers \ {w} : workers'[v] = workers[v]
      <4>1. GotoWith(w, "binding", j, r)
          BY <2>4, <3>1
      <4>2. workers'[w].pc = "binding" /\ workers'[w].event = workers[w].event
            /\ workers'[w].incident = j /\ workers'[w].row = r
            /\ \A v \in Workers \ {w} : workers'[v] = workers[v]
          BY <1>1, <4>1, GotoWithFacts
      <4> QED BY <1>2, <3>2, <4>2
    <3>5. \A k \in Incidents : Kept(k) \/ Renewed(k)
        BY <3>2, <3>3
    <3>6. \A v \in Workers \ {w} : CallOK(workers[v])'
        BY <1>1, <2>1, <3>4, <3>5, OthersKeep DEF CallsAgree
    <3>7. IncidentOK(j)'
        BY <2>1, <3>1, <3>2 DEF IncidentOK, Sound, Exists, Learns
    <3>8. StoreAgrees'
        BY <1>1, <2>1, <3>2, <3>7, IncidentKeeps DEF StoreAgrees
    <3>9. CallOK(workers[w])'
        BY <1>1, <1>2, <2>1, <2>2, <3>4, <3>8, HasWritten
    <3> QED BY <3>6, <3>8, <3>9 DEF CallsAgree
  <2>5. (IF workers[w].pc = "creating" THEN 0 ELSE e) \in Incidents
      BY DEF Incidents
  <2> QED BY <1>2, <1>10, <2>3, <2>4, <2>5 DEF Create
<1>11. CASE Reread(w)
  <2>1. Learns /\ incidents' = incidents /\ cooling' = cooling
      BY <1>1, <1>11, LearnsNothing DEF Reread, env
  <2>2. workers[w].event \in recorded
      BY <1>1, <1>11 DEF CallOK, Reread, Working
  <2>3. PICK j \in Incidents : GotoWith(w, "updating", j, incidents[j])
      BY <1>11 DEF Reread
  <2>4. CallOK(workers[w])'
      BY <1>1, <2>1, <2>2, <2>3, TakesRow
  <2>5. \A v \in Workers \ {w} : workers'[v] = workers[v]
      BY <1>1, <2>3, GotoFacts
  <2> QED BY <1>3, <2>1, <2>4, <2>5
<1>12. CASE UpdateOccurrence(w)
  <2>1. Learns
      BY <1>1, <1>12, LearnsNothing DEF UpdateOccurrence, env
  <2>2. PICK r \in Aggregate : r = [row EXCEPT !.last = Later(@, e), !.count = @ + 1]
                               /\ r.version = row.version /\ r.status = row.status
                               /\ r.severity = row.severity
      BY OccurrenceFacts
  <2>3. Update(w, r, "binding") /\ workers[w].pc \in HoldsRow \cap Working
        /\ cooling' = cooling
      BY <1>2, <1>12, <2>2 DEF UpdateOccurrence, HoldsRow, Working
  <2>4. Sound(i, r) /\ (incidents[i].severity # 0 /\ Fresh(i, row) => r.severity # 0)
      BY <1>5, <2>2, <2>3 DEF RowOK, Sound
  <2>5. Writes(w, r, "binding")
      BY <1>2, <2>1, <2>2, <2>3, <2>4 DEF Writes
  <2> QED BY <1>4, <2>5
<1>13. \* A call that goes on with its row.
       ASSUME NEW pc \in Working, Goto(w, pc), Learns, incidents' = incidents, cooling' = cooling,
              workers[w].pc \in Working \cap HoldsRow,
              pc \in Sampled => e \in samples'[i],
              pc \in {"claiming", "activating"} => Sustained(i),
              pc = "activating" /\ Fresh(i, row) /\ i \in cooling =>
                  Severity(e) = 1 \/ Severity(e) < row.severity
       PROVE  CallsAgree' /\ StoreAgrees'
  <2>1. Kept(i)
      BY <1>13 DEF Kept
  <2>2. CallOK(workers[w])'
      BY <1>1, <1>2, <1>13, <2>1, MovesOn
  <2>3. \A v \in Workers \ {w} : workers'[v] = workers[v]
      BY <1>6, <1>13
  <2> QED BY <1>3, <1>13, <2>2, <2>3
<1>14. \* A call that ends without a write.
       ASSUME Return(w), Learns, incidents' = incidents, cooling' = cooling
       PROVE  CallsAgree' /\ StoreAgrees'
  <2>1. \A v \in Workers \ {w} : workers'[v] = workers[v]
      BY <1>6, <1>14
  <2> QED BY <1>3, <1>7, <1>14, <2>1
<1>15. CASE Bind(w)
  <2>1. Learns /\ incidents' = incidents /\ cooling' = cooling
      BY <1>1, <1>15, LearnsNothing DEF Bind, env
  <2>2. workers[w].pc \in Working \cap HoldsRow
      BY <1>15 DEF Bind, Working, HoldsRow
  <2>3. Return(w) \/ Goto(w, "resolving") \/ Goto(w, "sampling")
      BY <1>15 DEF Bind
  <2>4. CASE Goto(w, "resolving")
      BY <1>13, <2>1, <2>2, <2>4 DEF Working, Sampled
  <2>5. CASE Goto(w, "sampling")
      BY <1>13, <2>1, <2>2, <2>5 DEF Working, Sampled
  <2> QED BY <1>14, <2>1, <2>3, <2>4, <2>5
<1>16. CASE Sample(w)
  <2>1. samples' = [samples EXCEPT ![i] = @ \cup {e}] /\ UNCHANGED <<stream, recorded>>
        /\ incidents' = incidents /\ cooling' = cooling /\ Goto(w, "judging")
      BY <1>2, <1>16 DEF Sample, env
  <2>2. workers[w].pc \in Working \cap HoldsRow
      BY <1>16 DEF Sample, Working, HoldsRow
  <2>3. e \in recorded
      BY <1>1, <1>2, <2>2 DEF CallOK
  <2>4. samples \in [Incidents -> SUBSET Events]
      BY <1>1 DEF IntakeTypeOK
  <2>5. \A j \in Incidents : samples'[j] = IF j = i THEN samples[i] \cup {e} ELSE samples[j]
      BY <2>1, <2>4
  <2>6. Learns /\ e \in samples'[i]
      BY <1>1, <2>1, <2>3, <2>5 DEF Learns, IncidentOK
  <2> QED BY <1>13, <2>1, <2>2, <2>6 DEF Working
<1>17. CASE Judge(w)
  <2>1. Learns /\ incidents' = incidents /\ cooling' = cooling
      BY <1>1, <1>17, LearnsNothing DEF Judge, env
  <2>2. workers[w].pc \in Working \cap HoldsRow /\ workers[w].pc \in Sampled
      BY <1>17 DEF Judge, Working, HoldsRow, Sampled
  <2>3. e \in samples[i] /\ e \in samples'[i]
      BY <1>1, <1>2, <2>1, <2>2 DEF CallOK, Learns
  <2>4. \/ Return(w)
        \/ Activates(i, row, e) /\ Goto(w, "claiming")
        \/ Goto(w, "resolving")
        \/ Goto(w, "suspecting")
      BY <1>2, <1>17 DEF Judge
  <2>5. CASE Activates(i, row, e) /\ Goto(w, "claiming")
    <3>1. Sustained(i)
        BY <1>1, <1>5, <2>2, <2>3, <2>5, ActivatesSustained
    <3> QED BY <1>13, <2>1, <2>2, <2>3, <2>5, <3>1 DEF Working
  <2>6. CASE Goto(w, "resolving")
      BY <1>13, <2>1, <2>2, <2>6 DEF Working, Sampled
  <2>7. CASE Goto(w, "suspecting")
      BY <1>13, <2>1, <2>2, <2>3, <2>7 DEF Working
  <2> QED BY <1>14, <2>1, <2>4, <2>5, <2>6, <2>7
<1>18. CASE Suspect(w)
  <2>1. Learns
      BY <1>1, <1>18, LearnsNothing DEF Suspect, env
  <2>2. PICK r \in Aggregate : r = [row EXCEPT !.status = "PENDING"] /\ r.status = "PENDING"
                               /\ r.version = row.version /\ r.severity = row.severity
      BY StatusFacts
  <2>3. Update(w, r, "idle") /\ workers[w].pc \in HoldsRow /\ cooling' = cooling
      BY <1>2, <1>18, <2>2 DEF Suspect, HoldsRow
  <2>4. Sound(i, r) /\ (incidents[i].severity # 0 /\ Fresh(i, row) => r.severity # 0)
      BY <1>5, <2>2, <2>3 DEF RowOK, Sound
  <2>5. Writes(w, r, "idle")
      BY <1>2, <2>1, <2>2, <2>3, <2>4 DEF Writes
  <2> QED BY <1>4, <2>5
<1>19. CASE Claim(w)
  <2>1. Learns /\ incidents' = incidents /\ cooling' = cooling
      BY <1>1, <1>19, LearnsNothing DEF Claim, env
  <2>2. workers[w].pc \in Working \cap HoldsRow /\ workers[w].pc = "claiming"
      BY <1>19 DEF Claim, Working, HoldsRow
  <2>3. e \in samples[i] /\ e \in samples'[i] /\ Sustained(i)
      BY <1>1, <1>2, <2>1, <2>2 DEF CallOK, Learns, Sampled
  <2>4. Return(w) \/ (Interrupts(i, row, e) /\ Goto(w, "activating"))
      BY <1>2, <1>19 DEF Claim
  <2>5. CASE Interrupts(i, row, e) /\ Goto(w, "activating")
    <3>1. Fresh(i, row) /\ i \in cooling => Severity(e) = 1 \/ Severity(e) < row.severity
      <4>1. Fresh(i, row) /\ i \in cooling => row.severity # 0
          BY <1>1, <1>5, <2>2 DEF RowOK, IncidentOK
      <4> QED BY <2>5, <4>1 DEF Interrupts, Escalates
    <3> QED BY <1>13, <2>1, <2>2, <2>3, <2>5, <3>1 DEF Working
  <2> QED BY <1>14, <2>1, <2>4, <2>5
<1>20. CASE Activate(w)
  <2>1. Learns
      BY <1>1, <1>20, LearnsNothing DEF Activate, env
  <2>2. PICK r \in Aggregate :
           r = [row EXCEPT !.status = "ACTIVE", !.severity = Severity(e)]
           /\ r.version = row.version /\ r.severity # 0
    <3>1. PICK severity \in 1..4 : severity = Severity(e)
        BY SeverityType
    <3>2. PICK r : r = [row EXCEPT !.status = "ACTIVE", !.severity = severity]
        OBVIOUS
    <3>3. r \in Aggregate /\ r.version = row.version /\ r.severity = severity
        BY <3>2, ActiveFacts
    <3>4. r = [row EXCEPT !.status = "ACTIVE", !.severity = Severity(e)] /\ r.severity # 0
        BY <3>1, <3>2, <3>3
    <3> QED BY <3>3, <3>4
  <2>3. /\ Update(w, r, "saving") /\ workers[w].pc \in HoldsRow \cap Working
        /\ workers[w].pc = "activating"
        /\ cooling' = IF Fresh(i, row) THEN cooling \cup {i} ELSE cooling
      BY <1>2, <1>20, <2>2 DEF Activate, HoldsRow, Working
  <2>4. e \in samples[i] /\ Sustained(i)
      BY <1>1, <1>2, <2>3 DEF CallOK, Sampled
  <2>5. Sound(i, r)
      BY <2>2, <2>4 DEF Sound
  <2>6. Writes(w, r, "saving")
      BY <1>2, <2>1, <2>2, <2>3, <2>4, <2>5 DEF Writes
  <2> QED BY <1>4, <2>6
<1>21. CASE Save(w)
    BY <1>1, <1>14, <1>21, LearnsNothing DEF Save, env
<1>22. CASE ReadResolved(w)
  <2>1. Learns /\ incidents' = incidents /\ cooling' = cooling
      BY <1>1, <1>22, LearnsNothing DEF ReadResolved, env
  <2>2. workers[w].event \in recorded
      BY <1>1, <1>22 DEF CallOK, ReadResolved, Working
  <2>3. GotoWith(w, "closing", i, incidents[i])
      BY <1>2, <1>22 DEF ReadResolved
  <2>4. CallOK(workers[w])'
      BY <1>1, <2>1, <2>2, <2>3, TakesRow
  <2>5. \A v \in Workers \ {w} : workers'[v] = workers[v]
      BY <1>1, <2>3, GotoFacts
  <2> QED BY <1>3, <2>1, <2>4, <2>5
<1>23. CASE Close(w)
  <2>1. Learns
      BY <1>1, <1>23, LearnsNothing DEF Close, env
  <2>2. PICK r \in Aggregate : r = Resolved(row, workers[w].now) /\ r.status = "RESOLVED"
                               /\ r.version = row.version /\ r.severity = row.severity
    <3>1. workers[w].now \in Incidents
        BY <1>1 DEF Call
    <3> QED BY <3>1, ResolvedFacts
  <2>3. Update(w, r, "idle") /\ workers[w].pc \in HoldsRow /\ cooling' = cooling
      BY <1>2, <1>23, <2>2 DEF Close, HoldsRow
  <2>4. Sound(i, r) /\ (incidents[i].severity # 0 /\ Fresh(i, row) => r.severity # 0)
      BY <1>5, <2>2, <2>3 DEF RowOK, Sound
  <2>5. Writes(w, r, "idle")
      BY <1>2, <2>1, <2>2, <2>3, <2>4 DEF Writes
  <2> QED BY <1>4, <2>5
<1>24. CASE Crash(w)
    BY <1>1, <1>14, <1>24, LearnsNothing DEF Crash
<1> QED BY <1>8, <1>9, <1>10, <1>11, <1>12, <1>15, <1>16, <1>17, <1>18, <1>19, <1>20, <1>21,
           <1>22, <1>23, <1>24 DEF Step

-----------------------------------------------------------------------------
\* The steps of the environment, and of a call that starts.

LEMMA Inits == Init => IInv
<1> SUFFICES ASSUME Init PROVE CallsAgree /\ StoreAgrees
    BY InitType DEF IInv
<1>1. CallsAgree
    BY DEF Init, CallsAgree, CallOK, Idle, Working, Sampled, HoldsRow
<1>2. NoIncident.status = "NORMAL" /\ NoIncident.severity = 0 /\ NoIncident.version = 0
    BY DEF NoIncident
<1>3. \A i \in Incidents : incidents[i] = NoIncident /\ samples[i] = {} /\ i \notin cooling
    BY DEF Init
<1>4. StoreAgrees
    BY <1>2, <1>3 DEF StoreAgrees, IncidentOK, Sound, Exists
<1> QED BY <1>1, <1>4

\* The environment changes no row and starts no call.
LEMMA EnvironmentInductive ==
    ASSUME IInv, Emit \/ ClaimExpires \/ (\E i \in Incidents : CooldownEnds(i))
    PROVE  IInv'
<1>1. IntakeTypeOK /\ CallsAgree /\ StoreAgrees
    BY DEF IInv
<1>2. /\ UNCHANGED <<stream, recorded, links, incidents, samples, notified, workers,
                     redeliveries, commands, crashes>>
      /\ cooling' \subseteq cooling /\ claimed' \in BOOLEAN
      /\ emitted' = emitted \/ (emitted < Len(stream) /\ emitted' = emitted + 1)
  <2>1. CASE Emit
      BY <1>1, <2>1 DEF Emit, IntakeTypeOK
  <2>2. CASE ClaimExpires
      BY <1>1, <2>2 DEF ClaimExpires, env, IntakeTypeOK
  <2>3. CASE \E i \in Incidents : CooldownEnds(i)
      BY <1>1, <2>3 DEF CooldownEnds, env, IntakeTypeOK
  <2> QED BY <2>1, <2>2, <2>3
<1>3. emitted' \in 0..Len(stream) /\ recorded \subseteq 1..emitted'
  <2>1. Len(stream) \in Nat
      BY <1>1, IncidentAssumption DEF IntakeTypeOK
  <2> QED BY <1>1, <1>2, <2>1 DEF IntakeTypeOK
<1>4. IntakeTypeOK'
    BY <1>1, <1>2, <1>3 DEF IntakeTypeOK
<1>5. Learns
    BY <1>1, <1>2, LearnsNothing
<1>6. StoreAgrees' /\ \A v \in Workers : CallOK(workers[v])'
    BY <1>1, <1>2, <1>5, ReadKeeps
<1> QED BY <1>4, <1>6 DEF IInv, CallsAgree

LEMMA RecordInductive ==
    ASSUME IInv, NEW w \in Workers, NEW e \in Events, Record(w, e)
    PROVE  IInv'
<1>1. IntakeTypeOK /\ CallsAgree /\ StoreAgrees
    BY DEF IInv
<1> DEFINE call == [Idle EXCEPT !.pc = "correlating", !.event = e, !.now = emitted]
<1>2. /\ recorded' = recorded \cup {e} /\ workers' = [workers EXCEPT ![w] = call]
      /\ UNCHANGED <<stream, emitted, incidents, samples, cooling>> /\ e \in 1..emitted
    BY DEF Record, env
<1>3. call \in Call /\ call.pc = "correlating" /\ call.event = e
    BY <1>1, IdleType, RecordedAreEvents DEF Call, Incidents
<1> HIDE DEF call
<1>4. workers' \in [Workers -> Call] /\ workers'[w] = call
      /\ \A v \in Workers \ {w} : workers'[v] = workers[v]
    BY <1>1, <1>2, <1>3 DEF IntakeTypeOK
<1>5. IntakeTypeOK'
    BY <1>1, <1>2, <1>4 DEF Record, env, IntakeTypeOK
<1>6. Learns
    BY <1>1, <1>2 DEF Learns, StoreAgrees, IncidentOK
<1>7. StoreAgrees' /\ \A v \in Workers \ {w} : CallOK(workers[v])'
    BY <1>1, <1>2, <1>4, <1>6, ReadKeeps
<1>8. CallOK(workers[w])'
    BY <1>2, <1>3, <1>4 DEF CallOK, Sampled, HoldsRow
<1> QED BY <1>5, <1>7, <1>8 DEF IInv, CallsAgree

\* The call of a redelivery.
Redelivered(e, i, row) ==
    [Idle EXCEPT !.pc = "repeating", !.event = e, !.incident = i, !.row = row]

LEMMA RedeliveredFacts ==
    ASSUME NEW e \in Events, NEW i \in Incidents, NEW row \in Aggregate
    PROVE  LET c == Redelivered(e, i, row) IN
           c \in Call /\ c.pc = "repeating" /\ c.event = e /\ c.incident = i /\ c.row = row
<1>1. Idle \in Call /\ e \in Incidents
    BY IdleType DEF Incidents
<1> QED BY <1>1 DEF Redelivered, Call

LEMMA RedeliverInductive ==
    ASSUME IInv, NEW w \in Workers, NEW e \in Events, Redeliver(w, e)
    PROVE  IInv'
<1>1. IntakeTypeOK /\ CallsAgree /\ StoreAgrees /\ Learns
    BY LearnsNothing DEF IInv, Redeliver
<1>2. incidents' = incidents /\ cooling' \subseteq cooling
    BY DEF Redeliver
<1>3. CASE UNCHANGED workers
  <2>1. IntakeTypeOK'
      BY <1>1, <1>3, IncidentAssumption DEF Redeliver, IntakeTypeOK
  <2>2. StoreAgrees' /\ \A v \in Workers : CallOK(workers[v])'
      BY <1>1, <1>2, <1>3, ReadKeeps
  <2> QED BY <2>1, <2>2 DEF IInv, CallsAgree
<1>4. CASE links[e] # None
  <2>1. PICK i \in Incidents :
           \/ workers' = [workers EXCEPT ![w] = Redelivered(e, i, incidents[i])]
           \/ UNCHANGED workers
      BY <1>1, <1>4 DEF Redeliver, IntakeTypeOK, Redelivered
  <2>2. CASE workers' = [workers EXCEPT ![w] = Redelivered(e, i, incidents[i])]
    <3>1. workers' \in [Workers -> Call] /\ Redelivered(e, i, incidents[i]) \in Call
        BY <1>1, <2>2, RedeliveredFacts DEF IntakeTypeOK
    <3>2. IntakeTypeOK'
        BY <1>1, <3>1, IncidentAssumption DEF Redeliver, IntakeTypeOK
    <3>3. /\ workers'[w] = Redelivered(e, i, incidents[i])
          /\ \A v \in Workers \ {w} : workers'[v] = workers[v]
        BY <1>1, <2>2 DEF IntakeTypeOK
    <3>4. StoreAgrees' /\ \A v \in Workers \ {w} : CallOK(workers[v])'
        BY <1>1, <1>2, <3>3, ReadKeeps
    <3>5. CallOK(workers[w])'
      <4>1. workers'[w].pc = "repeating" /\ workers'[w].incident = i
            /\ workers'[w].row = incidents[i]
          BY <1>1, <3>3, RedeliveredFacts DEF IntakeTypeOK
      <4> QED BY <1>1, <1>2, <4>1, HoldsStored DEF Working
    <3> QED BY <3>2, <3>4, <3>5 DEF IInv, CallsAgree
  <2> QED BY <1>3, <2>1, <2>2
<1> QED BY <1>3, <1>4 DEF Redeliver

\* An operator writes a sound row of an incident that exists.
LEMMA CommandInductive ==
    ASSUME IInv, NEW i \in Incidents, NEW row \in Aggregate, Command(i, row),
           row.version = incidents[i].version, row.severity = incidents[i].severity,
           row.status # "ACTIVE"
    PROVE  IInv'
<1>1. IntakeTypeOK /\ CallsAgree /\ StoreAgrees /\ Learns
    BY LearnsNothing DEF IInv, Command
<1>2. /\ incidents' = [incidents EXCEPT ![i] = Newer(row)] /\ incidents \in [Incidents -> Aggregate]
      /\ workers' = workers /\ cooling' = cooling
    BY <1>1 DEF Command, IntakeTypeOK
<1>3. /\ Newer(row) \in Aggregate /\ Newer(row).status = row.status
      /\ Newer(row).severity = row.severity /\ Newer(row).version = row.version + 1
      /\ row.version \in Nat
    BY NewerFacts
<1>4. incidents' \in [Incidents -> Aggregate] /\ incidents'[i] = Newer(row)
    BY <1>2, <1>3
<1>5. IntakeTypeOK'
    BY <1>1, <1>4, IncidentAssumption DEF Command, IntakeTypeOK
<1>6. Renewed(i) /\ \A j \in Incidents \ {i} : Kept(j)
    BY <1>2, <1>3, <1>4 DEF Renewed, Kept
<1>7. \A v \in Workers : CallOK(workers[v])'
  <2>1. \A j \in Incidents : Kept(j) \/ Renewed(j)
      BY <1>6
  <2> QED BY <1>1, <1>2, <1>4, <2>1, OthersKeep DEF CallsAgree
<1>8. IncidentOK(i)'
  <2>1. IncidentOK(i)
      BY <1>1 DEF StoreAgrees
  <2>2. row.severity # 0 => Sustained(i)'
      BY <1>1, <2>1, SustainedStays DEF IncidentOK, Sound
  <2>3. Sound(i, incidents[i])' /\ Exists(i)'
      BY <1>3, <1>4, <2>2 DEF Sound, Exists
  <2>4. i \in cooling' => incidents'[i].severity # 0
      BY <1>2, <1>3, <1>4, <2>1 DEF IncidentOK
  <2> QED BY <1>1, <2>3, <2>4 DEF IncidentOK, Learns
<1>9. StoreAgrees'
    BY <1>1, <1>6, <1>8, IncidentKeeps DEF StoreAgrees
<1> QED BY <1>5, <1>7, <1>9 DEF IInv, CallsAgree

\* The invariant is inductive.
LEMMA Inductive == IInv /\ [Next]_vars => IInv'
<1> SUFFICES ASSUME IInv, [Next]_vars PROVE IInv'
    OBVIOUS
<1>1. ASSUME NEW w \in Workers, Step(w)
      PROVE  IInv'
    BY <1>1, StepType, StepInductive DEF IInv
<1>2. ASSUME NEW i \in Incidents, Resolve(i) \/ Acknowledge(i)
      PROVE  IInv'
  <2>1. incidents[i] \in Aggregate /\ emitted \in Incidents
      BY RecordedAreEvents DEF IInv, IntakeTypeOK
  <2>2. CASE Resolve(i)
    <3>1. PICK row \in Aggregate : row = Resolved(incidents[i], emitted)
             /\ row.version = incidents[i].version /\ row.status = "RESOLVED"
             /\ row.severity = incidents[i].severity
        BY <2>1, ResolvedFacts
    <3> QED BY <2>2, <3>1, CommandInductive DEF Resolve
  <2>3. CASE Acknowledge(i)
    <3>1. PICK row \in Aggregate : row = [incidents[i] EXCEPT !.status = "ACKNOWLEDGED"]
             /\ row.version = incidents[i].version /\ row.status = "ACKNOWLEDGED"
             /\ row.severity = incidents[i].severity
        BY <2>1, StatusFacts
    <3> QED BY <2>3, <3>1, CommandInductive DEF Acknowledge
  <2> QED BY <1>2, <2>2, <2>3
<1>3. CASE UNCHANGED vars
    BY <1>3 DEF vars, IInv, IntakeTypeOK, CallsAgree, CallOK, StoreAgrees, IncidentOK, RowOK,
                Sound, Sustained, Fresh, Exists, Kind, Severity
<1> QED BY <1>1, <1>2, <1>3, EnvironmentInductive, RecordInductive, RedeliverInductive DEF Next

LEMMA Invariance == Spec => []IInv
    BY Inits, Inductive, PTL DEF Spec

-----------------------------------------------------------------------------
\* Every table holds what it is declared to hold.
THEOREM IntakeTypes == Spec => []IntakeTypeOK
    BY Invariance, PTL DEF IInv

\* An incident is notified for the first time only by two breaching readings of
\* its own, the sustain duration apart, however late they come and whoever
\* inserts them.
THEOREM SpikeAloneActivatesNothing == Spec => []SpikeAloneNeverNotifies
<1>1. IInv => SpikeAloneNeverNotifies
    BY DEF IInv, StoreAgrees, IncidentOK, Sound, Sustained, SpikeAloneNeverNotifies
<1> QED BY <1>1, Invariance, PTL

\* An operator's command keeps what an incident has seen and was notified for.
LEMMA CommandGrows ==
    ASSUME IInv, NEW j \in Incidents, Resolve(j) \/ Acknowledge(j), NEW i \in Incidents
    PROVE  incidents'[i] = incidents[i]
           \/ /\ incidents'[i].last = incidents[i].last
              /\ incidents'[i].count = incidents[i].count
              /\ incidents'[i].severity = incidents[i].severity
              /\ incidents'[i].version = incidents[i].version + 1
<1>1. incidents \in [Incidents -> Aggregate] /\ incidents[j] \in Aggregate
      /\ emitted \in Incidents
    BY RecordedAreEvents DEF IInv, IntakeTypeOK
<1>2. PICK row \in Aggregate :
         /\ incidents' = [incidents EXCEPT ![j] = Newer(row)]
         /\ row.version = incidents[j].version /\ row.severity = incidents[j].severity
         /\ row.last = incidents[j].last /\ row.count = incidents[j].count
  <2>1. CASE Resolve(j)
    <3>1. PICK row \in Aggregate : row = Resolved(incidents[j], emitted)
             /\ row.version = incidents[j].version /\ row.severity = incidents[j].severity
             /\ row.last = incidents[j].last /\ row.count = incidents[j].count
        BY <1>1, ResolvedFacts
    <3> QED BY <2>1, <3>1 DEF Resolve, Command
  <2>2. CASE Acknowledge(j)
    <3>1. PICK row \in Aggregate : row = [incidents[j] EXCEPT !.status = "ACKNOWLEDGED"]
             /\ row.version = incidents[j].version /\ row.severity = incidents[j].severity
             /\ row.last = incidents[j].last /\ row.count = incidents[j].count
        BY <1>1, StatusFacts
    <3> QED BY <2>2, <3>1 DEF Acknowledge, Command
  <2> QED BY <2>1, <2>2
<1> QED BY <1>1, <1>2, NewerFacts

\* A write of a call whose row says no less than the one it replaces.
LEMMA UpdateGrows ==
    ASSUME IInv, NEW w \in Workers, workers[w].pc \in HoldsRow,
           NEW row \in Aggregate, NEW pc, Update(w, row, pc),
           row.version = workers[w].row.version,
           workers[w].row.last <= row.last, workers[w].row.count <= row.count,
           workers[w].row.severity # 0 => row.severity # 0, NEW i \in Incidents
    PROVE  /\ incidents[i].last <= incidents'[i].last
           /\ incidents[i].count <= incidents'[i].count
           /\ incidents[i].version <= incidents'[i].version
           /\ incidents[i].severity # 0 => incidents'[i].severity # 0
<1>1. IntakeTypeOK /\ CallOK(workers[w]) /\ incidents[i] \in Aggregate
    BY DEF IInv, CallsAgree, IntakeTypeOK
<1>2. incidents[i].last \in Nat /\ incidents[i].count \in Nat /\ incidents[i].version \in Nat
    BY <1>1, EventsAreNat DEF Aggregate
<1>3. CASE incidents'[i] = incidents[i]
    BY <1>2, <1>3
<1>4. CASE /\ workers[w].row = incidents[i] /\ incidents'[i] = Newer(row)
           /\ i = workers[w].incident
    BY <1>2, <1>4, NewerFacts
<1> QED BY <1>1, <1>3, <1>4, UpdateFacts

LEMMA StepGrows ==
    ASSUME IInv, NEW w \in Workers, Step(w), NEW i \in Incidents
    PROVE  /\ incidents[i].last <= incidents'[i].last
           /\ incidents[i].count <= incidents'[i].count
           /\ incidents[i].version <= incidents'[i].version
           /\ incidents[i].severity # 0 => incidents'[i].severity # 0
<1>1. /\ workers[w].row \in Aggregate /\ workers[w].event \in Incidents
      /\ workers[w].now \in Incidents /\ incidents \in [Incidents -> Aggregate]
      /\ incidents[i] \in Aggregate /\ IncidentOK(i)
    BY DEF IInv, IntakeTypeOK, Call, StoreAgrees
<1>2. /\ incidents[i].last \in Nat /\ incidents[i].count \in Nat /\ incidents[i].version \in Nat
      /\ workers[w].row.last \in Nat /\ workers[w].row.count \in Nat
    BY <1>1, EventsAreNat DEF Aggregate
<1>3. CASE incidents' = incidents
    BY <1>2, <1>3
<1>4. CASE Repeat(w)
  <2>1. PICK r \in Aggregate :
           /\ Update(w, r, "idle") /\ workers[w].pc \in HoldsRow
           /\ r.version = workers[w].row.version /\ r.severity = workers[w].row.severity
           /\ r.count = workers[w].row.count /\ workers[w].row.last <= r.last
      BY <1>4, RepeatWrites DEF IInv
  <2>2. workers[w].row.count <= r.count
      BY <1>2, <2>1
  <2> QED BY <2>1, <2>2, UpdateGrows
<1>5. CASE Create(w)
  <2>1. PICK r \in Aggregate : r = FirstRow(workers[w].event) /\ r.version = 1
                               /\ r.severity = 0
      BY <1>1, FirstRowFacts
  <2>2. r.last \in Nat /\ r.count = 1
      BY <1>1, <2>1, EventsAreNat, IdleType DEF FirstRow, Aggregate
  <2>3. incidents'[i] = incidents[i] \/ (incidents[i] = NoIncident /\ incidents'[i] = r)
      BY <1>1, <1>5, <2>1 DEF Create, IncidentOK
  <2> QED BY <1>2, <2>1, <2>2, <2>3 DEF NoIncident
<1>6. CASE UpdateOccurrence(w)
  <2>1. PICK r \in Aggregate :
           r = [workers[w].row EXCEPT !.last = Later(@, workers[w].event), !.count = @ + 1]
           /\ r.version = workers[w].row.version /\ r.severity = workers[w].row.severity
           /\ r.count = workers[w].row.count + 1 /\ workers[w].row.last <= r.last
      BY <1>1, OccurrenceFacts
  <2>2. Update(w, r, "binding") /\ workers[w].pc \in HoldsRow
      BY <1>6, <2>1 DEF UpdateOccurrence, HoldsRow
  <2>3. workers[w].row.count <= r.count
      BY <1>2, <2>1
  <2> QED BY <2>1, <2>2, <2>3, UpdateGrows
<1>7. CASE Suspect(w)
  <2>1. PICK r \in Aggregate : r = [workers[w].row EXCEPT !.status = "PENDING"]
           /\ r.version = workers[w].row.version /\ r.severity = workers[w].row.severity
           /\ r.count = workers[w].row.count /\ r.last = workers[w].row.last
      BY <1>1, StatusFacts
  <2>2. Update(w, r, "idle") /\ workers[w].pc \in HoldsRow
      BY <1>7, <2>1 DEF Suspect, HoldsRow
  <2>3. workers[w].row.last <= r.last /\ workers[w].row.count <= r.count
      BY <1>2, <2>1
  <2> QED BY <2>1, <2>2, <2>3, UpdateGrows
<1>8. CASE Activate(w)
  <2>1. PICK severity \in 1..4 : severity = Severity(workers[w].event)
      BY SeverityType
  <2>2. PICK r : r = [workers[w].row EXCEPT !.status = "ACTIVE", !.severity = severity]
      OBVIOUS
  <2>3. r \in Aggregate /\ r.version = workers[w].row.version /\ r.severity = severity
        /\ r.count = workers[w].row.count /\ r.last = workers[w].row.last
      BY <1>1, <2>2, ActiveFacts
  <2>4. Update(w, r, "saving") /\ workers[w].pc \in HoldsRow
      BY <1>8, <2>1, <2>2 DEF Activate, HoldsRow
  <2>5. workers[w].row.last <= r.last /\ workers[w].row.count <= r.count /\ r.severity # 0
      BY <1>2, <2>1, <2>3
  <2> QED BY <2>3, <2>4, <2>5, UpdateGrows
<1>9. CASE Close(w)
  <2>1. PICK r \in Aggregate : r = Resolved(workers[w].row, workers[w].now)
           /\ r.version = workers[w].row.version /\ r.severity = workers[w].row.severity
           /\ r.count = workers[w].row.count /\ r.last = workers[w].row.last
      BY <1>1, ResolvedFacts
  <2>2. Update(w, r, "idle") /\ workers[w].pc \in HoldsRow
      BY <1>9, <2>1 DEF Close, HoldsRow
  <2>3. workers[w].row.last <= r.last /\ workers[w].row.count <= r.count
      BY <1>2, <2>1
  <2> QED BY <2>1, <2>2, <2>3, UpdateGrows
<1> QED BY <1>3, <1>4, <1>5, <1>6, <1>7, <1>8, <1>9 DEF Step, Correlate, Reread, Bind, Sample,
           Judge, Claim, Save, ReadResolved, Crash

\* No step, of a worker or of an operator, makes an incident forget what it has
\* seen, counted or been notified for.
THEOREM IncidentsOnlyGrow == Spec => NothingGoesBack
<1>1. ASSUME IInv, [Next]_vars, NEW i \in Incidents
      PROVE  /\ incidents[i].last <= incidents'[i].last
             /\ incidents[i].count <= incidents'[i].count
             /\ incidents[i].version <= incidents'[i].version
             /\ incidents[i].severity # 0 => incidents'[i].severity # 0
  <2>1. /\ incidents[i].last \in Nat /\ incidents[i].count \in Nat
        /\ incidents[i].version \in Nat
      BY <1>1, EventsAreNat DEF IInv, IntakeTypeOK, Aggregate
  <2>2. CASE incidents' = incidents
      BY <2>1, <2>2
  <2>3. CASE \E w \in Workers : Step(w)
      BY <1>1, <2>3, StepGrows
  <2>4. CASE \E j \in Incidents : Resolve(j) \/ Acknowledge(j)
      BY <1>1, <2>1, <2>4, CommandGrows
  <2> QED BY <1>1, <2>2, <2>3, <2>4 DEF Next, vars, Emit, ClaimExpires, Record, Redeliver,
             CooldownEnds
<1>2. IInv /\ [Next]_vars =>
        [\A i \in Incidents :
          /\ incidents[i].last <= incidents'[i].last
          /\ incidents[i].count <= incidents'[i].count
          /\ incidents[i].version <= incidents'[i].version
          /\ incidents[i].severity # 0 => incidents'[i].severity # 0]_vars
    BY <1>1
<1> QED BY <1>2, Invariance, PTL DEF Spec, NothingGoesBack

\* A step of a worker leaves the others where they are.
LEMMA StepOwns ==
    ASSUME IInv, NEW w \in Workers, Step(w), NEW v \in Workers \ {w}
    PROVE  workers'[v] = workers[v]
<1>1. IntakeTypeOK /\ workers \in [Workers -> Call]
    BY DEF IInv, IntakeTypeOK
<1>2. ASSUME NEW row, NEW pc, Update(w, row, pc)
      PROVE  workers'[v] = workers[v]
  <2>1. CASE Return(w)
      BY <1>1, <2>1, GotoFacts
  <2>2. ASSUME NEW i, GotoWith(w, pc, i, Newer(row))
        PROVE  workers'[v] = workers[v]
      BY <1>1, <2>2, GotoWithFacts
  <2> QED BY <1>2, <2>1, <2>2 DEF Update
<1>3. ASSUME NEW pc, Goto(w, pc)
      PROVE  workers'[v] = workers[v]
    BY <1>3 DEF Goto
<1>4. ASSUME NEW pc, NEW i, NEW row, GotoWith(w, pc, i, row)
      PROVE  workers'[v] = workers[v]
    BY <1>1, <1>4, GotoWithFacts
<1>5. ASSUME Return(w)
      PROVE  workers'[v] = workers[v]
    BY <1>5 DEF Return
<1>6. CASE Repeat(w) \/ UpdateOccurrence(w) \/ Suspect(w) \/ Activate(w) \/ Close(w)
    BY <1>2, <1>6 DEF Repeat, UpdateOccurrence, Suspect, Activate, Close
<1>7. CASE Correlate(w)
    BY <1>3, <1>4, <1>7 DEF Correlate
<1>8. CASE Create(w)
    BY <1>3, <1>4, <1>8 DEF Create
<1>9. CASE Reread(w) \/ ReadResolved(w)
    BY <1>4, <1>9 DEF Reread, ReadResolved
<1>10. CASE Bind(w) \/ Sample(w) \/ Judge(w) \/ Claim(w) \/ Save(w) \/ Crash(w)
  <2>1. Return(w) \/ \E pc : Goto(w, pc)
      BY <1>10 DEF Bind, Sample, Judge, Claim, Save, Crash
  <2> QED BY <1>3, <1>5, <2>1
<1> QED BY <1>6, <1>7, <1>8, <1>9, <1>10 DEF Step

\* A worker that activates during the cooldown has read the row as it is stored,
\* and so knows for what the incident was notified last.
THEOREM CooldownsAreQuiet == Spec => QuietWhileCooling
<1>1. ASSUME IInv, [Next]_vars, NEW i \in Incidents, i \in cooling, Activated(i)
      PROVE  incidents'[i].severity = 1 \/ incidents'[i].severity < incidents[i].severity
  <2>1. PICK w \in Workers : /\ workers[w].incident = i /\ workers[w].pc = "activating"
                             /\ workers'[w].pc = "saving"
      BY <1>1 DEF Activated
  <2>2. /\ IntakeTypeOK /\ CallOK(workers[w]) /\ workers \in [Workers -> Call]
        /\ workers[w].row \in Aggregate /\ workers[w].pc \in HoldsRow
      BY <1>1, <2>1 DEF IInv, IntakeTypeOK, CallsAgree, Call, HoldsRow
  <2>3. ASSUME NEW v \in Workers, Step(v)
        PROVE  Activate(w)
    <3>1. v # w => workers'[w] = workers[w]
        BY <1>1, <2>3, StepOwns
    <3>2. Step(w)
        BY <2>1, <2>3, <3>1
    <3>3. ~Crash(w)
      <4>1. Crash(w) => workers'[w] = Idle
          BY <2>2, GotoFacts DEF Crash
      <4> QED BY <2>1, <4>1 DEF Idle
    <3> QED BY <2>1, <3>2, <3>3 DEF Step, Repeat, Correlate, Create, Reread,
               UpdateOccurrence, Bind, Sample, Judge, Suspect, Claim, Save, ReadResolved, Close
  <2>4. ASSUME NEW v \in Workers, NEW e \in Events, Record(v, e) \/ Redeliver(v, e)
        PROVE  FALSE
    <3>1. v # w
        BY <2>1, <2>4 DEF Record, Redeliver
    <3>2. workers'[w] = workers[w]
        BY <2>2, <2>4, <3>1 DEF Record, Redeliver, GotoWith
    <3> QED BY <2>1, <3>2
  <2>5. workers' # workers
      BY <2>1
  <2>6. Activate(w)
      BY <1>1, <2>3, <2>4, <2>5 DEF Next, vars, Emit, ClaimExpires, CooldownEnds, Resolve,
         Acknowledge, Command
  <2>7. PICK severity \in 1..4 : severity = Severity(workers[w].event)
      BY SeverityType
  <2>8. PICK r : r = [workers[w].row EXCEPT !.status = "ACTIVE", !.severity = severity]
      OBVIOUS
  <2>9. r \in Aggregate /\ r.version = workers[w].row.version /\ r.severity = severity
      BY <2>2, <2>8, ActiveFacts
  <2>10. Update(w, r, "saving")
      BY <2>6, <2>7, <2>8 DEF Activate
  <2>11. workers'[w] # Idle
      BY <2>1 DEF Idle
  <2>12. /\ Fresh(i, workers[w].row) /\ workers[w].row = incidents[i]
         /\ incidents'[i] = Newer(r)
      BY <2>1, <2>2, <2>9, <2>10, <2>11, UpdateFacts
  <2>13. severity = 1 \/ severity < incidents[i].severity
      BY <1>1, <2>1, <2>2, <2>7, <2>12 DEF CallOK
  <2> QED BY <2>9, <2>12, <2>13, NewerFacts
<1>2. IInv /\ [Next]_vars =>
        [\A i \in cooling : Activated(i) =>
          incidents'[i].severity = 1 \/ incidents'[i].severity < incidents[i].severity]_vars
    BY <1>1 DEF IInv, IntakeTypeOK
<1> QED BY <1>2, Invariance, PTL DEF Spec, QuietWhileCooling

\* Who changes an incident that exists has read it as it is.
LEMMA WritesKnowingly ==
    ASSUME IInv, NEW w \in Workers, Step(w), NEW i \in Incidents, Exists(i),
           incidents'[i] # incidents[i]
    PROVE  workers[w].incident = i /\ workers'[w] # workers[w] /\ workers[w].row = incidents[i]
<1>1. /\ IntakeTypeOK /\ CallOK(workers[w]) /\ workers[w].row \in Aggregate
      /\ workers[w].event \in Incidents /\ workers[w].now \in Incidents
      /\ incidents \in [Incidents -> Aggregate]
    BY DEF IInv, IntakeTypeOK, CallsAgree, Call
<1>2. ASSUME NEW row \in Aggregate, row.version = workers[w].row.version,
             NEW pc, Update(w, row, pc), workers[w].pc \in HoldsRow, pc # workers[w].pc
      PROVE  workers[w].incident = i /\ workers'[w] # workers[w] /\ workers[w].row = incidents[i]
  <2>1. workers'[w].pc # workers[w].pc
      BY <1>1, <1>2, UpdateFacts DEF Idle, HoldsRow
  <2>2. workers[w].incident = i
      BY <1>1, <1>2, UpdateFacts
  <2> QED BY <1>1, <1>2, <2>1, <2>2, UpdateFacts
<1>3. CASE Repeat(w)
  <2>1. PICK r \in Aggregate : r.version = workers[w].row.version /\ Update(w, r, "idle")
                               /\ workers[w].pc \in HoldsRow
      BY <1>3, RepeatWrites DEF IInv
  <2> QED BY <1>2, <2>1 DEF HoldsRow
<1>4. CASE Create(w)
    BY <1>1, <1>4 DEF Create
<1>5. CASE UpdateOccurrence(w)
  <2>1. PICK r \in Aggregate :
           r = [workers[w].row EXCEPT !.last = Later(@, workers[w].event), !.count = @ + 1]
           /\ r.version = workers[w].row.version
      BY <1>1, OccurrenceFacts
  <2> QED BY <1>2, <1>5, <2>1 DEF UpdateOccurrence, HoldsRow
<1>6. CASE Suspect(w)
  <2>1. PICK r \in Aggregate : r = [workers[w].row EXCEPT !.status = "PENDING"]
           /\ r.version = workers[w].row.version
      BY <1>1, StatusFacts
  <2> QED BY <1>2, <1>6, <2>1 DEF Suspect, HoldsRow
<1>7. CASE Activate(w)
  <2>1. PICK severity \in 1..4 : severity = Severity(workers[w].event)
      BY SeverityType
  <2>2. PICK r : r = [workers[w].row EXCEPT !.status = "ACTIVE", !.severity = severity]
      OBVIOUS
  <2>3. r \in Aggregate /\ r.version = workers[w].row.version
      BY <1>1, <2>2, ActiveFacts
  <2> QED BY <1>2, <1>7, <2>1, <2>2, <2>3 DEF Activate, HoldsRow
<1>8. CASE Close(w)
  <2>1. PICK r \in Aggregate : r = Resolved(workers[w].row, workers[w].now)
           /\ r.version = workers[w].row.version
      BY <1>1, ResolvedFacts
  <2> QED BY <1>2, <1>8, <2>1 DEF Close, HoldsRow
<1> QED BY <1>3, <1>4, <1>5, <1>6, <1>7, <1>8 DEF Step, Correlate, Reread, Bind, Sample,
           Judge, Claim, Save, ReadResolved, Crash

\* No resolution is overlooked: a worker that takes an incident out of RESOLVED
\* held the resolved row itself.
THEOREM ResolutionsAreSeen == Spec => NoUnseenReopen
<1>1. ASSUME IInv, [Next]_vars, NEW i \in Incidents, Reopened(i)
      PROVE  \/ UNCHANGED workers
             \/ \E w \in Workers : workers[w].incident = i /\ workers'[w] # workers[w]
                                   /\ workers[w].row = incidents[i]
  <2>1. incidents'[i] # incidents[i] /\ Exists(i)
      BY <1>1 DEF Reopened, IInv, StoreAgrees, IncidentOK, NoIncident
  <2>2. CASE \E w \in Workers : Step(w)
      BY <1>1, <2>1, <2>2, WritesKnowingly
  <2> QED BY <1>1, <2>1, <2>2 DEF Next, vars, Emit, ClaimExpires, Record, Redeliver,
             CooldownEnds, Resolve, Acknowledge, Command
<1>2. IInv /\ [Next]_vars =>
        [\A i \in Incidents : Reopened(i) =>
          \/ UNCHANGED workers
          \/ \E w \in Workers : workers[w].incident = i /\ workers'[w] # workers[w]
                                /\ workers[w].row = incidents[i]]_vars
    BY <1>1
<1> QED BY <1>2, Invariance, PTL DEF Spec, NoUnseenReopen

-----------------------------------------------------------------------------
(***************************************************************************)
(* The ledger.  Every occurrence counted is credited to the event whose    *)
(* call counted it.  The credit is no variable of the engine: a step that  *)
(* counts extends the one there was, any other step keeps it.              *)
(***************************************************************************)
Credits == [Events -> Incidents \cup {None}]

\* The steps of a call that has not counted its event yet, and has not linked it.
Uncounted == {"correlating", "creating", "rereading", "opening", "updating", "refusing"}
Unlinked == Uncounted \cup {"binding"}

Share(credit, i) == {e \in recorded : credit[e] = i}

\* What the credit says of a call's event at each of its steps.
CallFits(credit, c) ==
    /\ c.pc \in Uncounted => credit[c.event] = None
    /\ c.pc \in Unlinked => links[c.event] = None
    /\ c.pc \in {"binding", "sampling"} =>
          credit[c.event] = c.incident /\ c.event <= incidents[c.incident].last
    /\ c.pc = "sampling" => links[c.event] = c.incident
    /\ c.pc \in HoldsRow => Exists(c.incident)

EventFits(credit, e) ==
    /\ credit[e] # None => e \in recorded
    /\ links[e] # None => e \in recorded /\ Exists(links[e])

ReadingsFit(credit, i) ==
    \A e \in samples[i] : e \in Share(credit, i) /\ links[e] = i /\ e <= incidents[i].last

CountFits(credit, i) == incidents[i].count = Cardinality(Share(credit, i))

\* Two calls never work on one event.
EventsOwned ==
    \A v, w \in Workers : v # w /\ workers[v].pc \in Working /\ workers[w].pc \in Working =>
        workers[v].event # workers[w].event

LedgerFits(credit) ==
    /\ \A e \in Events : EventFits(credit, e)
    /\ \A i \in Incidents : CountFits(credit, i) /\ ReadingsFit(credit, i)
    /\ \A w \in Workers : CallFits(credit, workers[w])

LedgerInv == IInv /\ EventsOwned /\ \E credit \in Credits : LedgerFits(credit)

\* The recorded events are finitely many.
LEMMA SharesAreFinite ==
    ASSUME IntakeTypeOK, NEW credit, NEW i
    PROVE  IsFiniteSet(recorded) /\ IsFiniteSet(Share(credit, i))
           /\ Cardinality(Share(credit, i)) \in Nat
<1>1. emitted \in Nat /\ recorded \in SUBSET (1..emitted)
    BY RecordedAreEvents, EventsAreNat DEF IntakeTypeOK
<1>2. IsFiniteSet(1..emitted)
    BY <1>1, FS_Interval
<1>3. IsFiniteSet(recorded)
    BY <1>1, <1>2, FS_Subset
<1>4. Share(credit, i) \in SUBSET recorded
    BY DEF Share
<1>5. IsFiniteSet(Share(credit, i))
    BY <1>3, <1>4, FS_Subset
<1> QED BY <1>3, <1>5, FS_CardinalityType

\* The ledger says what the tables are to agree on.
LEMMA LedgerAgrees == LedgerInv => EventTablesAgree
<1> SUFFICES ASSUME LedgerInv PROVE EventTablesAgree
    OBVIOUS
<1>1. PICK credit \in Credits : LedgerFits(credit)
    BY DEF LedgerInv
<1>2. IntakeTypeOK /\ recorded \subseteq Events
    BY RecordedAreEvents DEF LedgerInv, IInv
<1>3. \A i \in Incidents : samples[i] \in SUBSET Events
    BY <1>2 DEF IntakeTypeOK
<1>4. OccurrencesAreSourceEvents
  <2>1. PICK part : part = [e \in recorded |-> credit[e]]
      OBVIOUS
  <2>2. part \in [recorded -> Incidents \cup {None}]
      BY <1>2, <2>1 DEF Credits
  <2>3. \A i \in Incidents : {e \in recorded : part[e] = i} = Share(credit, i)
      BY <2>1 DEF Share
  <2>4. \A i \in Incidents : incidents[i].count <= Cardinality(Share(credit, i))
      BY <1>1, <1>2, SharesAreFinite DEF LedgerFits, CountFits
  <2>5. \A i \in Incidents : incidents[i].count <= Cardinality({e \in recorded : part[e] = i})
      BY <2>3, <2>4
  <2> QED BY <2>2, <2>5 DEF OccurrencesAreSourceEvents
<1>5. ASSUME NEW i \in Incidents
      PROVE  Cardinality(samples[i]) <= incidents[i].count
  <2>1. samples[i] \in SUBSET Share(credit, i)
      BY <1>1 DEF LedgerFits, ReadingsFit
  <2> QED BY <1>1, <1>2, <2>1, SharesAreFinite, FS_Subset DEF LedgerFits, CountFits
<1>6. ReadingsAreLinkedOccurrences
    BY <1>1, <1>5 DEF ReadingsAreLinkedOccurrences, LedgerFits, EventFits, ReadingsFit
<1> QED BY <1>4, <1>6 DEF EventTablesAgree

LEMMA LedgerStarts == Init => LedgerInv
<1> SUFFICES ASSUME Init PROVE LedgerInv
    OBVIOUS
<1>1. PICK credit : credit = [e \in Events |-> None]
    OBVIOUS
<1>2. credit \in Credits /\ recorded = {}
    BY <1>1 DEF Credits, Init
<1>3. \A i : Share(credit, i) = {}
    BY <1>2 DEF Share
<1>4. \A i \in Incidents : incidents[i].count = 0 /\ samples[i] = {}
    BY DEF Init, NoIncident
<1>5. \A e \in Events : EventFits(credit, e)
    BY <1>1 DEF EventFits, Init
<1>6. \A i \in Incidents : CountFits(credit, i) /\ ReadingsFit(credit, i)
    BY <1>3, <1>4, FS_EmptySet DEF CountFits, ReadingsFit
<1>7. \A w \in Workers : workers[w].pc = "idle"
    BY DEF Init, Idle
<1>8. \A w \in Workers : CallFits(credit, workers[w])
    BY <1>7 DEF CallFits, Uncounted, Unlinked, HoldsRow
<1>9. EventsOwned
    BY <1>7 DEF EventsOwned, Working
<1> QED BY <1>2, <1>5, <1>6, <1>8, <1>9, Inits DEF LedgerInv, LedgerFits

-----------------------------------------------------------------------------
\* Incidents only learn: what they have seen and that they exist.
Learn ==
    \A i \in Incidents : /\ incidents[i].last <= incidents'[i].last
                         /\ incidents[i].version <= incidents'[i].version

\* A call that a step does not move fits as before, when its event's credit and
\* link stay.
LEMMA CallStays ==
    ASSUME IntakeTypeOK, IntakeTypeOK', Learn, NEW credit, NEW more, NEW c \in Call,
           CallFits(credit, c),
           c.pc \in Working => more[c.event] = credit[c.event]
                               /\ links'[c.event] = links[c.event]
    PROVE  /\ c.pc \in Uncounted => more[c.event] = None
           /\ c.pc \in Unlinked => links'[c.event] = None
           /\ c.pc \in {"binding", "sampling"} =>
                 more[c.event] = c.incident /\ c.event <= incidents'[c.incident].last
           /\ c.pc = "sampling" => links'[c.event] = c.incident
           /\ c.pc \in HoldsRow => incidents'[c.incident].version > 0
<1>1. c.event \in Nat /\ c.incident \in Incidents
    BY EventsAreNat DEF Call
<1>2. incidents[c.incident] \in Aggregate /\ incidents'[c.incident] \in Aggregate
    BY <1>1 DEF IntakeTypeOK
<1>3. /\ incidents[c.incident].last \in Nat /\ incidents'[c.incident].last \in Nat
      /\ incidents[c.incident].version \in Nat /\ incidents'[c.incident].version \in Nat
    BY <1>2, EventsAreNat DEF Aggregate
<1>4. /\ incidents[c.incident].last <= incidents'[c.incident].last
      /\ incidents[c.incident].version <= incidents'[c.incident].version
    BY <1>1 DEF Learn
<1>5. c.pc \in Unlinked \cup {"sampling"} => c.pc \in Working
    BY DEF Unlinked, Uncounted, Working
<1>6. c.pc \in HoldsRow => incidents'[c.incident].version > 0
    BY <1>3, <1>4 DEF CallFits, Exists
<1>7. c.pc \in {"binding", "sampling"} => c.event <= incidents'[c.incident].last
    BY <1>1, <1>3, <1>4 DEF CallFits
<1>8. c.pc \in Uncounted => c.pc \in Unlinked
    BY DEF Unlinked
<1>9. c.pc \in {"binding", "sampling"} => c.pc \in Unlinked \cup {"sampling"}
    BY DEF Unlinked
<1> QED BY <1>5, <1>6, <1>7, <1>8, <1>9 DEF CallFits

\* The part of the ledger about the tables, when only incidents learn.
LEMMA TablesStay ==
    ASSUME IntakeTypeOK, IntakeTypeOK', Learn, NEW credit \in Credits, LedgerFits(credit),
           recorded' = recorded, links' = links, samples' = samples,
           \A i \in Incidents : incidents'[i].count = incidents[i].count
    PROVE  /\ \A e \in Events : EventFits(credit, e)'
           /\ \A i \in Incidents : CountFits(credit, i)' /\ ReadingsFit(credit, i)'
<1>1. \A i : Share(credit, i)' = Share(credit, i)
    BY DEF Share
<1>2. \A i \in Incidents :
         /\ incidents[i].last \in Nat /\ incidents'[i].last \in Nat
         /\ incidents[i].version \in Nat /\ incidents'[i].version \in Nat
    BY EventsAreNat DEF IntakeTypeOK, Aggregate
<1>3. ASSUME NEW e \in Events
      PROVE  EventFits(credit, e)'
  <2>1. links[e] \in Incidents \cup {None} /\ EventFits(credit, e)
      BY DEF IntakeTypeOK, LedgerFits
  <2>2. \A i \in Incidents : Exists(i) => Exists(i)'
      BY <1>2 DEF Exists, Learn
  <2>3. links[e] # None => Exists(links[e])'
      BY <2>1, <2>2 DEF EventFits
  <2> QED BY <2>1, <2>3 DEF EventFits, Exists
<1>4. ASSUME NEW i \in Incidents
      PROVE  CountFits(credit, i)' /\ ReadingsFit(credit, i)'
  <2>1. CountFits(credit, i) /\ ReadingsFit(credit, i)
      BY DEF LedgerFits
  <2>2. CountFits(credit, i)'
      BY <1>1, <2>1 DEF CountFits
  <2>3. samples[i] \subseteq Nat
      BY EventsAreNat DEF IntakeTypeOK
  <2>4. ReadingsFit(credit, i)'
      BY <1>1, <1>2, <2>1, <2>3 DEF ReadingsFit, Learn
  <2> QED BY <2>2, <2>4
<1> QED BY <1>3, <1>4

\* What a step leaves of the ownership of events: the call that moved works on
\* the event it worked on.
LEMMA OwnedStays ==
    ASSUME EventsOwned, NEW w \in Workers,
           \A v \in Workers \ {w} : workers'[v] = workers[v],
           workers'[w].pc \in Working =>
               workers[w].pc \in Working /\ workers'[w].event = workers[w].event
    PROVE  EventsOwned'
    BY DEF EventsOwned

\* A step that counts, links and inserts nothing keeps the ledger.
LEMMA QuietKeeps ==
    ASSUME IntakeTypeOK, IntakeTypeOK', Learn, EventsOwned,
           NEW credit \in Credits, LedgerFits(credit),
           recorded' = recorded, links' = links, samples' = samples,
           \A i \in Incidents : incidents'[i].count = incidents[i].count,
           NEW w \in Workers, \A v \in Workers \ {w} : workers'[v] = workers[v],
           CallFits(credit, workers[w])',
           workers'[w].pc \in Working =>
               workers[w].pc \in Working /\ workers'[w].event = workers[w].event
    PROVE  EventsOwned' /\ LedgerFits(credit)'
<1>1. ASSUME NEW v \in Workers
      PROVE  CallFits(credit, workers[v])'
  <2>1. CASE v = w
      BY <2>1
  <2>2. CASE v # w
    <3>1. workers'[v] = workers[v] /\ workers[v] \in Call /\ CallFits(credit, workers[v])
        BY <2>2 DEF IntakeTypeOK, LedgerFits
    <3> QED BY <3>1, CallStays DEF CallFits, Exists
  <2> QED BY <2>1, <2>2
<1>2. /\ \A e \in Events : EventFits(credit, e)'
      /\ \A i \in Incidents : CountFits(credit, i)' /\ ReadingsFit(credit, i)'
    BY TablesStay
<1>3. EventsOwned'
    BY OwnedStays
<1>4. LedgerFits(credit)'
    BY <1>1, <1>2 DEF LedgerFits
<1> QED BY <1>3, <1>4

\* A call that has ended, or that went on without its event's credit or link
\* being at stake.
LEMMA IdleFits ==
    ASSUME NEW credit, NEW w \in Workers, workers'[w] = Idle
    PROVE  CallFits(credit, workers[w])' /\ workers'[w].pc \notin Working
<1>1. workers'[w].pc = "idle"
    BY DEF Idle
<1> QED BY <1>1 DEF CallFits, Uncounted, Unlinked, HoldsRow, Working

\* A write that adds no occurrence.
LEMMA WriteCountsNothing ==
    ASSUME IInv, NEW w \in Workers, workers[w].pc \in HoldsRow, NEW row \in Aggregate,
           row.version = workers[w].row.version, row.count = workers[w].row.count,
           NEW pc, Update(w, row, pc), NEW i \in Incidents
    PROVE  incidents'[i].count = incidents[i].count
<1>1. IntakeTypeOK /\ CallOK(workers[w])
    BY DEF IInv, CallsAgree
<1> QED BY <1>1, UpdateFacts, NewerFacts

\* What the plain writes leave: no occurrence more, and a call that has ended or
\* goes on to the notification.
LEMMA PlainWrite ==
    ASSUME IInv, NEW w \in Workers,
           Repeat(w) \/ Suspect(w) \/ Activate(w) \/ Close(w)
    PROVE  /\ \A i \in Incidents : incidents'[i].count = incidents[i].count
           /\ workers[w].pc \in HoldsRow
           /\ workers'[w] = Idle
              \/ /\ workers'[w].pc = "saving" /\ workers[w].pc = "activating"
                 /\ workers'[w].incident = workers[w].incident
                 /\ workers'[w].event = workers[w].event
<1>1. /\ IntakeTypeOK /\ CallOK(workers[w]) /\ workers[w].row \in Aggregate
      /\ workers[w].event \in Incidents /\ workers[w].now \in Incidents
      /\ incidents \in [Incidents -> Aggregate]
    BY DEF IInv, IntakeTypeOK, CallsAgree, Call
<1>2. ASSUME NEW row \in Aggregate, row.version = workers[w].row.version,
             row.count = workers[w].row.count,
             NEW pc, Update(w, row, pc), workers[w].pc \in HoldsRow
      PROVE  /\ \A i \in Incidents : incidents'[i].count = incidents[i].count
             /\ workers[w].pc \in HoldsRow
             /\ workers'[w] = Idle
                \/ /\ workers'[w].pc = pc
                   /\ workers'[w].incident = workers[w].incident
                   /\ workers'[w].event = workers[w].event
  <2>1. \A i \in Incidents : incidents'[i].count = incidents[i].count
      BY <1>2, WriteCountsNothing
  <2>2. ASSUME GotoWith(w, pc, workers[w].incident, Newer(row))
        PROVE  workers'[w].pc = pc /\ workers'[w].incident = workers[w].incident
               /\ workers'[w].event = workers[w].event
      BY <1>1, <2>2, GotoWithFacts
  <2>3. ASSUME Return(w)
        PROVE  workers'[w] = Idle
      BY <1>1, <2>3 DEF Return, IntakeTypeOK
  <2> QED BY <1>2, <2>1, <2>2, <2>3 DEF Update
<1>3. CASE Repeat(w)
  <2>1. PICK r \in Aggregate :
           /\ Update(w, r, "idle") /\ workers[w].pc \in HoldsRow
           /\ r.version = workers[w].row.version /\ r.count = workers[w].row.count
      BY <1>1, <1>3, RepeatWrites
  <2>2. workers'[w] = Idle
      BY <2>1, <1>1 DEF Update, Return, IntakeTypeOK
  <2> QED BY <1>2, <2>1, <2>2
<1>4. CASE Suspect(w)
  <2>1. PICK r \in Aggregate : r = [workers[w].row EXCEPT !.status = "PENDING"]
           /\ r.version = workers[w].row.version /\ r.count = workers[w].row.count
      BY <1>1, StatusFacts
  <2>2. Update(w, r, "idle") /\ workers[w].pc \in HoldsRow
      BY <1>4, <2>1 DEF Suspect, HoldsRow
  <2>3. workers'[w] = Idle
      BY <2>2, <1>1 DEF Update, Return, IntakeTypeOK
  <2> QED BY <1>2, <2>1, <2>2, <2>3
<1>5. CASE Activate(w)
  <2>1. PICK severity \in 1..4 : severity = Severity(workers[w].event)
      BY SeverityType
  <2>2. PICK r : r = [workers[w].row EXCEPT !.status = "ACTIVE", !.severity = severity]
      OBVIOUS
  <2>3. r \in Aggregate /\ r.version = workers[w].row.version
        /\ r.count = workers[w].row.count
      BY <1>1, <2>2, ActiveFacts
  <2>4. Update(w, r, "saving") /\ workers[w].pc \in HoldsRow
      BY <1>5, <2>1, <2>2 DEF Activate, HoldsRow
  <2> QED BY <1>2, <1>5, <2>3, <2>4 DEF Activate
<1>6. CASE Close(w)
  <2>1. PICK r \in Aggregate : r = Resolved(workers[w].row, workers[w].now)
           /\ r.version = workers[w].row.version /\ r.count = workers[w].row.count
      BY <1>1, ResolvedFacts
  <2>2. Update(w, r, "idle") /\ workers[w].pc \in HoldsRow
      BY <1>6, <2>1 DEF Close, HoldsRow
  <2>3. workers'[w] = Idle
      BY <2>2, <1>1 DEF Update, Return, IntakeTypeOK
  <2> QED BY <1>2, <2>1, <2>2, <2>3
<1> QED BY <1>3, <1>4, <1>5, <1>6

\* The steps of a call that neither count nor link nor insert.
LEMMA QuietSteps ==
    ASSUME LedgerInv, NEW w \in Workers, Step(w), IntakeTypeOK',
           NEW credit \in Credits, LedgerFits(credit),
           \/ Repeat(w) \/ Suspect(w) \/ Activate(w) \/ Close(w)
           \/ Correlate(w) \/ Reread(w) \/ Judge(w) \/ Claim(w) \/ Save(w)
           \/ ReadResolved(w) \/ Crash(w)
    PROVE  EventsOwned' /\ LedgerFits(credit)'
<1>1. IInv /\ IntakeTypeOK /\ EventsOwned /\ workers[w] \in Call
      /\ workers \in [Workers -> Call] /\ CallFits(credit, workers[w])
    BY DEF LedgerInv, IInv, IntakeTypeOK, LedgerFits
<1>2. Learn
    BY <1>1, StepGrows DEF Learn
<1>3. \A v \in Workers \ {w} : workers'[v] = workers[v]
    BY <1>1, StepOwns
<1>4. recorded' = recorded /\ links' = links /\ samples' = samples
    BY DEF Repeat, Suspect, Activate, Close, Correlate, Reread, Judge, Claim, Save,
           ReadResolved, Crash
<1>5. \A i \in Incidents : incidents'[i].count = incidents[i].count
    BY <1>1, PlainWrite DEF Correlate, Reread, Judge, Claim, Save, ReadResolved, Crash
<1>6. ASSUME CallFits(credit, workers[w])',
             workers'[w].pc \in Working =>
                 workers[w].pc \in Working /\ workers'[w].event = workers[w].event
      PROVE  EventsOwned' /\ LedgerFits(credit)'
    BY <1>1, <1>2, <1>3, <1>4, <1>5, <1>6, QuietKeeps
<1>7. CASE workers'[w] = Idle
    BY <1>6, <1>7, IdleFits
<1>8. \A i \in Incidents : Exists(i) => incidents'[i].version > 0
    <2>1. \A i \in Incidents : incidents[i].version \in Nat /\ incidents'[i].version \in Nat
        BY <1>1 DEF IntakeTypeOK, Aggregate
    <2> QED BY <1>2, <2>1 DEF Learn, Exists
<1>9. ASSUME workers'[w].pc \in {"judging", "suspecting", "claiming", "activating", "saving",
                                 "resolving", "closing"},
             workers[w].pc \in HoldsRow \cap Working,
             workers'[w].event = workers[w].event,
             workers'[w].incident = workers[w].incident
      PROVE  EventsOwned' /\ LedgerFits(credit)'
  <2>1. workers[w].incident \in Incidents /\ Exists(workers[w].incident)
      BY <1>1, <1>9 DEF Call, CallFits
  <2>2. CallFits(credit, workers[w])'
      BY <1>8, <1>9, <2>1 DEF CallFits, Uncounted, Unlinked, Exists
  <2> QED BY <1>6, <1>9, <2>2
<1>10. ASSUME workers'[w].pc \in Uncounted, workers[w].pc \in Uncounted,
              workers'[w].event = workers[w].event,
              workers'[w].pc \in HoldsRow =>
                  workers'[w].incident \in Incidents /\ Exists(workers'[w].incident)
       PROVE  EventsOwned' /\ LedgerFits(credit)'
  <2>1. credit[workers'[w].event] = None /\ links'[workers'[w].event] = None
      BY <1>1, <1>4, <1>10 DEF CallFits, Unlinked
  <2>2. CallFits(credit, workers[w])'
      BY <1>8, <1>10, <2>1 DEF CallFits, Uncounted, Unlinked, Exists
  <2>3. workers[w].pc \in Working
      BY <1>10 DEF Working, Uncounted
  <2> QED BY <1>6, <1>10, <2>2, <2>3
<1>11. CASE Repeat(w) \/ Suspect(w) \/ Activate(w) \/ Close(w)
    BY <1>1, <1>7, <1>9, <1>11, PlainWrite DEF Working, HoldsRow
<1>12. CASE Judge(w) \/ Claim(w)
  <2>1. Return(w) => workers'[w] = Idle
      BY <1>1, GotoFacts
  <2>2. ASSUME NEW pc, Goto(w, pc)
        PROVE  workers'[w].pc = pc /\ workers'[w].event = workers[w].event
               /\ workers'[w].incident = workers[w].incident
      BY <1>1, <2>2, GotoFacts
  <2>3. Return(w) \/ \E pc \in {"claiming", "resolving", "suspecting", "activating"} : Goto(w, pc)
      BY <1>12 DEF Judge, Claim
  <2>4. workers[w].pc \in HoldsRow \cap Working
      BY <1>12 DEF Judge, Claim, HoldsRow, Working
  <2> QED BY <1>7, <1>9, <2>1, <2>2, <2>3, <2>4
<1>13. CASE Save(w) \/ Crash(w)
    BY <1>1, <1>7, <1>13, GotoFacts DEF Save, Crash
<1>14. CASE ReadResolved(w)
  <2>1. GotoWith(w, "closing", workers[w].incident, incidents[workers[w].incident])
        /\ workers[w].pc = "resolving"
      BY <1>14 DEF ReadResolved
  <2>2. workers'[w].pc = "closing" /\ workers'[w].event = workers[w].event
        /\ workers'[w].incident = workers[w].incident
      BY <1>1, <2>1, GotoWithFacts
  <2> QED BY <1>9, <2>1, <2>2 DEF HoldsRow, Working
<1>15. CASE Correlate(w)
  <2>1. \/ Goto(w, "creating") \/ Goto(w, "opening")
        \/ \E i \in Incidents, pc \in {"refusing", "updating"} :
              Exists(i) /\ GotoWith(w, pc, i, incidents[i])
      BY <1>15 DEF Correlate, SeenLast
  <2>2. ASSUME NEW pc \in {"creating", "opening"}, Goto(w, pc)
        PROVE  workers'[w].pc = pc /\ workers'[w].event = workers[w].event
      BY <1>1, <2>2, GotoFacts
  <2>3. ASSUME NEW i, NEW pc, NEW row, GotoWith(w, pc, i, row)
        PROVE  workers'[w].pc = pc /\ workers'[w].event = workers[w].event
               /\ workers'[w].incident = i
      BY <1>1, <2>3, GotoWithFacts
  <2>4. workers[w].pc \in Uncounted
      BY <1>15 DEF Correlate, Uncounted
  <2>5. CASE Goto(w, "creating") \/ Goto(w, "opening")
      BY <1>10, <2>2, <2>4, <2>5 DEF Uncounted, HoldsRow
  <2>6. CASE \E i \in Incidents, pc \in {"refusing", "updating"} :
              Exists(i) /\ GotoWith(w, pc, i, incidents[i])
      BY <1>10, <2>3, <2>4, <2>6 DEF Uncounted, HoldsRow
  <2> QED BY <2>1, <2>5, <2>6
<1>16. CASE Reread(w)
  <2>1. PICK i \in Incidents : Exists(i) /\ GotoWith(w, "updating", i, incidents[i])
      BY <1>16 DEF Reread, SeenLast
  <2>2. workers'[w].pc = "updating" /\ workers'[w].event = workers[w].event
        /\ workers'[w].incident = i
      BY <1>1, <2>1, GotoWithFacts
  <2> QED BY <1>10, <1>16, <2>1, <2>2 DEF Reread, Uncounted
<1> QED BY <1>11, <1>12, <1>13, <1>14, <1>15, <1>16

-----------------------------------------------------------------------------
\* The occurrence that a call counts is credited to its event, which no
\* occurrence was credited to.
LEMMA CountKeeps ==
    ASSUME IInv, IntakeTypeOK', Learn, EventsOwned,
           NEW credit \in Credits, LedgerFits(credit),
           recorded' = recorded, links' = links, samples' = samples,
           NEW w \in Workers, \A v \in Workers \ {w} : workers'[v] = workers[v],
           workers[w].pc \in Uncounted, workers[w].event \in recorded,
           NEW i \in Incidents, incidents'[i].count = incidents[i].count + 1,
           \A j \in Incidents \ {i} : incidents'[j].count = incidents[j].count,
           workers[w].event <= incidents'[i].last, incidents'[i].version > 0,
           workers'[w].pc = "binding", workers'[w].event = workers[w].event,
           workers'[w].incident = i
    PROVE  EventsOwned' /\ \E more \in Credits : LedgerFits(more)'
<1>0. IntakeTypeOK /\ CallsAgree
    BY DEF IInv
<1>1. PICK e \in Events : e = workers[w].event /\ e \in recorded
    BY <1>0, RecordedAreEvents
<1>2. PICK more : more = [credit EXCEPT ![e] = i]
    OBVIOUS
<1>3. more \in Credits /\ more[e] = i /\ \A f \in Events \ {e} : more[f] = credit[f]
    BY <1>2 DEF Credits
<1>4. credit[e] = None /\ links[e] = None /\ None \notin Incidents
    BY <1>1, EventsAreNat DEF LedgerFits, CallFits, Unlinked, None
<1>5. recorded \subseteq Events
    BY <1>0, RecordedAreEvents
<1>6. Share(more, i)' = Share(credit, i) \cup {e} /\ e \notin Share(credit, i)
    BY <1>1, <1>3, <1>4, <1>5 DEF Share
<1>7. \A j \in Incidents \ {i} : Share(more, j)' = Share(credit, j)
    BY <1>1, <1>3, <1>4, <1>5 DEF Share
<1>8. Cardinality(Share(more, i)') = Cardinality(Share(credit, i)) + 1
    BY <1>0, <1>6, SharesAreFinite, FS_AddElement
<1>9. \A j \in Incidents : /\ incidents[j].last \in Nat /\ incidents'[j].last \in Nat
                           /\ incidents[j].version \in Nat /\ incidents'[j].version \in Nat
    BY <1>0, EventsAreNat DEF IntakeTypeOK, Aggregate
<1>10. ASSUME NEW f \in Events
       PROVE  EventFits(more, f)'
  <2>1. links[f] \in Incidents \cup {None} /\ EventFits(credit, f)
      BY <1>0 DEF IntakeTypeOK, LedgerFits
  <2>2. \A j \in Incidents : Exists(j) => Exists(j)'
      BY <1>9 DEF Exists, Learn
  <2>3. links[f] # None => Exists(links[f])'
      BY <2>1, <2>2 DEF EventFits
  <2> QED BY <1>1, <1>3, <2>1, <2>3 DEF EventFits, Exists
<1>11. ASSUME NEW j \in Incidents
       PROVE  CountFits(more, j)' /\ ReadingsFit(more, j)'
  <2>1. CountFits(credit, j) /\ ReadingsFit(credit, j)
      BY DEF LedgerFits
  <2>2. CountFits(more, j)'
      BY <1>7, <1>8, <2>1 DEF CountFits
  <2>3. samples[j] \subseteq Nat /\ Share(credit, j) \subseteq Share(more, j)'
      BY <1>0, <1>6, <1>7, EventsAreNat DEF IntakeTypeOK
  <2>4. ReadingsFit(more, j)'
      BY <1>9, <2>1, <2>3 DEF ReadingsFit, Learn
  <2> QED BY <2>2, <2>4
<1>12. ASSUME NEW v \in Workers
       PROVE  CallFits(more, workers[v])'
  <2>1. CASE v = w
      BY <1>1, <1>3, <1>4, <2>1 DEF CallFits, Uncounted, Unlinked, HoldsRow, Exists
  <2>2. CASE v # w
    <3>1. workers'[v] = workers[v] /\ workers[v] \in Call /\ CallFits(credit, workers[v])
        BY <1>0, <2>2 DEF IntakeTypeOK, LedgerFits
    <3>2. workers[w].pc \in Working
        BY DEF Working, Uncounted
    <3>3. ASSUME workers[v].pc \in Working
          PROVE  more[workers[v].event] = credit[workers[v].event]
      <4>1. workers[v].event # e
          BY <1>1, <2>2, <3>2, <3>3 DEF EventsOwned
      <4>2. workers[v].event \in Events
          BY <1>0, <1>5, <3>3 DEF CallsAgree, CallOK
      <4> QED BY <1>3, <4>1, <4>2
    <3> QED BY <1>0, <3>1, <3>3, CallStays DEF CallFits, Exists
  <2> QED BY <2>1, <2>2
<1>13. LedgerFits(more)'
    BY <1>10, <1>11, <1>12 DEF LedgerFits
<1>14. EventsOwned'
    BY OwnedStays DEF Working, Uncounted
<1> QED BY <1>3, <1>13, <1>14

\* create_incident counts the event that opens the incident; the loser of the
\* race counts nothing.
LEMMA CreateLedger ==
    ASSUME LedgerInv, NEW w \in Workers, Step(w), Create(w), IntakeTypeOK'
    PROVE  EventsOwned' /\ \E credit \in Credits : LedgerFits(credit)'
<1>1. IInv /\ IntakeTypeOK /\ EventsOwned /\ workers \in [Workers -> Call]
      /\ CallOK(workers[w]) /\ workers[w].event \in Incidents /\ workers[w] \in Call
    BY DEF LedgerInv, IInv, IntakeTypeOK, CallsAgree, Call
<1>2. PICK credit \in Credits : LedgerFits(credit)
    BY DEF LedgerInv
<1>3. Learn
    BY <1>1, StepGrows DEF Learn
<1>4. \A v \in Workers \ {w} : workers'[v] = workers[v]
    BY <1>1, StepOwns
<1>5. recorded' = recorded /\ links' = links /\ samples' = samples
    BY DEF Create
<1>6. workers[w].pc \in Uncounted /\ workers[w].pc \in Working /\ workers[w].event \in recorded
    BY <1>1 DEF Create, Uncounted, Working, CallOK
<1>7. PICK i \in Incidents : i = IF workers[w].pc = "creating" THEN 0 ELSE workers[w].event
    BY <1>1 DEF Incidents
<1>8. CASE Exists(i)
  <2>1. Goto(w, "rereading") /\ incidents' = incidents
      BY <1>7, <1>8 DEF Create
  <2>2. workers'[w].pc = "rereading" /\ workers'[w].event = workers[w].event
      BY <1>1, <2>1, GotoFacts
  <2>3. CallFits(credit, workers[w])'
      BY <1>2, <1>5, <1>6, <2>2 DEF LedgerFits, CallFits, Uncounted, Unlinked, HoldsRow
  <2> QED BY <1>1, <1>2, <1>3, <1>4, <1>5, <1>6, <2>1, <2>2, <2>3, QuietKeeps
<1>9. CASE ~Exists(i)
  <2>1. PICK r \in Aggregate : r = FirstRow(workers[w].event) /\ r.version = 1
      BY <1>1, FirstRowFacts
  <2>2. r.last = workers[w].event /\ r.count = 1
    <3>1. NoIncident \in Aggregate
        BY IdleType
    <3> QED BY <2>1, <3>1 DEF FirstRow, Aggregate
  <2>3. incidents' = [incidents EXCEPT ![i] = r] /\ GotoWith(w, "binding", i, r)
      BY <1>7, <1>9, <2>1 DEF Create
  <2>4. workers'[w].pc = "binding" /\ workers'[w].event = workers[w].event
        /\ workers'[w].incident = i
      BY <1>1, <2>3, GotoWithFacts
  <2>5. incidents'[i] = r /\ \A j \in Incidents \ {i} : incidents'[j] = incidents[j]
      BY <1>1, <2>3 DEF IntakeTypeOK
  <2>6. incidents[i].count = 0
      BY <1>1, <1>9 DEF IInv, StoreAgrees, IncidentOK, NoIncident
  <2>7. workers[w].event <= incidents'[i].last /\ incidents'[i].version > 0
        /\ incidents'[i].count = incidents[i].count + 1
      BY <1>1, <2>1, <2>2, <2>5, <2>6, EventsAreNat
  <2> QED BY <1>1, <1>2, <1>3, <1>4, <1>5, <1>6, <2>4, <2>5, <2>7, CountKeeps
<1> QED BY <1>8, <1>9

\* _update_occurrence counts the event once, when its write is made of the row
\* that is stored.
LEMMA OccurrenceLedger ==
    ASSUME LedgerInv, NEW w \in Workers, Step(w), UpdateOccurrence(w), IntakeTypeOK'
    PROVE  EventsOwned' /\ \E credit \in Credits : LedgerFits(credit)'
<1>1. IInv /\ IntakeTypeOK /\ EventsOwned /\ workers \in [Workers -> Call]
      /\ CallOK(workers[w]) /\ workers[w].event \in Incidents /\ workers[w] \in Call
      /\ workers[w].row \in Aggregate /\ workers[w].incident \in Incidents
    BY DEF LedgerInv, IInv, IntakeTypeOK, CallsAgree, Call
<1>2. PICK credit \in Credits : LedgerFits(credit)
    BY DEF LedgerInv
<1>3. Learn
    BY <1>1, StepGrows DEF Learn
<1>4. \A v \in Workers \ {w} : workers'[v] = workers[v]
    BY <1>1, StepOwns
<1>5. recorded' = recorded /\ links' = links /\ samples' = samples
    BY DEF UpdateOccurrence
<1>6. workers[w].pc \in Uncounted /\ workers[w].pc \in Working /\ workers[w].event \in recorded
      /\ workers[w].pc \in HoldsRow
    BY <1>1 DEF UpdateOccurrence, Uncounted, Working, CallOK, HoldsRow
<1>7. PICK r \in Aggregate :
         r = [workers[w].row EXCEPT !.last = Later(@, workers[w].event), !.count = @ + 1]
         /\ r.version = workers[w].row.version /\ r.count = workers[w].row.count + 1
    BY <1>1, OccurrenceFacts
<1>8. workers[w].event <= r.last
  <2>1. r.last = Later(workers[w].row.last, workers[w].event)
      BY <1>1, <1>7 DEF Aggregate
  <2>2. workers[w].row.last \in Nat /\ workers[w].event \in Nat
      BY <1>1, EventsAreNat DEF Aggregate
  <2> QED BY <2>1, <2>2 DEF Later
<1>9. Update(w, r, "binding")
    BY <1>7 DEF UpdateOccurrence
<1>10. \A j \in Incidents \ {workers[w].incident} : incidents'[j] = incidents[j]
    BY <1>1, <1>6, <1>7, <1>9, UpdateFacts
<1>11. CASE Fresh(workers[w].incident, workers[w].row)
  <2>1. GotoWith(w, "binding", workers[w].incident, Newer(r))
      BY <1>9, <1>11 DEF Update
  <2>2. workers'[w].pc = "binding" /\ workers'[w].event = workers[w].event
        /\ workers'[w].incident = workers[w].incident
      BY <1>1, <2>1, GotoWithFacts
  <2>3. workers[w].row = incidents[workers[w].incident]
      BY <1>1, <1>6, <1>11 DEF CallOK, RowOK
  <2>4. incidents'[workers[w].incident] = Newer(r)
      BY <1>1, <1>9, <1>11 DEF Update, IntakeTypeOK
  <2>5. incidents'[workers[w].incident].count = incidents[workers[w].incident].count + 1
        /\ incidents'[workers[w].incident].last = r.last
        /\ incidents'[workers[w].incident].version = r.version + 1 /\ r.version \in Nat
      BY <1>7, <2>3, <2>4, NewerFacts
  <2>6. incidents'[workers[w].incident].version > 0
      BY <2>5
  <2> QED BY <1>1, <1>2, <1>3, <1>4, <1>5, <1>6, <1>8, <1>10, <2>2, <2>5, <2>6, CountKeeps
<1>12. CASE ~Fresh(workers[w].incident, workers[w].row)
  <2>1. Return(w) /\ incidents' = incidents
      BY <1>9, <1>12 DEF Update
  <2>2. workers'[w] = Idle
      BY <1>1, <2>1, GotoFacts
  <2>3. CallFits(credit, workers[w])' /\ workers'[w].pc \notin Working
      BY <2>2, IdleFits
  <2> QED BY <1>1, <1>2, <1>3, <1>4, <1>5, <2>1, <2>3, QuietKeeps
<1> QED BY <1>11, <1>12

\* bind_event_to_incident links an event that was not linked, and so one that
\* is no reading of any incident yet.
LEMMA BindLedger ==
    ASSUME LedgerInv, NEW w \in Workers, Step(w), Bind(w), IntakeTypeOK'
    PROVE  EventsOwned' /\ \E credit \in Credits : LedgerFits(credit)'
<1>1. IInv /\ IntakeTypeOK /\ EventsOwned /\ workers \in [Workers -> Call]
      /\ CallOK(workers[w]) /\ workers[w].event \in Incidents /\ workers[w] \in Call
      /\ workers[w].incident \in Incidents
    BY DEF LedgerInv, IInv, IntakeTypeOK, CallsAgree, Call
<1>2. PICK credit \in Credits : LedgerFits(credit)
    BY DEF LedgerInv
<1>3. Learn
    BY <1>1, StepGrows DEF Learn
<1>4. \A v \in Workers \ {w} : workers'[v] = workers[v]
    BY <1>1, StepOwns
<1>5. recorded' = recorded /\ incidents' = incidents /\ samples' = samples
    BY DEF Bind
<1>6. PICK e \in Events : e = workers[w].event /\ e \in recorded
    BY <1>1, RecordedAreEvents DEF Bind, CallOK, Working
<1>7. PICK i \in Incidents : i = workers[w].incident /\ Exists(i)
    BY <1>1, <1>2 DEF Bind, LedgerFits, CallFits, HoldsRow
<1>8. links[e] = None /\ links' = [links EXCEPT ![e] = i] /\ None \notin Incidents
    BY <1>2, <1>6, <1>7, EventsAreNat DEF Bind, LedgerFits, CallFits, Unlinked, Uncounted, None
<1>9. links'[e] = i /\ \A f \in Events \ {e} : links'[f] = links[f]
    BY <1>1, <1>8 DEF IntakeTypeOK
<1>10. \A j : Share(credit, j)' = Share(credit, j)
    BY <1>5 DEF Share
<1>11. \A f \in Events : EventFits(credit, f)'
    BY <1>2, <1>5, <1>6, <1>7, <1>9 DEF LedgerFits, EventFits, Exists
<1>12. ASSUME NEW j \in Incidents
       PROVE  CountFits(credit, j)' /\ ReadingsFit(credit, j)'
  <2>1. CountFits(credit, j) /\ ReadingsFit(credit, j) /\ samples[j] \subseteq Events
      BY <1>1, <1>2 DEF LedgerFits, IntakeTypeOK
  <2>2. e \notin samples[j]
      BY <1>8, <2>1 DEF ReadingsFit
  <2>3. ReadingsFit(credit, j)'
      BY <1>5, <1>9, <1>10, <2>1, <2>2 DEF ReadingsFit
  <2> QED BY <1>5, <1>10, <2>1, <2>3 DEF CountFits
<1>13. \/ workers[w].pc = "refusing" /\ workers'[w] = Idle
       \/ /\ workers[w].pc = "binding" /\ workers'[w].pc \in {"resolving", "sampling"}
          /\ workers'[w].event = e /\ workers'[w].incident = i
  <2>1. Return(w) => workers'[w] = Idle
      BY <1>1, GotoFacts
  <2>2. ASSUME NEW pc, Goto(w, pc)
        PROVE  workers'[w].pc = pc /\ workers'[w].event = e /\ workers'[w].incident = i
      BY <1>1, <1>6, <1>7, <2>2, GotoFacts
  <2>3. \/ workers[w].pc = "refusing" /\ Return(w)
        \/ workers[w].pc = "binding" /\ \E pc \in {"resolving", "sampling"} : Goto(w, pc)
      BY DEF Bind
  <2> QED BY <2>1, <2>2, <2>3
<1>14. CallFits(credit, workers[w])'
  <2>1. CASE workers'[w] = Idle
      BY <2>1, IdleFits
  <2>2. CASE workers[w].pc = "binding" /\ workers'[w].pc \in {"resolving", "sampling"}
             /\ workers'[w].event = e /\ workers'[w].incident = i
    <3>1. credit[e] = i /\ e <= incidents[i].last
        BY <1>2, <1>6, <1>7, <2>2 DEF LedgerFits, CallFits
    <3> QED BY <1>5, <1>7, <1>9, <2>2, <3>1 DEF CallFits, Uncounted, Unlinked, Exists
  <2> QED BY <1>13, <2>1, <2>2
<1>15. ASSUME NEW v \in Workers \ {w}
       PROVE  CallFits(credit, workers[v])'
  <2>1. workers'[v] = workers[v] /\ workers[v] \in Call /\ CallFits(credit, workers[v])
      BY <1>1, <1>2, <1>4 DEF LedgerFits
  <2>2. ASSUME workers[v].pc \in Working
        PROVE  links'[workers[v].event] = links[workers[v].event]
    <3>1. workers[w].pc \in Working
        BY DEF Bind, Working
    <3>2. workers[v].event # e
        BY <1>1, <1>6, <2>2, <3>1 DEF EventsOwned
    <3> QED BY <1>1, <1>8, <3>2 DEF IntakeTypeOK
  <2> QED BY <1>1, <1>3, <2>1, <2>2, CallStays DEF CallFits, Exists
<1>16. \A v \in Workers : CallFits(credit, workers[v])'
    BY <1>14, <1>15
<1>17. LedgerFits(credit)'
    BY <1>11, <1>12, <1>16 DEF LedgerFits
<1>18. workers'[w].pc \in Working =>
          workers[w].pc \in Working /\ workers'[w].event = workers[w].event
    BY <1>6, <1>13 DEF Working, Idle
<1>19. EventsOwned'
    BY <1>1, <1>4, <1>18, OwnedStays
<1> QED BY <1>2, <1>17, <1>19

\* record_metric_sample inserts the event its incident has counted and is linked
\* to.
LEMMA SampleLedger ==
    ASSUME LedgerInv, NEW w \in Workers, Step(w), Sample(w), IntakeTypeOK'
    PROVE  EventsOwned' /\ \E credit \in Credits : LedgerFits(credit)'
<1>1. IInv /\ IntakeTypeOK /\ EventsOwned /\ workers \in [Workers -> Call]
      /\ CallOK(workers[w]) /\ workers[w].event \in Incidents /\ workers[w] \in Call
      /\ workers[w].incident \in Incidents
    BY DEF LedgerInv, IInv, IntakeTypeOK, CallsAgree, Call
<1>2. PICK credit \in Credits : LedgerFits(credit)
    BY DEF LedgerInv
<1>3. Learn
    BY <1>1, StepGrows DEF Learn
<1>4. \A v \in Workers \ {w} : workers'[v] = workers[v]
    BY <1>1, StepOwns
<1>5. recorded' = recorded /\ incidents' = incidents /\ links' = links
    BY DEF Sample
<1>6. PICK e \in Events : e = workers[w].event /\ e \in recorded
    BY <1>1, RecordedAreEvents DEF Sample, CallOK, Working
<1>7. PICK i \in Incidents : i = workers[w].incident /\ Exists(i)
    BY <1>1, <1>2 DEF Sample, LedgerFits, CallFits, HoldsRow
<1>8. credit[e] = i /\ e <= incidents[i].last /\ links[e] = i
    BY <1>2, <1>6, <1>7 DEF Sample, LedgerFits, CallFits
<1>9. samples'[i] = samples[i] \cup {e} /\ \A j \in Incidents \ {i} : samples'[j] = samples[j]
    BY <1>1, <1>6, <1>7 DEF Sample, IntakeTypeOK
<1>10. \A j : Share(credit, j)' = Share(credit, j)
    BY <1>5 DEF Share
<1>11. \A f \in Events : EventFits(credit, f)'
    BY <1>2, <1>5 DEF LedgerFits, EventFits, Exists
<1>12. ASSUME NEW j \in Incidents
       PROVE  CountFits(credit, j)' /\ ReadingsFit(credit, j)'
  <2>1. CountFits(credit, j) /\ ReadingsFit(credit, j)
      BY <1>2 DEF LedgerFits
  <2>2. e \in Share(credit, i)
      BY <1>6, <1>8 DEF Share
  <2>3. ReadingsFit(credit, j)'
      BY <1>5, <1>8, <1>9, <1>10, <2>1, <2>2 DEF ReadingsFit
  <2> QED BY <1>5, <1>10, <2>1, <2>3 DEF CountFits
<1>13. workers'[w].pc = "judging" /\ workers'[w].event = e /\ workers'[w].incident = i
    BY <1>1, <1>6, <1>7, GotoFacts DEF Sample
<1>14. CallFits(credit, workers[w])'
    BY <1>5, <1>7, <1>13 DEF CallFits, Uncounted, Unlinked, Exists
<1>15. ASSUME NEW v \in Workers \ {w}
       PROVE  CallFits(credit, workers[v])'
  <2>1. workers'[v] = workers[v] /\ workers[v] \in Call /\ CallFits(credit, workers[v])
      BY <1>1, <1>2, <1>4 DEF LedgerFits
  <2> QED BY <1>1, <1>3, <1>5, <2>1, CallStays DEF CallFits, Exists
<1>16. LedgerFits(credit)'
    BY <1>11, <1>12, <1>14, <1>15 DEF LedgerFits
<1>17. workers[w].pc \in Working
    BY DEF Sample, Working
<1>18. EventsOwned'
    BY <1>1, <1>4, <1>6, <1>13, <1>17, OwnedStays
<1> QED BY <1>2, <1>16, <1>18

\* record_event takes an event that nobody has taken: nothing is credited or
\* linked to it, and no other call works on it.
LEMMA RecordLedger ==
    ASSUME LedgerInv, NEW w \in Workers, NEW e \in Events, Record(w, e), IntakeTypeOK'
    PROVE  EventsOwned' /\ \E credit \in Credits : LedgerFits(credit)'
<1>1. IInv /\ IntakeTypeOK /\ EventsOwned /\ workers \in [Workers -> Call]
    BY DEF LedgerInv, IInv, IntakeTypeOK
<1>2. PICK credit \in Credits : LedgerFits(credit)
    BY DEF LedgerInv
<1>3. incidents' = incidents /\ samples' = samples /\ links' = links
      /\ recorded' = recorded \cup {e} /\ e \notin recorded
    BY DEF Record
<1>4. Learn
  <2>1. \A i \in Incidents : incidents[i].last \in Nat /\ incidents[i].version \in Nat
      BY <1>1, EventsAreNat DEF IntakeTypeOK, Aggregate
  <2> QED BY <1>3, <2>1 DEF Learn
<1>5. workers'[w].pc = "correlating" /\ workers'[w].event = e
      /\ \A v \in Workers \ {w} : workers'[v] = workers[v]
    BY <1>1 DEF Record, Idle
<1>6. credit[e] = None /\ links[e] = None
    BY <1>2, <1>3 DEF LedgerFits, EventFits
<1>7. \A i \in Incidents : Share(credit, i)' = Share(credit, i)
    BY <1>3, <1>6, EventsAreNat DEF Share, None
<1>8. \A f \in Events : EventFits(credit, f)'
    BY <1>2, <1>3 DEF LedgerFits, EventFits, Exists
<1>9. \A i \in Incidents : CountFits(credit, i)' /\ ReadingsFit(credit, i)'
    BY <1>2, <1>3, <1>7 DEF LedgerFits, CountFits, ReadingsFit
<1>10. CallFits(credit, workers[w])'
    BY <1>3, <1>5, <1>6 DEF CallFits, Uncounted, Unlinked, HoldsRow
<1>11. ASSUME NEW v \in Workers \ {w}
       PROVE  CallFits(credit, workers[v])'
  <2>1. workers'[v] = workers[v] /\ workers[v] \in Call /\ CallFits(credit, workers[v])
      BY <1>1, <1>2, <1>5 DEF LedgerFits
  <2> QED BY <1>1, <1>3, <1>4, <2>1, CallStays DEF CallFits, Exists
<1>12. LedgerFits(credit)'
    BY <1>8, <1>9, <1>10, <1>11 DEF LedgerFits
<1>13. \A v \in Workers : workers[v].pc \in Working => workers[v].event # e
    BY <1>1, <1>3 DEF IInv, CallsAgree, CallOK
<1>14. EventsOwned'
    BY <1>1, <1>5, <1>13 DEF EventsOwned
<1> QED BY <1>2, <1>12, <1>14

\* A redelivery takes up the incident that its event is linked to.
LEMMA RedeliverLedger ==
    ASSUME LedgerInv, NEW w \in Workers, NEW e \in Events, Redeliver(w, e), IntakeTypeOK'
    PROVE  EventsOwned' /\ \E credit \in Credits : LedgerFits(credit)'
<1>1. IInv /\ IntakeTypeOK /\ EventsOwned /\ workers \in [Workers -> Call]
    BY DEF LedgerInv, IInv, IntakeTypeOK
<1>2. PICK credit \in Credits : LedgerFits(credit)
    BY DEF LedgerInv
<1>3. incidents' = incidents /\ samples' = samples /\ links' = links
      /\ recorded' = recorded
    BY DEF Redeliver
<1>4. Learn
  <2>1. \A i \in Incidents : incidents[i].last \in Nat /\ incidents[i].version \in Nat
      BY <1>1, EventsAreNat DEF IntakeTypeOK, Aggregate
  <2> QED BY <1>3, <2>1 DEF Learn
<1>5. CASE workers' = workers
  <2>1. CallFits(credit, workers[w])'
      BY <1>2, <1>3, <1>5 DEF LedgerFits, CallFits, Exists
  <2> QED BY <1>1, <1>2, <1>3, <1>4, <1>5, <2>1, QuietKeeps
<1>6. CASE /\ links[e] # None
           /\ workers' = [workers EXCEPT ![w] = Redelivered(e, links[e], incidents[links[e]])]
  <2>1. workers'[w].pc = "repeating" /\ workers'[w].incident = links[e]
        /\ \A v \in Workers \ {w} : workers'[v] = workers[v]
    <3>1. links[e] \in Incidents /\ incidents[links[e]] \in Aggregate
        BY <1>1, <1>6 DEF IntakeTypeOK
    <3> QED BY <1>1, <1>6, <3>1, RedeliveredFacts
  <2>2. Exists(links[e])
      BY <1>2, <1>6 DEF LedgerFits, EventFits
  <2>3. CallFits(credit, workers[w])'
      BY <1>3, <2>1, <2>2 DEF CallFits, Uncounted, Unlinked, Exists
  <2>4. workers'[w].pc \notin Working
      BY <2>1 DEF Working
  <2> QED BY <1>1, <1>2, <1>3, <1>4, <2>1, <2>3, <2>4, QuietKeeps
<1> QED BY <1>5, <1>6 DEF Redeliver, Redelivered

\* Operators and the environment count nothing.
LEMMA RestLedger ==
    ASSUME LedgerInv, IntakeTypeOK',
           \/ Emit \/ ClaimExpires \/ UNCHANGED vars
           \/ \E i \in Incidents : CooldownEnds(i) \/ Resolve(i) \/ Acknowledge(i)
    PROVE  EventsOwned' /\ \E credit \in Credits : LedgerFits(credit)'
<1>1. IInv /\ IntakeTypeOK /\ EventsOwned
    BY DEF LedgerInv, IInv
<1>2. PICK credit \in Credits : LedgerFits(credit)
    BY DEF LedgerInv
<1>3. samples' = samples /\ links' = links /\ recorded' = recorded /\ workers' = workers
    BY DEF Emit, ClaimExpires, vars, CooldownEnds, Resolve, Acknowledge, Command, env
<1>4. \A i \in Incidents : /\ incidents[i].last \in Nat /\ incidents[i].count \in Nat
                           /\ incidents[i].version \in Nat
    BY <1>1, EventsAreNat DEF IntakeTypeOK, Aggregate
<1>5. Learn /\ \A i \in Incidents : incidents'[i].count = incidents[i].count
  <2>1. CASE incidents' = incidents
      BY <1>4, <2>1 DEF Learn
  <2>2. CASE \E j \in Incidents : Resolve(j) \/ Acknowledge(j)
      BY <1>1, <1>4, <2>2, CommandGrows DEF Learn
  <2> QED BY <2>1, <2>2 DEF Emit, ClaimExpires, vars, CooldownEnds, env
<1>6. \A v \in Workers : CallFits(credit, workers[v])'
  <2> SUFFICES ASSUME NEW v \in Workers PROVE CallFits(credit, workers[v])'
      OBVIOUS
  <2>1. workers'[v] = workers[v] /\ workers[v] \in Call /\ CallFits(credit, workers[v])
      BY <1>1, <1>2, <1>3 DEF LedgerFits, IntakeTypeOK
  <2> QED BY <1>1, <1>3, <1>5, <2>1, CallStays DEF CallFits, Exists
<1>7. /\ \A e \in Events : EventFits(credit, e)'
      /\ \A i \in Incidents : CountFits(credit, i)' /\ ReadingsFit(credit, i)'
    BY <1>1, <1>2, <1>3, <1>5, TablesStay
<1>8. LedgerFits(credit)'
    BY <1>6, <1>7 DEF LedgerFits
<1>9. EventsOwned'
    BY <1>1, <1>3 DEF EventsOwned
<1> QED BY <1>2, <1>8, <1>9

LEMMA LedgerInductive == LedgerInv /\ [Next]_vars => LedgerInv'
<1> SUFFICES ASSUME LedgerInv, [Next]_vars PROVE LedgerInv'
    OBVIOUS
<1>1. IInv'
    BY Inductive DEF LedgerInv
<1>2. IntakeTypeOK'
    BY <1>1 DEF IInv
<1>3. ASSUME NEW w \in Workers, Step(w)
      PROVE  EventsOwned' /\ \E credit \in Credits : LedgerFits(credit)'
  <2>1. PICK credit \in Credits : LedgerFits(credit)
      BY DEF LedgerInv
  <2>2. CASE \/ Repeat(w) \/ Suspect(w) \/ Activate(w) \/ Close(w)
             \/ Correlate(w) \/ Reread(w) \/ Judge(w) \/ Claim(w) \/ Save(w)
             \/ ReadResolved(w) \/ Crash(w)
      BY <1>2, <1>3, <2>1, <2>2, QuietSteps
  <2>3. CASE Create(w)
      BY <1>2, <1>3, <2>3, CreateLedger
  <2>4. CASE UpdateOccurrence(w)
      BY <1>2, <1>3, <2>4, OccurrenceLedger
  <2>5. CASE Bind(w)
      BY <1>2, <1>3, <2>5, BindLedger
  <2>6. CASE Sample(w)
      BY <1>2, <1>3, <2>6, SampleLedger
  <2> QED BY <1>3, <2>2, <2>3, <2>4, <2>5, <2>6 DEF Step
<1>4. ASSUME NEW w \in Workers, NEW e \in Events, Record(w, e) \/ Redeliver(w, e)
      PROVE  EventsOwned' /\ \E credit \in Credits : LedgerFits(credit)'
    BY <1>2, <1>4, RecordLedger, RedeliverLedger
<1>5. EventsOwned' /\ \E credit \in Credits : LedgerFits(credit)'
    BY <1>2, <1>3, <1>4, RestLedger DEF Next
<1> QED BY <1>1, <1>5 DEF LedgerInv

\* Whichever workers race, crash or take the same delivery twice: what an
\* incident has counted can be credited to source events, one each, an event is
\* linked to an incident that exists, and what an incident is judged by are
\* linked occurrences that it has counted.
THEOREM EventsAgree == Spec => []EventTablesAgree
<1>1. Spec => []LedgerInv
    BY LedgerStarts, LedgerInductive, PTL DEF Spec
<1> QED BY <1>1, LedgerAgrees, PTL
=============================================================================
