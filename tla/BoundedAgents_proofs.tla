------------------------ MODULE BoundedAgents_proofs ------------------------
EXTENDS ModelRouter, SelectorTeam, CrewFlow, PlanExecutor, SequenceTheorems, FiniteSetTheorems, TLAPS

(***************************************************************************)
(* The selector team (advanced/02).                                        *)
(***************************************************************************)

\* The evidence is what the last turn left it as.
LastTurnLooksCurrent == turns # << >> => turns[Len(turns)].after[1] = gathered

TeamInv == TeamTypeOK /\ LastTurnLooksCurrent /\ DiagnosisIsGrounded

\* A team that goes on has room for a turn and no verdict yet.
LEMMA ContinuingTeam ==
    ASSUME TeamTypeOK, Continues
    PROVE  /\ ~review.passed
           /\ Len(turns) < TeamBudget.messages /\ Len(turns) < TeamBudget.worker
           /\ \A a \in Speakers : Cardinality(TurnsOf(a)) < TeamBudget.perAgent
<1>1. ~OutOfBudget /\ ~review.passed
    BY DEF Continues, TerminationReason
<1>2. Len(turns) \in Nat /\ DOMAIN turns = 1 .. Len(turns)
    BY DEF TeamTypeOK
<1>3. ASSUME NEW a \in Speakers
      PROVE  Cardinality(TurnsOf(a)) \in Nat
  <2>1. IsFiniteSet(1 .. Len(turns)) /\ TurnsOf(a) \in SUBSET (1 .. Len(turns))
      BY <1>2, FS_Interval DEF TurnsOf
  <2> QED BY <2>1, FS_Subset, FS_CardinalityType
<1>4. TeamBudget.messages \in Nat /\ TeamBudget.worker \in Nat /\ TeamBudget.perAgent \in Nat
    BY TeamAssumption
<1> QED BY <1>1, <1>2, <1>3, <1>4 DEF OutOfBudget

\* Who speaks, and so what a turn may bring: evidence while some is missing,
\* then the diagnosis, then a verdict on it.
LEMMA TurnsInOrder ==
    ASSUME TeamTypeOK, NEW agent \in EligibleSpeakers
    PROVE  /\ agent \in Speakers
           /\ Gaps # {} => agent \in Gatherers
           /\ Gaps = {} => \A records \in Records(agent) : DOMAIN records = {}
           /\ Gaps = {} /\ ~candidate => agent = Analyst
           /\ Gaps = {} /\ candidate => agent = Reviewer
           /\ agent # Analyst => Diagnoses(agent) = {FALSE}
           /\ agent # Reviewer => Verdicts(agent) = {"NONE"}
<1>1. Gaps # {} => agent \in Gatherers
    BY DEF EligibleSpeakers, Gaps, Gatherers
<1>2. Gaps = {} => agent = IF candidate THEN Reviewer ELSE Analyst
    BY DEF EligibleSpeakers
<1>3. ASSUME Gaps = {}, NEW records \in Records(agent)
      PROVE  DOMAIN records = {}
  <2>1. agent \notin Gatherers
      BY <1>2, <1>3, TeamAssumption DEF Gatherers, Analyst, Reviewer, RequiredEvidence
  <2>2. {g \in RequiredEvidence : GapOwner[g] = agent} = {}
      BY <2>1 DEF Gatherers
  <2> QED BY <1>3, <2>2 DEF Records
<1> QED BY <1>1, <1>2, <1>3 DEF Diagnoses, Verdicts, Speakers

\* A turn that is taken, and the sequence it makes.
LEMMA TurnTaken ==
    ASSUME TeamTypeOK, WorkerTurn
    PROVE  \E n \in Nat :
              /\ n = Len(turns) /\ DOMAIN turns = 1 .. n
              /\ Len(turns') = n + 1 /\ DOMAIN turns' = 1 .. n + 1
              /\ \A i \in 1 .. n : turns'[i] = turns[i]
              /\ turns'[n + 1].agent = choice.agent /\ turns'[n + 1].gap = choice.gap
              /\ turns'[n + 1].before = Material /\ turns'[n + 1].after = Material'
<1>1. PICK t : /\ turns' = Append(turns, t)
               /\ t = [agent |-> choice.agent, gap |-> choice.gap,
                       before |-> Material, after |-> Material']
    BY DEF WorkerTurn
<1>2. PICK T : turns \in Seq(T)
    BY DEF TeamTypeOK
<1>3. PICK n \in Nat : n = Len(turns)
    BY <1>2
<1>4. turns \in Seq(T \cup {t})
    BY <1>2
<1>5. /\ Len(turns') = n + 1 /\ turns'[n + 1] = t
      /\ \A i \in 1 .. n : turns'[i] = turns[i] /\ turns' \in Seq(T \cup {t})
    BY <1>1, <1>3, <1>4, AppendProperties
<1>6. DOMAIN turns' = 1 .. n + 1 /\ DOMAIN turns = 1 .. n
    BY <1>1, <1>2, <1>3, <1>4
<1> QED BY <1>1, <1>3, <1>5, <1>6

\* The types after a turn.
LEMMA TurnTypes ==
    ASSUME TeamTypeOK, WorkerTurn
    PROVE  TeamTypeOK'
<1>1. /\ choice.agent \in EligibleSpeakers /\ choice.agent \in Speakers /\ choice.gap \in SpokenGaps
      /\ choice \in [agent : Speakers \cup {NoChoice.agent}, gap : SpokenGaps, eligible : SUBSET Speakers]
    BY TurnsInOrder DEF WorkerTurn, ValidChoice, TeamTypeOK
<1>2. /\ gathered \in [RequiredEvidence -> Statuses] /\ candidate \in BOOLEAN
      /\ review \in [passed : BOOLEAN, feedback : 0 .. 2]
    BY DEF TeamTypeOK, Materials, Material
<1>3. PICK records \in Records(choice.agent), diagnosis \in Diagnoses(choice.agent),
           verdict \in Verdicts(choice.agent), time \in TurnTimes :
         /\ gathered' = [g \in RequiredEvidence |->
                            IF g \in DOMAIN records THEN records[g] ELSE gathered[g]]
         /\ candidate' = (candidate \/ diagnosis)
         /\ review' = CASE verdict = "REVIEW_PASS" -> [passed |-> TRUE, feedback |-> 1]
                        [] verdict = "REVIEW_FAIL" -> [passed |-> FALSE, feedback |-> 2]
                        [] OTHER -> review
         /\ elapsed' = elapsed + time
    BY Zenon DEF WorkerTurn
<1>4. gathered' \in [RequiredEvidence -> Statuses]
  <2>1. \A g \in DOMAIN records : records[g] \in Statuses
      BY <1>3 DEF Records, Statuses
  <2> QED BY <1>2, <1>3, <2>1
<1>5. review' \in [passed : BOOLEAN, feedback : 0 .. 2]
  <2>1. CASE verdict = "REVIEW_PASS"
      BY <1>3, <2>1
  <2>2. CASE verdict = "REVIEW_FAIL"
      BY <1>3, <2>2
  <2>3. CASE verdict # "REVIEW_PASS" /\ verdict # "REVIEW_FAIL"
      BY <1>2, <1>3, <2>3
  <2> QED BY <2>1, <2>2, <2>3
<1>6. candidate' \in BOOLEAN
    BY <1>2, <1>3 DEF Diagnoses
<1>7. Material' \in Materials
    BY <1>4, <1>5, <1>6 DEF Material, Materials
<1>8. PICK t : /\ turns' = Append(turns, t)
               /\ t = [agent |-> choice.agent, gap |-> choice.gap,
                       before |-> Material, after |-> Material']
    BY DEF WorkerTurn
<1>9. t \in [agent : Speakers, gap : SpokenGaps, before : Materials, after : Materials]
    BY <1>1, <1>7, <1>8 DEF TeamTypeOK
<1>10. turns' \in Seq([agent : Speakers, gap : SpokenGaps, before : Materials, after : Materials])
    BY <1>8, <1>9, AppendProperties DEF TeamTypeOK
<1>11. elapsed' \in Nat
    BY <1>3, TeamAssumption DEF TeamTypeOK
<1> QED BY <1>7, <1>10, <1>11 DEF TeamTypeOK, WorkerTurn

\* What a turn makes of the evidence, the diagnosis and the verdict: each of
\* the three is touched by its own speaker only.
LEMMA TurnEffects ==
    ASSUME TeamTypeOK, WorkerTurn
    PROVE  /\ Gaps # {} => choice.agent \in Gatherers /\ candidate' = candidate
                           /\ review' = review
           /\ Gaps = {} => gathered' = gathered
           /\ Gaps = {} /\ ~candidate => choice.agent = Analyst /\ review' = review
           /\ Gaps = {} /\ candidate => choice.agent = Reviewer /\ candidate'
<1>1. choice.agent \in EligibleSpeakers /\ gathered \in [RequiredEvidence -> Statuses]
      /\ candidate \in BOOLEAN
    BY DEF WorkerTurn, ValidChoice, TeamTypeOK, Materials, Material
<1>2. PICK agent, records, diagnosis, verdict :
         /\ agent = choice.agent
         /\ records \in Records(agent) /\ diagnosis \in Diagnoses(agent)
         /\ verdict \in Verdicts(agent)
         /\ gathered' = [g \in RequiredEvidence |->
                            IF g \in DOMAIN records THEN records[g] ELSE gathered[g]]
         /\ candidate' = (candidate \/ diagnosis)
         /\ review' = CASE verdict = "REVIEW_PASS" -> [passed |-> TRUE, feedback |-> 1]
                        [] verdict = "REVIEW_FAIL" -> [passed |-> FALSE, feedback |-> 2]
                        [] OTHER -> review
    BY DEF WorkerTurn
<1>3. agent # Reviewer => review' = review
  <2>1. agent # Reviewer => verdict = "NONE"
    <3>1. agent # Reviewer => Verdicts(agent) = {"NONE"}
        BY DEF Verdicts
    <3> QED BY <1>2, <3>1
  <2>2. verdict = "NONE" => review' = review
      BY <1>2
  <2> QED BY <2>1, <2>2
<1>4. agent # Analyst => candidate' = candidate
  <2>1. agent # Analyst => diagnosis = FALSE
      BY <1>1, <1>2, TurnsInOrder
  <2> QED BY <1>1, <1>2, <2>1
<1>5. Gaps = {} => gathered' = gathered
  <2>1. Gaps = {} => DOMAIN records = {}
      BY <1>1, <1>2, TurnsInOrder
  <2>2. DOMAIN records = {} => gathered' = [g \in RequiredEvidence |-> gathered[g]]
      BY <1>2
  <2> QED BY <1>1, <2>1, <2>2
<1>6. Analyst \notin Gatherers /\ Reviewer \notin Gatherers /\ Analyst # Reviewer
    BY TeamAssumption DEF Gatherers, Analyst, Reviewer, RequiredEvidence
<1> QED BY <1>1, <1>2, <1>3, <1>4, <1>5, <1>6, TurnsInOrder

LEMMA TurnGrounded ==
    ASSUME TeamInv, WorkerTurn
    PROVE  TeamInv'
<1>1. TeamTypeOK /\ LastTurnLooksCurrent /\ DiagnosisIsGrounded /\ TeamTypeOK'
    BY TurnTypes DEF TeamInv
<1>2. PICK n \in Nat :
         /\ n = Len(turns) /\ DOMAIN turns = 1 .. n
         /\ Len(turns') = n + 1 /\ DOMAIN turns' = 1 .. n + 1
         /\ \A i \in 1 .. n : turns'[i] = turns[i]
         /\ turns'[n + 1].agent = choice.agent /\ turns'[n + 1].gap = choice.gap
         /\ turns'[n + 1].before = Material /\ turns'[n + 1].after = Material'
    BY <1>1, TurnTaken
<1>3. Continues /\ choice.agent \in Speakers /\ ~DuplicateSelection(choice)
    BY <1>1, TurnsInOrder DEF WorkerTurn, ValidChoice
<1>4. ~review.passed /\ n < TeamBudget.messages /\ n < TeamBudget.worker
      /\ \A a \in Speakers : Cardinality(TurnsOf(a)) < TeamBudget.perAgent
    BY <1>1, <1>2, <1>3, ContinuingTeam
<1>5. turns'[n + 1].after[1] = gathered' /\ turns'[n + 1].before[2] = candidate
      /\ turns'[n + 1].after[2] = candidate'
    BY <1>2 DEF Material
<1>6. turns = << >> <=> n = 0
    BY <1>1, <1>2 DEF TeamTypeOK
<1>7. LastTurnLooksCurrent'
    BY <1>2, <1>5 DEF LastTurnLooksCurrent
<1>8. ASSUME NEW a \in Speakers
      PROVE  Cardinality(TurnsOf(a))' <= TeamBudget.perAgent
  <2>1. TurnsOf(a) \in SUBSET (1 .. n) /\ IsFiniteSet(1 .. n)
    <3>1. DOMAIN turns = 1 .. n
        BY <1>2
    <3>2. TurnsOf(a) \in SUBSET (1 .. n)
        BY <3>1 DEF TurnsOf
    <3> QED BY <3>2, FS_Interval
  <2>2. IsFiniteSet(TurnsOf(a)) /\ Cardinality(TurnsOf(a)) \in Nat
      BY <2>1, FS_Subset, FS_CardinalityType
  <2>3. TurnsOf(a)' = TurnsOf(a) \/ TurnsOf(a)' = TurnsOf(a) \cup {n + 1}
      BY <1>2 DEF TurnsOf
  <2>4. TeamBudget.perAgent \in Nat
      BY TeamAssumption
  <2>5. Cardinality(TurnsOf(a) \cup {n + 1}) <= Cardinality(TurnsOf(a)) + 1
      BY <2>2, FS_AddElement
  <2>6. Cardinality(TurnsOf(a) \cup {n + 1}) \in Nat
      BY <2>2, FS_AddElement, FS_CardinalityType
  <2>7. Cardinality(TurnsOf(a)) < TeamBudget.perAgent
      BY <1>4
  <2> QED BY <2>2, <2>3, <2>4, <2>5, <2>6, <2>7
<1>9. TeamBudget.messages \in Nat /\ TeamBudget.worker \in Nat
    BY TeamAssumption
<1>10. ASSUME NEW i \in DOMAIN turns' \ {1}, turns'[i].agent = turns'[i - 1].agent
       PROVE  turns'[i].gap # turns'[i - 1].gap
  <2>1. CASE i \in 1 .. n
      BY <1>1, <1>2, <1>10, <2>1 DEF DiagnosisIsGrounded
  <2>2. CASE i = n + 1
    <3>1. n # 0 /\ turns # << >> /\ turns'[n] = turns[n]
        BY <1>2, <1>6, <1>10, <2>2
    <3>2. turns[n].after[1] = gathered
        BY <1>1, <1>2, <3>1 DEF LastTurnLooksCurrent
    <3> QED BY <1>2, <1>3, <1>10, <2>2, <3>1, <3>2 DEF DuplicateSelection
  <2> QED BY <1>2, <2>1, <2>2
<1>11. /\ candidate' =>
            /\ Gaps' = {}
            /\ \E i \in TurnsOf(Analyst)' :
                 /\ ~turns'[i].before[2] /\ turns'[i].after[2]
                 /\ \A j \in i .. Len(turns') : turns'[j].after[1] = gathered'
                 /\ \A j \in i + 1 .. Len(turns') : turns'[j].agent = Reviewer
       /\ review'.passed => candidate' /\ turns'[Len(turns')].agent = Reviewer
  <2>1. CASE Gaps # {}
      BY <1>1, <1>4, <2>1, TurnEffects DEF DiagnosisIsGrounded
  <2>2. CASE Gaps = {} /\ ~candidate
    <3>1. gathered' = gathered /\ choice.agent = Analyst /\ ~review'.passed /\ Gaps' = {}
        BY <1>1, <1>4, <2>2, TurnEffects DEF Gaps
    <3>2. n + 1 \in TurnsOf(Analyst)'
        BY <1>2, <3>1 DEF TurnsOf
    <3>3. ASSUME candidate'
          PROVE  /\ ~turns'[n + 1].before[2] /\ turns'[n + 1].after[2]
                 /\ \A j \in n + 1 .. Len(turns') : turns'[j].after[1] = gathered'
                 /\ \A j \in n + 1 + 1 .. Len(turns') : turns'[j].agent = Reviewer
        BY <1>2, <1>5, <2>2, <3>3
    <3> QED BY <3>1, <3>2, <3>3
  <2>3. CASE Gaps = {} /\ candidate
    <3>1. gathered' = gathered /\ choice.agent = Reviewer /\ candidate' /\ Gaps' = {}
        BY <1>1, <2>3, TurnEffects DEF Gaps
    <3>2. PICK i \in TurnsOf(Analyst) :
             /\ ~turns[i].before[2] /\ turns[i].after[2]
             /\ \A j \in i .. n : turns[j].after[1] = gathered
             /\ \A j \in i + 1 .. n : turns[j].agent = Reviewer
        BY <1>1, <1>2, <2>3 DEF DiagnosisIsGrounded
    <3>3. i \in 1 .. n /\ turns'[i] = turns[i] /\ i \in TurnsOf(Analyst)'
      <4>1. i \in 1 .. n /\ turns[i].agent = Analyst
          BY <1>2, <3>2 DEF TurnsOf
      <4>2. i \in 1 .. n + 1 /\ turns'[i] = turns[i]
          BY <1>2, <4>1
      <4> QED BY <1>2, <4>1, <4>2 DEF TurnsOf
    <3>4. \A j \in i .. Len(turns') : turns'[j].after[1] = gathered'
      <4> SUFFICES ASSUME NEW j \in i .. n + 1
                   PROVE  turns'[j].after[1] = gathered'
          BY <1>2
      <4>1. CASE j = n + 1
          BY <1>5, <4>1
      <4>2. CASE j # n + 1
        <5>1. j \in i .. n /\ j \in 1 .. n
            BY <3>3, <4>2
        <5>2. turns'[j] = turns[j] /\ turns[j].after[1] = gathered
            BY <1>2, <3>2, <5>1
        <5> QED BY <3>1, <5>2
      <4> QED BY <4>1, <4>2
    <3>5. \A j \in i + 1 .. Len(turns') : turns'[j].agent = Reviewer
        BY <1>2, <3>1, <3>2, <3>3
    <3>6. turns'[Len(turns')].agent = Reviewer
        BY <1>2, <3>1
    <3>7. ~turns'[i].before[2] /\ turns'[i].after[2]
        BY <3>2, <3>3
    <3> QED BY <3>1, <3>3, <3>4, <3>5, <3>6, <3>7
  <2> QED BY <2>1, <2>2, <2>3
<1>12. Len(turns') <= TeamBudget.messages /\ Len(turns') <= TeamBudget.worker
    BY <1>2, <1>4, <1>9
<1>13. DiagnosisIsGrounded'
    BY <1>8, <1>10, <1>11, <1>12 DEF DiagnosisIsGrounded
<1> QED BY <1>1, <1>7, <1>13 DEF TeamInv

LEMMA TeamStarts == TeamInit => TeamInv
<1> SUFFICES ASSUME TeamInit PROVE TeamInv
    OBVIOUS
<1>1. turns = << >> /\ Len(turns) = 0 /\ DOMAIN turns = {}
    BY DEF TeamInit
<1>2. Material \in Materials
  <2>1. gathered \in [RequiredEvidence -> Statuses]
      BY DEF TeamInit, Statuses
  <2>2. candidate \in BOOLEAN
      BY Zenon DEF TeamInit
  <2>3. review \in [passed : BOOLEAN, feedback : 0 .. 2]
      BY DEF TeamInit
  <2> QED BY <2>1, <2>2, <2>3 DEF Material, Materials
<1>3. choice \in [agent : Speakers \cup {NoChoice.agent}, gap : SpokenGaps, eligible : SUBSET Speakers]
    BY DEF TeamInit, NoChoice, SpokenGaps
<1>4. TeamTypeOK
    BY <1>1, <1>2, <1>3 DEF TeamInit, TeamTypeOK
<1>5. \A a : TurnsOf(a) = {}
    BY <1>1 DEF TurnsOf
<1>6. TeamBudget.messages \in Nat /\ TeamBudget.worker \in Nat /\ TeamBudget.perAgent \in Nat
    BY TeamAssumption
<1>7. \A a \in Speakers : Cardinality(TurnsOf(a)) <= TeamBudget.perAgent
    BY <1>5, <1>6, FS_EmptySet
<1>8. ~candidate /\ ~review.passed
    BY DEF TeamInit
<1>9. DiagnosisIsGrounded
    BY <1>1, <1>6, <1>7, <1>8 DEF DiagnosisIsGrounded
<1> QED BY <1>1, <1>4, <1>9 DEF TeamInv, LastTurnLooksCurrent

LEMMA TeamInductive == TeamInv /\ [TeamNext]_teamVars => TeamInv'
<1> SUFFICES ASSUME TeamInv, [TeamNext]_teamVars PROVE TeamInv'
    OBVIOUS
<1>1. CASE WorkerTurn
    BY <1>1, TurnGrounded
<1>2. ASSUME gathered' = gathered, candidate' = candidate, review' = review, turns' = turns,
             TeamTypeOK'
      PROVE  TeamInv'
  <2>1. Gaps' = Gaps /\ \A a : TurnsOf(a)' = TurnsOf(a)
      BY <1>2 DEF Gaps, TurnsOf
  <2> QED BY <1>2, <2>1 DEF TeamInv, LastTurnLooksCurrent, DiagnosisIsGrounded
<1>3. CASE CallSelector
  <2>1. TeamTypeOK'
      BY <1>3 DEF TeamInv, TeamTypeOK, CallSelector, Material
  <2> QED BY <1>2, <1>3, <2>1 DEF CallSelector
<1>4. CASE ChooseSpeaker
  <2>1. PICK agent \in EligibleSpeakers, gap \in SpokenGaps :
           choice' = [agent |-> agent, gap |-> gap, eligible |-> EligibleSpeakers]
      BY <1>4 DEF ChooseSpeaker, SpokenGaps
  <2>2. EligibleSpeakers \subseteq Speakers
      BY TurnsInOrder DEF TeamInv
  <2>3. TeamTypeOK'
      BY <1>4, <2>1, <2>2 DEF TeamInv, TeamTypeOK, ChooseSpeaker, Material
  <2> QED BY <1>2, <1>4, <2>3 DEF ChooseSpeaker
<1>5. CASE Control
  <2>1. TeamTypeOK'
      BY <1>5 DEF TeamInv, TeamTypeOK, Control, Material
  <2> QED BY <1>2, <1>5, <2>1 DEF Control
<1>6. CASE UNCHANGED teamVars
  <2>1. TeamTypeOK'
      BY <1>6 DEF TeamInv, TeamTypeOK, teamVars, Material
  <2> QED BY <1>2, <1>6, <2>1 DEF teamVars
<1> QED BY <1>1, <1>3, <1>4, <1>5, <1>6 DEF TeamNext

\* The team's state stays well typed, for any budget of the team.
THEOREM TeamTypes == TeamSpec => []TeamTypeOK
<1>1. TeamInv => TeamTypeOK
    BY DEF TeamInv
<1> QED BY <1>1, TeamStarts, TeamInductive, PTL DEF TeamSpec

\* Whoever selects and whatever the artifacts bring: a diagnosis stands on
\* complete evidence that has not changed since, passes review in the last turn
\* or not at all, and the team keeps its bounds.
THEOREM DiagnosesAreGrounded == TeamSpec => []DiagnosisIsGrounded
<1>1. TeamSpec => []TeamInv
    BY TeamStarts, TeamInductive, PTL DEF TeamSpec
<1> QED BY <1>1, PTL DEF TeamInv

(***************************************************************************)
(* The model router (advanced/09).                                         *)
(***************************************************************************)
Calls(q, r) == {i \in DOMAIN q.calls : q.calls[i].route = r}

\* The call of the route for the reason may follow the first i - 1 calls.
Follows(q, i, route, reason) ==
    LET last == q.calls[i - 1] IN
    /\ reason \in {"RETRY", "PROVIDER_FALLBACK", "CASCADE_PROMOTION"}
    /\ reason = "RETRY" => route = last.route /\ last.result = "RETRYABLE"
    /\ reason # "RETRY" =>
         /\ SameContract(route, last.route)
         /\ \A j \in 1 .. i - 1 : q.calls[j].route # route
    /\ reason = "PROVIDER_FALLBACK" =>
         /\ Provider(route) # Provider(last.route)
         /\ last.result \in Recoverable \cup {"CONTENT_REJECTED"}
    /\ reason = "CASCADE_PROMOTION" => last.result = "BELOW_GATE" /\ Better(route, last.route)

\* What the calls made so far have used, and that each had its reason.
Past(q) ==
    /\ Len(q.calls) <= q.context.attempts
    /\ Cardinality({Provider(s) : s \in Attempted(q)}) <= q.context.providers
    /\ Cardinality(CallsOf(q, "PROVIDER_FALLBACK")) <= q.fallbacks
    /\ q.fallbacks <= q.context.fallbacks
    /\ \A r \in Routes : Cardinality(Calls(q, r)) <= 1 + q.retries[r] /\ q.retries[r] <= Policy.retries
    /\ \A i \in DOMAIN q.calls \ {1} : Follows(q, i, q.calls[i].route, q.calls[i].reason)

\* The call that comes next is paid for in fallbacks and retries before it is
\* made, and remembers what it recovers from.
Coming(q) ==
    /\ q.spent <= q.context.cost
    /\ q.reason = "PROVIDER_FALLBACK" =>
         Cardinality(CallsOf(q, "PROVIDER_FALLBACK")) + 1 <= q.fallbacks
    /\ Cardinality(Calls(q, q.route)) <= q.retries[q.route]
    /\ q.calls = << >> => q.reason \in {"INITIAL", "POLICY_REROUTE"}
    /\ q.calls # << >> =>
         LET last == q.calls[Len(q.calls)] IN
         /\ Follows(q, Len(q.calls) + 1, q.route, q.reason)
         /\ q.reason \in {"RETRY", "PROVIDER_FALLBACK"} =>
              q.primary = last.route /\ last.result \in Recoverable \cup {"CONTENT_REJECTED"}
         /\ q.reason = "CASCADE_PROMOTION" => q.origin = last.route /\ last.result = "BELOW_GATE"

Admission(q) == Len(q.calls) < q.context.attempts /\ ProviderFits(q, q.route)

RequestInv(q) ==
    /\ q \in Request /\ Past(q)
    /\ q.phase # "DONE" => Coming(q)
    /\ q.phase \in {"ADMITTED", "CALLING"} => Admission(q)

RouterInv == RouterTypeOK /\ \A c \in Clients : RequestInv(routing[c])

\* The fields that a step writes.
LEMMA EndedFields ==
    ASSUME NEW q \in Request, NEW end \in Ends
    PROVE  LET n == Ended(q, end) IN
           /\ n \in Request /\ n.phase = "DONE" /\ n.calls = q.calls /\ n.context = q.context
           /\ n.fallbacks = q.fallbacks /\ n.retries = q.retries /\ n.spent = q.spent
    BY DEF Request, Ended

LEMMA TowardsFields ==
    ASSUME NEW q \in Request, NEW r \in Routes, NEW reason \in Reasons
    PROVE  LET n == Towards(q, r, reason) IN
           /\ n \in Request /\ n.phase = "DECIDING" /\ n.calls = q.calls /\ n.context = q.context
           /\ n.fallbacks = q.fallbacks /\ n.retries = q.retries /\ n.spent = q.spent
           /\ n.route = r /\ n.reason = reason /\ n.primary = q.primary /\ n.origin = q.origin
    BY DEF Request, Towards

LEMMA PhaseFields ==
    ASSUME NEW q \in Request, NEW phase \in {"ADMITTED", "CALLING"}
    PROVE  LET n == [q EXCEPT !.phase = phase] IN
           /\ n \in Request /\ n.phase = phase /\ n.calls = q.calls /\ n.context = q.context
           /\ n.fallbacks = q.fallbacks /\ n.retries = q.retries /\ n.spent = q.spent
           /\ n.route = q.route /\ n.reason = q.reason /\ n.primary = q.primary
           /\ n.origin = q.origin
    BY DEF Request

LEMMA LiveFields ==
    ASSUME NEW q \in Request, NEW n \in Live(q)
    PROVE  /\ n \in Request /\ n.phase = q.phase /\ n.calls = q.calls /\ n.context = q.context
           /\ n.fallbacks = q.fallbacks /\ n.retries = q.retries /\ n.spent = q.spent
           /\ n.route = q.route /\ n.reason = q.reason /\ n.primary = q.primary
           /\ n.origin = q.origin
<1>1. CASE n = q
    BY <1>1
<1>2. ASSUME NEW r \in Routes, NEW k \in {0, Capacity},
             n = Measured(q, r, k)
      PROVE  /\ n \in Request /\ n.phase = q.phase /\ n.calls = q.calls /\ n.context = q.context
             /\ n.fallbacks = q.fallbacks /\ n.retries = q.retries /\ n.spent = q.spent
             /\ n.route = q.route /\ n.reason = q.reason /\ n.primary = q.primary
             /\ n.origin = q.origin
  <2>1. PICK h : h = [q.headroom EXCEPT ![r] = k]
      OBVIOUS
  <2>2. h \in [Routes -> Nat]
    <3>1. q.headroom \in [Routes -> Nat] /\ k \in Nat
      <4>1. Capacity \in Nat
          BY RouterAssumption
      <4> QED BY <4>1 DEF Request
    <3> QED BY <2>1, <3>1
  <2>3. PICK u \in Nat : u = Len(q.calls) + 1
      BY DEF Request
  <2>4. n = [q EXCEPT !.headroom = h, !.updated = u]
      BY <1>2, <2>1, <2>3 DEF Request, Measured
  <2> QED BY <2>2, <2>4 DEF Request
<1> QED BY <1>1, <1>2 DEF Live, Unmeasured

LEMMA CallFields ==
    ASSUME NEW q \in Request, NEW reply \in Replies, NEW latency \in Nat, NEW price \in Nat
    PROVE  LET n == AfterCall(q, reply, latency, price) IN
           /\ n \in Request /\ n.phase = q.phase /\ n.context = q.context
           /\ n.calls = Append(q.calls, [route |-> q.route, reason |-> q.reason, result |-> reply])
           /\ n.fallbacks = q.fallbacks /\ n.retries = q.retries /\ n.spent = q.spent + price
           /\ n.route = q.route /\ n.reason = q.reason
<1> DEFINE now == q.now + latency
           paid == q.spent + price
           room == [q.headroom EXCEPT ![q.route] = Least0(@, 1)]
           calls == Append(q.calls, [route |-> q.route, reason |-> q.reason, result |-> reply])
<1>1. now \in Nat /\ paid \in Nat
    BY DEF Request
<1>2. room \in [Routes -> Nat]
  <2>1. q.headroom \in [Routes -> Nat] /\ q.route \in Routes
      BY DEF Request
  <2>2. Least0(q.headroom[q.route], 1) \in Nat
      BY <2>1 DEF Least0
  <2> QED BY <2>1, <2>2
<1>3. calls \in Seq([route : Routes, reason : Reasons, result : Replies])
  <2>1. [route |-> q.route, reason |-> q.reason, result |-> reply]
          \in [route : Routes, reason : Reasons, result : Replies]
      BY DEF Request
  <2> QED BY <2>1, AppendProperties DEF Request
<1>4. AfterCall(q, reply, latency, price) =
        [q EXCEPT !.now = now, !.spent = paid, !.headroom = room, !.calls = calls]
    BY DEF AfterCall, Request
<1> HIDE DEF now, paid, room, calls
<1> DEFINE n == [q EXCEPT !.now = now, !.spent = paid, !.headroom = room, !.calls = calls]
<1>5. /\ n \in Request /\ n.phase = q.phase /\ n.context = q.context /\ n.calls = calls
      /\ n.fallbacks = q.fallbacks /\ n.retries = q.retries /\ n.spent = paid
      /\ n.route = q.route /\ n.reason = q.reason
    BY <1>1, <1>2, <1>3 DEF Request
<1> HIDE DEF n
<1> QED BY <1>4, <1>5 DEF paid, calls, n

\* The past depends on what was called and on what it was charged for.
LEMMA PastStays ==
    ASSUME NEW q \in Request, NEW n \in Request, Past(q), n.calls = q.calls,
           n.context = q.context, n.retries = q.retries, n.fallbacks = q.fallbacks
    PROVE  Past(n)
<1>1. Attempted(n) = Attempted(q) /\ \A r : Calls(n, r) = Calls(q, r)
    BY DEF Attempted, Calls
<1>2. CallsOf(n, "PROVIDER_FALLBACK") = CallsOf(q, "PROVIDER_FALLBACK")
    BY DEF CallsOf
<1>3. \A i, route, reason : Follows(n, i, route, reason) <=> Follows(q, i, route, reason)
    BY DEF Follows
<1> QED BY <1>1, <1>2, <1>3 DEF Past

LEMMA EndedInv ==
    ASSUME NEW q \in Request, Past(q), NEW end \in Ends
    PROVE  RequestInv(Ended(q, end))
<1>1. PICK n \in Request : /\ n = Ended(q, end) /\ n.phase = "DONE" /\ n.calls = q.calls
                           /\ n.context = q.context /\ n.fallbacks = q.fallbacks
                           /\ n.retries = q.retries
    BY EndedFields
<1>2. Past(n)
    BY <1>1, PastStays
<1> QED BY <1>1, <1>2 DEF RequestInv

\* The counts of a request are numbers.
LEMMA CountsAreNat ==
    ASSUME NEW q \in Request
    PROVE  /\ Len(q.calls) \in Nat /\ DOMAIN q.calls = 1 .. Len(q.calls)
           /\ \A r : IsFiniteSet(Calls(q, r)) /\ Cardinality(Calls(q, r)) \in Nat
           /\ \A x : IsFiniteSet(CallsOf(q, x)) /\ Cardinality(CallsOf(q, x)) \in Nat
           /\ Attempted(q) \subseteq Routes
           /\ q.calls = << >> <=> Len(q.calls) = 0
<1>1. Len(q.calls) \in Nat /\ DOMAIN q.calls = 1 .. Len(q.calls)
      /\ q.calls = << >> <=> Len(q.calls) = 0
    BY DEF Request
<1>2. IsFiniteSet(1 .. Len(q.calls))
    BY <1>1, FS_Interval
<1>3. ASSUME NEW S \in SUBSET (1 .. Len(q.calls))
      PROVE  IsFiniteSet(S) /\ Cardinality(S) \in Nat
    BY <1>2, FS_Subset, FS_CardinalityType
<1>4. \A r : Calls(q, r) \in SUBSET (1 .. Len(q.calls))
    BY <1>1 DEF Calls
<1>5. \A x : CallsOf(q, x) \in SUBSET (1 .. Len(q.calls))
    BY <1>1 DEF CallsOf
<1>6. \A i \in 1 .. Len(q.calls) : q.calls[i] \in [route : Routes, reason : Reasons, result : Replies]
    BY <1>1, ElementOfSeq, Zenon DEF Request
<1>7. Attempted(q) \subseteq Routes
    BY <1>1, <1>6 DEF Attempted
<1> QED BY <1>1, <1>3, <1>4, <1>5, <1>7

\* A request may be charged with more fallbacks or retries, within its bounds.
LEMMA Charged ==
    ASSUME NEW q \in Request, NEW n \in Request, Past(q), n.calls = q.calls,
           n.context = q.context,
           \A r \in Routes : q.retries[r] <= n.retries[r] /\ n.retries[r] <= Policy.retries,
           Cardinality(CallsOf(q, "PROVIDER_FALLBACK")) <= n.fallbacks,
           n.fallbacks <= q.context.fallbacks
    PROVE  Past(n)
<1>1. Attempted(n) = Attempted(q) /\ \A r : Calls(n, r) = Calls(q, r)
    BY DEF Attempted, Calls
<1>2. CallsOf(n, "PROVIDER_FALLBACK") = CallsOf(q, "PROVIDER_FALLBACK")
    BY DEF CallsOf
<1>3. \A i, route, reason : Follows(n, i, route, reason) <=> Follows(q, i, route, reason)
    BY DEF Follows
<1>4. \A r \in Routes : Cardinality(Calls(n, r)) <= 1 + n.retries[r]
  <2>1. \A r \in Routes : Cardinality(Calls(q, r)) \in Nat /\ q.retries[r] \in Nat
                         /\ n.retries[r] \in Nat
      BY CountsAreNat DEF Request
  <2> QED BY <1>1, <2>1 DEF Past
<1> QED BY <1>1, <1>2, <1>3, <1>4 DEF Past

\* A route that was not attempted has no calls.
LEMMA FreshRoute ==
    ASSUME NEW q \in Request, NEW r \in Routes \ Attempted(q)
    PROVE  Calls(q, r) = {} /\ Cardinality(Calls(q, r)) = 0
           /\ \A j \in 1 .. Len(q.calls) : q.calls[j].route # r
<1>1. \A j \in DOMAIN q.calls : q.calls[j].route # r
    BY DEF Attempted
<1>2. Calls(q, r) = {}
    BY <1>1 DEF Calls
<1> QED BY <1>1, <1>2, FS_EmptySet, CountsAreNat

\* The request goes on to a call whose reason is given: what Coming asks of the
\* route, the reason and what it remembers is all there is to show.
LEMMA OnwardInv ==
    ASSUME NEW q \in Request, NEW n \in Request, Past(q), n.phase = "DECIDING",
           n.calls = q.calls, n.context = q.context, n.retries = q.retries,
           n.fallbacks = q.fallbacks, Coming(n)
    PROVE  RequestInv(n)
    BY PastStays DEF RequestInv

\* A route is replaced in the way it was come by.
LEMMA ReplacedInv ==
    ASSUME NEW q, RequestInv(q), q.phase = "DECIDING", NEW eligible \in SUBSET Routes,
           NEW n \in Replaced(q, eligible)
    PROVE  RequestInv(n)
<1>1. q \in Request /\ Past(q) /\ Coming(q) /\ q.reason \in Reasons /\ q.route \in Routes
      /\ q.primary \in Routes /\ q.origin \in Routes
    BY DEF RequestInv, Request
<1>2. /\ Len(q.calls) \in Nat /\ (q.calls = << >> <=> Len(q.calls) = 0)
      /\ Attempted(q) \subseteq Routes /\ q.retries \in [Routes -> Nat]
      /\ \A x : Cardinality(CallsOf(q, x)) \in Nat
      /\ q.fallbacks \in Nat /\ q.context.fallbacks \in Nat
    BY <1>1, CountsAreNat, RouterAssumption DEF Request
<1>3. \A end \in Ends : n = Ended(q, end) => RequestInv(n)
    BY <1>1, EndedInv
<1>4. CASE q.reason = "CASCADE_PROMOTION"
  <2>1. \/ n = Ended(q, "QUALITY_GATE_FAILED")
        \/ \E r \in PromotionsFor(q, q.origin, eligible) : n = Towards(q, r, "CASCADE_PROMOTION")
      BY <1>4 DEF Replaced
  <2>2. ASSUME NEW r \in PromotionsFor(q, q.origin, eligible), n = Towards(q, r, "CASCADE_PROMOTION")
        PROVE  RequestInv(n)
    <3>1. r \in Routes \ Attempted(q) /\ SameContract(r, q.origin) /\ Better(r, q.origin)
        BY <2>2 DEF PromotionsFor, Stronger
    <3>2. /\ n \in Request /\ n.phase = "DECIDING" /\ n.calls = q.calls /\ n.context = q.context
          /\ n.fallbacks = q.fallbacks /\ n.retries = q.retries /\ n.spent = q.spent
          /\ n.route = r /\ n.reason = "CASCADE_PROMOTION" /\ n.primary = q.primary
          /\ n.origin = q.origin
      <4>1. PICK reason \in Reasons : reason = "CASCADE_PROMOTION"
          BY DEF Reasons
      <4> QED BY <1>1, <2>2, <3>1, <4>1, TowardsFields
    <3>3. q.calls # << >>
        BY <1>1, <1>4 DEF Coming
    <3>4. /\ q.origin = q.calls[Len(q.calls)].route
          /\ q.calls[Len(q.calls)].result = "BELOW_GATE"
        BY <1>1, <1>4, <3>3 DEF Coming
    <3>5. Follows(n, Len(n.calls) + 1, n.route, n.reason)
      <4>1. Len(n.calls) + 1 - 1 = Len(q.calls)
          BY <1>2, <3>2
      <4> QED BY <1>1, <3>1, <3>2, <3>4, <4>1, FreshRoute DEF Follows
    <3>6. Cardinality(Calls(n, n.route)) <= n.retries[n.route]
      <4>1. Calls(n, n.route) = Calls(q, r)
          BY <3>2 DEF Calls
      <4> QED BY <1>1, <1>2, <3>1, <3>2, <4>1, FreshRoute
    <3>7. Coming(n)
        BY <1>1, <3>2, <3>3, <3>4, <3>5, <3>6 DEF Coming
    <3> QED BY <1>1, <3>2, <3>7, OnwardInv
  <2> QED BY <1>3, <2>1, <2>2 DEF Ends
<1>5. CASE q.reason \in {"PROVIDER_FALLBACK", "RETRY"}
  <2> DEFINE other == {r \in FallbacksFor(q.primary, eligible) \ (Attempted(q) \cup {q.route}) :
                          ProviderFits(q, r)}
  <2>1. \/ n = Ended(q, "PROVIDER_FAILURE")
        \/ /\ q.fallbacks < q.context.fallbacks
           /\ \E r \in other : n = [Towards(q, r, "PROVIDER_FALLBACK") EXCEPT
                                  !.fallbacks = IF q.reason = "RETRY" THEN @ + 1 ELSE @]
      BY <1>2, <1>5 DEF Replaced
  <2>2. ASSUME q.fallbacks < q.context.fallbacks, NEW r \in other,
               n = [Towards(q, r, "PROVIDER_FALLBACK") EXCEPT
                                  !.fallbacks = IF q.reason = "RETRY" THEN @ + 1 ELSE @]
        PROVE  RequestInv(n)
    <3>1. /\ r \in Routes \ Attempted(q) /\ SameContract(r, q.primary)
          /\ Provider(r) # Provider(q.primary)
        BY <2>2 DEF FallbacksFor
    <3>2. PICK m \in Request :
             /\ m = Towards(q, r, "PROVIDER_FALLBACK")
             /\ m.phase = "DECIDING" /\ m.calls = q.calls /\ m.context = q.context
             /\ m.fallbacks = q.fallbacks /\ m.retries = q.retries /\ m.spent = q.spent
             /\ m.route = r /\ m.reason = "PROVIDER_FALLBACK" /\ m.primary = q.primary
             /\ m.origin = q.origin
        BY <1>1, <3>1, TowardsFields DEF Reasons
    <3>3. PICK k \in Nat : k = IF q.reason = "RETRY" THEN q.fallbacks + 1 ELSE q.fallbacks
        BY <1>2
    <3>4. n = [m EXCEPT !.fallbacks = k]
        BY <2>2, <3>2, <3>3
    <3>5. /\ n \in Request /\ n.phase = "DECIDING" /\ n.calls = q.calls /\ n.context = q.context
          /\ n.fallbacks = k /\ n.retries = q.retries /\ n.spent = q.spent
          /\ n.route = r /\ n.reason = "PROVIDER_FALLBACK" /\ n.primary = q.primary
        BY <3>2, <3>4 DEF Request
    <3>6. q.calls # << >>
        BY <1>1, <1>5 DEF Coming
    <3>7. /\ q.primary = q.calls[Len(q.calls)].route
          /\ q.calls[Len(q.calls)].result \in Recoverable \cup {"CONTENT_REJECTED"}
        BY <1>1, <1>5, <3>6 DEF Coming
    <3>8. Follows(n, Len(n.calls) + 1, n.route, n.reason)
      <4>1. Len(n.calls) + 1 - 1 = Len(q.calls)
          BY <1>2, <3>5
      <4> QED BY <1>1, <3>1, <3>5, <3>7, <4>1, FreshRoute DEF Follows
    <3>9. Cardinality(Calls(n, n.route)) <= n.retries[n.route]
      <4>1. Calls(n, n.route) = Calls(q, r)
          BY <3>5 DEF Calls
      <4> QED BY <1>1, <1>2, <3>1, <3>5, <4>1, FreshRoute
    <3>10. CallsOf(n, "PROVIDER_FALLBACK") = CallsOf(q, "PROVIDER_FALLBACK")
        BY <3>5 DEF CallsOf
    <3>11. Cardinality(CallsOf(q, "PROVIDER_FALLBACK")) + 1 <= k
        BY <1>1, <1>2, <1>5, <3>3 DEF Coming, Past
    <3>12. Coming(n)
        BY <1>1, <3>5, <3>6, <3>7, <3>8, <3>9, <3>10, <3>11 DEF Coming
    <3>13. Past(n)
      <4>1. k <= q.context.fallbacks /\ Cardinality(CallsOf(q, "PROVIDER_FALLBACK")) <= k
          BY <1>1, <1>2, <2>2, <3>3 DEF Past
      <4>2. \A x \in Routes : q.retries[x] <= n.retries[x] /\ n.retries[x] <= Policy.retries
          BY <1>1, <1>2, <3>5 DEF Past
      <4> QED BY <1>1, <3>5, <4>1, <4>2, Charged
    <3> QED BY <3>5, <3>12, <3>13 DEF RequestInv
  <2> QED BY <1>3, <2>1, <2>2 DEF Ends
<1>6. CASE q.reason \in {"INITIAL", "POLICY_REROUTE"}
  <2>1. \/ n = Ended(q, "NO_ELIGIBLE_ROUTE")
        \/ \E r \in eligible : n = Towards(q, r, "POLICY_REROUTE")
      BY <1>6 DEF Replaced
  <2>2. ASSUME NEW r \in eligible, n = Towards(q, r, "POLICY_REROUTE")
        PROVE  RequestInv(n)
    <3>1. q.calls = << >>
        BY <1>1, <1>6 DEF Coming, Follows
    <3>2. /\ n \in Request /\ n.phase = "DECIDING" /\ n.calls = q.calls /\ n.context = q.context
          /\ n.fallbacks = q.fallbacks /\ n.retries = q.retries /\ n.spent = q.spent
          /\ n.route = r /\ n.reason = "POLICY_REROUTE"
      <4>1. PICK reason \in Reasons : reason = "POLICY_REROUTE"
          BY DEF Reasons
      <4>2. q \in Request /\ r \in Routes BY <1>1
      <4>3. n = Towards(q, r, reason) BY <2>2, <4>1
      <4> QED BY <2>2, <4>1, <4>2, <4>3, TowardsFields
    <3>3. Calls(n, n.route) = {}
      <4>1. DOMAIN n.calls = {}
          BY <3>1, <3>2
      <4> QED BY <4>1 DEF Calls
    <3>4. Cardinality(Calls(n, n.route)) <= n.retries[n.route]
        BY <1>2, <3>2, <3>3, FS_EmptySet
    <3>5. Coming(n)
        BY <1>1, <3>1, <3>2, <3>4 DEF Coming
    <3> QED BY <1>1, <3>2, <3>5, OnwardInv
  <2> QED BY <1>3, <2>1, <2>2 DEF Ends
<1> QED BY <1>1, <1>4, <1>5, <1>6 DEF Reasons

\* What comes next depends on the calls, the charges and what is remembered.
LEMMA ComingStays ==
    ASSUME NEW q \in Request, NEW n \in Request, Coming(q), n.calls = q.calls,
           n.context = q.context, n.fallbacks = q.fallbacks, n.retries = q.retries,
           n.spent = q.spent, n.route = q.route, n.reason = q.reason,
           n.primary = q.primary, n.origin = q.origin
    PROVE  Coming(n)
<1>1. \A r : Calls(n, r) = Calls(q, r)
    BY DEF Calls
<1>2. CallsOf(n, "PROVIDER_FALLBACK") = CallsOf(q, "PROVIDER_FALLBACK")
    BY DEF CallsOf
<1>3. \A i, route, reason : Follows(n, i, route, reason) <=> Follows(q, i, route, reason)
    BY DEF Follows
<1> QED BY <1>1, <1>2, <1>3 DEF Coming

\* Steps that change neither the calls nor what is charged for them.
LEMMA SameStanding ==
    ASSUME NEW q \in Request, RequestInv(q), NEW n \in Request, n.phase = q.phase,
           n.calls = q.calls, n.context = q.context, n.fallbacks = q.fallbacks,
           n.retries = q.retries, n.spent = q.spent, n.route = q.route, n.reason = q.reason,
           n.primary = q.primary, n.origin = q.origin
    PROVE  RequestInv(n)
<1>1. Past(n)
    BY PastStays DEF RequestInv
<1>2. Coming(q) => Coming(n)
    BY ComingStays
<1>3. Admission(q) => Admission(n)
    BY DEF Admission, ProviderFits, Attempted
<1> QED BY <1>1, <1>2, <1>3 DEF RequestInv

\* An admitted request goes on to the breaker, and to its call.
LEMMA AdvancedInv ==
    ASSUME NEW q \in Request, RequestInv(q), q.phase # "DONE", Admission(q),
           NEW phase \in {"ADMITTED", "CALLING"}
    PROVE  RequestInv([q EXCEPT !.phase = phase])
<1>1. PICK n \in Request :
        /\ n = [q EXCEPT !.phase = phase] /\ n.phase = phase /\ n.calls = q.calls
        /\ n.context = q.context /\ n.fallbacks = q.fallbacks /\ n.retries = q.retries
        /\ n.spent = q.spent /\ n.route = q.route /\ n.reason = q.reason
        /\ n.primary = q.primary /\ n.origin = q.origin
    BY PhaseFields
<1>2. Past(n)
    BY <1>1, PastStays DEF RequestInv
<1>3. Coming(n)
    BY <1>1, ComingStays DEF RequestInv
<1>4. Admission(n)
    BY <1>1 DEF Admission, ProviderFits, Attempted
<1> QED BY <1>1, <1>2, <1>3, <1>4 DEF RequestInv

\* One more element makes a set larger by one at most.
LEMMA OneMore ==
    ASSUME NEW S, IsFiniteSet(S), NEW x
    PROVE  Cardinality(S \cup {x}) <= Cardinality(S) + 1 /\ Cardinality(S \cup {x}) \in Nat
<1>1. IsFiniteSet(S \cup {x}) /\ Cardinality(S) \in Nat
    BY FS_AddElement, FS_CardinalityType
<1>2. Cardinality(S \cup {x}) \in Nat
    BY <1>1, FS_CardinalityType
<1>3. Cardinality(S \cup {x}) = Cardinality(S) \/ Cardinality(S \cup {x}) = Cardinality(S) + 1
    BY FS_AddElement
<1> QED BY <1>1, <1>2, <1>3

\* The answer turns the call that was to come into the last of the past.
LEMMA CallMade ==
    ASSUME NEW q, RequestInv(q), q.phase = "CALLING", NEW reply \in Replies,
           NEW latency \in Nat, NEW price \in Nat, NEW n,
           n = AfterCall(q, reply, latency, price)
    PROVE  /\ n \in Request /\ Past(n) /\ Len(n.calls) \in Nat \ {0}
           /\ n.calls[Len(n.calls)].route = n.route /\ n.calls[Len(n.calls)].result = reply
<1>1. q \in Request /\ Past(q) /\ Coming(q) /\ Admission(q)
    BY DEF RequestInv
<1>2. PICK call : call = [route |-> q.route, reason |-> q.reason, result |-> reply]
    OBVIOUS
<1>3. /\ n \in Request /\ n.context = q.context /\ n.calls = Append(q.calls, call)
      /\ n.fallbacks = q.fallbacks /\ n.retries = q.retries /\ n.route = q.route
    BY <1>1, <1>2, CallFields
<1>4. PICK k \in Nat : k = Len(q.calls) /\ DOMAIN q.calls = 1 .. k /\ (q.calls = << >> <=> k = 0)
    BY <1>1, CountsAreNat
<1>5. /\ Len(n.calls) = k + 1 /\ DOMAIN n.calls = 1 .. k + 1
      /\ n.calls[k + 1] = call /\ \A i \in 1 .. k : n.calls[i] = q.calls[i]
  <2>1. call \in [route : Routes, reason : Reasons, result : Replies]
      BY <1>1, <1>2 DEF Request
  <2>2. q.calls \in Seq([route : Routes, reason : Reasons, result : Replies])
      BY <1>1 DEF Request
  <2>3. Len(n.calls) \in Nat /\ DOMAIN n.calls = 1 .. Len(n.calls)
      BY <1>3, CountsAreNat
  <2> QED BY <1>3, <1>4, <2>1, <2>2, <2>3, AppendProperties
<1>6. Attempted(n) = Attempted(q) \cup {q.route}
  <2>1. call.route = q.route
      BY <1>2
  <2>2. DOMAIN n.calls = (DOMAIN q.calls) \cup {k + 1}
      BY <1>4, <1>5
  <2>3. \A i \in DOMAIN q.calls : n.calls[i] = q.calls[i]
      BY <1>4, <1>5
  <2>4. n.calls[k + 1].route = q.route
      BY <1>5, <2>1
  <2> QED BY <2>2, <2>3, <2>4 DEF Attempted
<1>7. Cardinality({Provider(s) : s \in Attempted(n)}) <= n.context.providers
    BY <1>1, <1>3, <1>6 DEF Admission, ProviderFits
<1>8. Len(n.calls) <= n.context.attempts
  <2>1. q.context \in Contexts
      BY <1>1 DEF Request
  <2>2. q.context.attempts \in Nat
      BY <2>1, RouterAssumption
  <2>3. k < q.context.attempts
      BY <1>1, <1>4 DEF Admission
  <2> QED BY <1>3, <1>5, <2>2, <2>3
<1>9. Cardinality(CallsOf(n, "PROVIDER_FALLBACK")) <= n.fallbacks
  <2>1. CallsOf(n, "PROVIDER_FALLBACK") =
          IF q.reason = "PROVIDER_FALLBACK" THEN CallsOf(q, "PROVIDER_FALLBACK") \cup {k + 1}
          ELSE CallsOf(q, "PROVIDER_FALLBACK")
    <3>1. /\ DOMAIN n.calls = (DOMAIN q.calls) \cup {k + 1}
          /\ \A i \in DOMAIN q.calls : n.calls[i] = q.calls[i]
        BY <1>4, <1>5
    <3>2. n.calls[k + 1].reason = q.reason
        BY <1>2, <1>5
    <3> QED BY <3>1, <3>2 DEF CallsOf
  <2>2. /\ IsFiniteSet(CallsOf(q, "PROVIDER_FALLBACK"))
        /\ Cardinality(CallsOf(q, "PROVIDER_FALLBACK")) \in Nat
      BY <1>1, CountsAreNat
  <2>3. Cardinality(CallsOf(q, "PROVIDER_FALLBACK") \cup {k + 1})
          <= Cardinality(CallsOf(q, "PROVIDER_FALLBACK")) + 1
      BY <2>2, OneMore
  <2>4. /\ q.fallbacks \in Nat
        /\ Cardinality(CallsOf(q, "PROVIDER_FALLBACK") \cup {k + 1}) \in Nat
      BY <1>1, <2>2, OneMore DEF Request
  <2>5. CASE q.reason = "PROVIDER_FALLBACK"
    <3>1. Cardinality(CallsOf(q, "PROVIDER_FALLBACK")) + 1 <= q.fallbacks
        BY <1>1, <2>5 DEF Coming
    <3>2. CallsOf(n, "PROVIDER_FALLBACK") = CallsOf(q, "PROVIDER_FALLBACK") \cup {k + 1}
        BY <2>1, <2>5
    <3>3. n.fallbacks = q.fallbacks
        BY <1>3
    <3>4. Cardinality(CallsOf(q, "PROVIDER_FALLBACK") \cup {k + 1}) <= q.fallbacks
        BY <2>2, <2>3, <2>4, <3>1
    <3> QED BY <3>2, <3>3, <3>4
  <2>6. CASE q.reason # "PROVIDER_FALLBACK"
    <3>1. Cardinality(CallsOf(q, "PROVIDER_FALLBACK")) <= q.fallbacks
        BY <1>1 DEF Past
    <3> QED BY <1>3, <2>1, <2>6, <3>1
  <2> QED BY <2>5, <2>6
<1>10. ASSUME NEW r \in Routes
       PROVE  Cardinality(Calls(n, r)) <= 1 + n.retries[r] /\ n.retries[r] <= Policy.retries
  <2>1. Calls(n, r) = IF r = q.route THEN Calls(q, r) \cup {k + 1} ELSE Calls(q, r)
    <3>1. /\ DOMAIN n.calls = (DOMAIN q.calls) \cup {k + 1}
          /\ \A i \in DOMAIN q.calls : n.calls[i] = q.calls[i]
        BY <1>4, <1>5
    <3>2. n.calls[k + 1].route = q.route
        BY <1>2, <1>5
    <3> QED BY <3>1, <3>2 DEF Calls
  <2>2. IsFiniteSet(Calls(q, r)) /\ Cardinality(Calls(q, r)) \in Nat /\ q.retries[r] \in Nat
      BY <1>1, CountsAreNat DEF Request
  <2>3. /\ Cardinality(Calls(q, r) \cup {k + 1}) <= Cardinality(Calls(q, r)) + 1
        /\ Cardinality(Calls(q, r) \cup {k + 1}) \in Nat
      BY <2>2, OneMore
  <2>4. Cardinality(Calls(q, r)) <= 1 + q.retries[r] /\ q.retries[r] <= Policy.retries
      BY <1>1 DEF Past
  <2>5. CASE r = q.route
    <3>1. Cardinality(Calls(q, r)) <= q.retries[r]
        BY <1>1, <2>5 DEF Coming
    <3> QED BY <1>3, <2>1, <2>2, <2>3, <2>4, <2>5, <3>1
  <2>6. CASE r # q.route
      BY <1>3, <2>1, <2>4, <2>6
  <2> QED BY <2>5, <2>6
<1>11. ASSUME NEW i \in 1 .. k + 1, i # 1, NEW route, NEW reason, Follows(q, i, route, reason)
       PROVE  Follows(n, i, route, reason)
  <2>1. i - 1 \in 1 .. k /\ \A j \in 1 .. i - 1 : j \in 1 .. k
      BY <1>11
  <2>2. n.calls[i - 1] = q.calls[i - 1] /\ \A j \in 1 .. i - 1 : n.calls[j] = q.calls[j]
      BY <1>5, <2>1
  <2> QED BY <1>11, <2>2 DEF Follows
<1>12. ASSUME NEW i \in DOMAIN n.calls \ {1}
       PROVE  Follows(n, i, n.calls[i].route, n.calls[i].reason)
  <2>1. CASE i \in 1 .. k
      BY <1>1, <1>4, <1>5, <1>11, <1>12, <2>1 DEF Past
  <2>2. CASE i = k + 1
    <3>1. q.calls # << >>
        BY <1>4, <1>12, <2>2
    <3>2. Follows(q, k + 1, q.route, q.reason)
        BY <1>1, <1>4, <3>1 DEF Coming
    <3>3. n.calls[i].route = q.route /\ n.calls[i].reason = q.reason
        BY <1>2, <1>5, <2>2
    <3> QED BY <1>4, <1>5, <1>11, <1>12, <2>2, <3>2, <3>3
  <2> QED BY <1>5, <2>1, <2>2
<1>13. n.fallbacks <= n.context.fallbacks
    BY <1>1, <1>3 DEF Past
<1>14. Past(n)
    BY <1>7, <1>8, <1>9, <1>10, <1>12, <1>13 DEF Past
<1> QED BY <1>2, <1>3, <1>4, <1>5, <1>14

\* The call that comes next names the last call's route and result.
LEMMA NextCall ==
    ASSUME NEW q \in Request, Len(q.calls) \in Nat \ {0}, q.calls[Len(q.calls)].route = q.route,
           NEW n \in Request, n.calls = q.calls, NEW r \in Routes \ Attempted(q),
           SameContract(r, q.route), n.route = r, n.reason \in {"PROVIDER_FALLBACK", "CASCADE_PROMOTION"},
           n.reason = "PROVIDER_FALLBACK" =>
               /\ Provider(r) # Provider(q.route)
               /\ q.calls[Len(q.calls)].result \in Recoverable \cup {"CONTENT_REJECTED"},
           n.reason = "CASCADE_PROMOTION" =>
               q.calls[Len(q.calls)].result = "BELOW_GATE" /\ Better(r, q.route)
    PROVE  /\ Follows(n, Len(n.calls) + 1, n.route, n.reason)
           /\ Cardinality(Calls(n, n.route)) <= n.retries[n.route]
<1>1. Len(n.calls) + 1 - 1 = Len(q.calls)
    OBVIOUS
<1>2. Follows(n, Len(n.calls) + 1, n.route, n.reason)
    BY <1>1, FreshRoute DEF Follows
<1>3. Calls(n, r) = Calls(q, r) /\ Cardinality(Calls(q, r)) = 0
    BY FreshRoute DEF Calls
<1>4. n.retries[r] \in Nat
    BY DEF Request
<1> QED BY <1>2, <1>3, <1>4

\* decide_failure_action: a retry of the route, a fallback, or the end.
LEMMA FailureInv ==
    ASSUME NEW q \in Request, Past(q), q.spent <= q.context.cost,
           Len(q.calls) \in Nat \ {0}, q.calls[Len(q.calls)].route = q.route,
           NEW reply, q.calls[Len(q.calls)].result = reply, NEW before, NEW view,
           NEW delay \in Nat, NEW n \in AfterFailure(q, before, view, reply, delay)
    PROVE  RequestInv(n)
<1>1. /\ q.route \in Routes /\ q.retries \in [Routes -> Nat] /\ q.fallbacks \in Nat
      /\ q.context.fallbacks \in Nat /\ q.now \in Nat /\ q.calls # << >>
      /\ Policy.retries \in Nat
    BY RouterAssumption, CountsAreNat DEF Request
<1>2. PICK raw : /\ raw \subseteq Routes \ Attempted(q)
                 /\ \A r \in raw : SameContract(r, q.route) /\ Provider(r) # Provider(q.route)
                 /\ \/ /\ reply = "RETRYABLE" /\ q.retries[q.route] < Policy.retries
                       /\ n = [Towards(q, q.route, "RETRY")
                               EXCEPT !.now = @ + delay, !.retries[q.route] = @ + 1,
                                      !.primary = q.route]
                    \/ /\ reply \in Recoverable \cup {"CONTENT_REJECTED"}
                       /\ q.fallbacks < q.context.fallbacks
                       /\ \E r \in raw : n = [Towards(q, r, "PROVIDER_FALLBACK")
                                              EXCEPT !.fallbacks = @ + 1, !.primary = q.route]
                    \/ n = Ended(q, "BUDGET_EXCEEDED") \/ n = Ended(q, "PROVIDER_FAILURE")
  <2> DEFINE E == EligibleRoutes(q, view, IF q.spent < q.context.cost THEN q.spent ELSE before.spent)
             R == FallbacksFor(q.route, E) \ Attempted(q)
  <2>1. R \subseteq Routes \ Attempted(q)
        /\ \A r \in R : SameContract(r, q.route) /\ Provider(r) # Provider(q.route)
      BY DEF FallbacksFor, EligibleRoutes
  <2>2. \/ /\ reply = "RETRYABLE" /\ q.retries[q.route] < Policy.retries
           /\ n = [Towards(q, q.route, "RETRY")
                   EXCEPT !.now = @ + delay, !.retries[q.route] = @ + 1, !.primary = q.route]
        \/ /\ reply \in Recoverable \cup {"CONTENT_REJECTED"}
           /\ q.fallbacks < q.context.fallbacks
           /\ \E r \in R : n = [Towards(q, r, "PROVIDER_FALLBACK")
                                EXCEPT !.fallbacks = @ + 1, !.primary = q.route]
        \/ n = Ended(q, "BUDGET_EXCEEDED") \/ n = Ended(q, "PROVIDER_FAILURE")
    <3> HIDE DEF E
    <3> QED BY DEF AfterFailure, E
  <2> HIDE DEF R
  <2> QED BY <2>1, <2>2
<1>3. ASSUME reply = "RETRYABLE", q.retries[q.route] < Policy.retries,
             n = [Towards(q, q.route, "RETRY")
                  EXCEPT !.now = @ + delay, !.retries[q.route] = @ + 1, !.primary = q.route]
      PROVE  RequestInv(n)
  <2>1. PICK reason \in Reasons : reason = "RETRY"
      BY DEF Reasons
  <2>2. PICK m \in Request :
           /\ m = Towards(q, q.route, reason)
           /\ m.phase = "DECIDING" /\ m.calls = q.calls /\ m.context = q.context
           /\ m.fallbacks = q.fallbacks /\ m.retries = q.retries /\ m.spent = q.spent
           /\ m.route = q.route /\ m.reason = reason
      BY <1>1, TowardsFields
  <2>3. PICK now \in Nat : now = m.now + delay
      BY DEF Request
  <2>4. PICK retries \in [Routes -> Nat] :
           /\ retries = [q.retries EXCEPT ![q.route] = @ + 1]
           /\ retries[q.route] = q.retries[q.route] + 1
           /\ \A r \in Routes \ {q.route} : retries[r] = q.retries[r]
    <3>1. PICK f : f = [q.retries EXCEPT ![q.route] = @ + 1]
        OBVIOUS
    <3>2. q.retries[q.route] + 1 \in Nat
        BY <1>1
    <3>3. f \in [Routes -> Nat]
        BY <1>1, <3>1, <3>2
    <3>4. f[q.route] = q.retries[q.route] + 1 /\ \A r \in Routes \ {q.route} : f[r] = q.retries[r]
        BY <1>1, <3>1
    <3> QED BY <3>1, <3>3, <3>4
  <2>5. n = [m EXCEPT !.now = now, !.retries = retries, !.primary = q.route]
      BY <1>3, <2>1, <2>2, <2>3, <2>4 DEF Request
  <2>6. /\ n \in Request /\ n.phase = "DECIDING" /\ n.calls = q.calls /\ n.context = q.context
        /\ n.fallbacks = q.fallbacks /\ n.retries = retries /\ n.spent = q.spent
        /\ n.route = q.route /\ n.reason = "RETRY" /\ n.primary = q.route
      BY <1>1, <2>1, <2>2, <2>5 DEF Request
  <2>7. Past(n)
    <3>1. \A r \in Routes : q.retries[r] <= n.retries[r] /\ n.retries[r] <= Policy.retries
        BY <1>1, <1>3, <2>4, <2>6 DEF Past
    <3> QED BY <2>6, <3>1, Charged DEF Past
  <2>8. Follows(n, Len(n.calls) + 1, n.route, n.reason)
    <3>1. Len(n.calls) + 1 - 1 = Len(q.calls)
        BY <2>6
    <3> QED BY <1>3, <2>6, <3>1 DEF Follows
  <2>9. Cardinality(Calls(n, n.route)) <= n.retries[n.route]
    <3>1. Calls(n, n.route) = Calls(q, q.route)
        BY <2>6 DEF Calls
    <3> QED BY <1>1, <2>4, <2>6, <3>1 DEF Past
  <2>10. Coming(n)
      BY <1>1, <1>3, <2>6, <2>8, <2>9 DEF Coming, Recoverable
  <2> QED BY <2>6, <2>7, <2>10 DEF RequestInv
<1>4. ASSUME reply \in Recoverable \cup {"CONTENT_REJECTED"}, q.fallbacks < q.context.fallbacks,
             NEW r \in raw,
             n = [Towards(q, r, "PROVIDER_FALLBACK") EXCEPT !.fallbacks = @ + 1, !.primary = q.route]
      PROVE  RequestInv(n)
  <2>1. PICK reason \in Reasons : reason = "PROVIDER_FALLBACK"
      BY DEF Reasons
  <2>2. r \in Routes \ Attempted(q) /\ SameContract(r, q.route)
        /\ Provider(r) # Provider(q.route)
      BY <1>2, <1>4
  <2>3. PICK m \in Request :
           /\ m = Towards(q, r, reason)
           /\ m.phase = "DECIDING" /\ m.calls = q.calls /\ m.context = q.context
           /\ m.fallbacks = q.fallbacks /\ m.retries = q.retries /\ m.spent = q.spent
           /\ m.route = r /\ m.reason = reason
      BY <2>2, TowardsFields
  <2>4. PICK k \in Nat : k = q.fallbacks + 1
      BY <1>1
  <2>5. n = [m EXCEPT !.fallbacks = k, !.primary = q.route]
      BY <1>4, <2>1, <2>3, <2>4 DEF Request
  <2>6. /\ n \in Request /\ n.phase = "DECIDING" /\ n.calls = q.calls /\ n.context = q.context
        /\ n.fallbacks = k /\ n.retries = q.retries /\ n.spent = q.spent
        /\ n.route = r /\ n.reason = "PROVIDER_FALLBACK" /\ n.primary = q.route
      BY <1>1, <2>1, <2>3, <2>5 DEF Request
  <2>7. Cardinality(CallsOf(q, "PROVIDER_FALLBACK")) \in Nat
        /\ Cardinality(CallsOf(q, "PROVIDER_FALLBACK")) <= q.fallbacks
      BY CountsAreNat DEF Past
  <2>8. Past(n)
    <3>1. \A x \in Routes : q.retries[x] <= n.retries[x] /\ n.retries[x] <= Policy.retries
        BY <1>1, <2>6 DEF Past
    <3>2. Cardinality(CallsOf(q, "PROVIDER_FALLBACK")) <= k /\ k <= q.context.fallbacks
        BY <1>1, <1>4, <2>4, <2>7
    <3> QED BY <2>6, <3>1, <3>2, Charged
  <2>9. CallsOf(n, "PROVIDER_FALLBACK") = CallsOf(q, "PROVIDER_FALLBACK")
      BY <2>6 DEF CallsOf
  <2>10. Follows(n, Len(n.calls) + 1, n.route, n.reason)
         /\ Cardinality(Calls(n, n.route)) <= n.retries[n.route]
      BY <1>4, <2>2, <2>6, NextCall
  <2>11. Coming(n)
      BY <1>1, <1>4, <2>4, <2>6, <2>7, <2>9, <2>10 DEF Coming
  <2> QED BY <2>6, <2>8, <2>11 DEF RequestInv
<1>5. \A end \in Ends : n = Ended(q, end) => RequestInv(n)
    BY EndedInv
<1> QED BY <1>2, <1>3, <1>4, <1>5 DEF Ends

\* The gate rejected the output: a better model, or the end.
LEMMA RejectionInv ==
    ASSUME NEW q \in Request, Past(q), q.spent <= q.context.cost,
           Len(q.calls) \in Nat \ {0}, q.calls[Len(q.calls)].route = q.route,
           q.calls[Len(q.calls)].result = "BELOW_GATE", NEW view,
           NEW n \in AfterRejection(q, view)
    PROVE  RequestInv(n)
<1>1. q.route \in Routes /\ q.calls # << >>
    BY CountsAreNat DEF Request
<1>2. \/ n \in {Ended(q, "BUDGET_EXCEEDED"), Ended(q, "DEADLINE_EXCEEDED"),
                Ended(q, "QUALITY_GATE_FAILED")}
      \/ \E r \in Stronger(q, q.route) :
            n = [Towards(q, r, "CASCADE_PROMOTION") EXCEPT !.origin = q.route]
  <2> DEFINE B == PromotionsFor(q, q.route, EligibleRoutes(q, view, q.spent))
  <2>1. B \subseteq Stronger(q, q.route)
      BY DEF PromotionsFor
  <2>2. \/ n \in {Ended(q, "BUDGET_EXCEEDED"), Ended(q, "DEADLINE_EXCEEDED"),
                  Ended(q, "QUALITY_GATE_FAILED")}
        \/ \E r \in B : n = [Towards(q, r, "CASCADE_PROMOTION") EXCEPT !.origin = q.route]
      BY DEF AfterRejection
  <2> HIDE DEF B
  <2> QED BY <2>1, <2>2
<1>3. ASSUME NEW r \in Stronger(q, q.route),
             n = [Towards(q, r, "CASCADE_PROMOTION") EXCEPT !.origin = q.route]
      PROVE  RequestInv(n)
  <2>1. PICK reason \in Reasons : reason = "CASCADE_PROMOTION"
      BY DEF Reasons
  <2>2. r \in Routes \ Attempted(q) /\ SameContract(r, q.route) /\ Better(r, q.route)
      BY <1>3 DEF Stronger
  <2>3. PICK m \in Request :
           /\ m = Towards(q, r, reason)
           /\ m.phase = "DECIDING" /\ m.calls = q.calls /\ m.context = q.context
           /\ m.fallbacks = q.fallbacks /\ m.retries = q.retries /\ m.spent = q.spent
           /\ m.route = r /\ m.reason = reason
      BY <2>2, TowardsFields
  <2>4. n = [m EXCEPT !.origin = q.route]
      BY <1>3, <2>1, <2>3
  <2>5. /\ n \in Request /\ n.phase = "DECIDING" /\ n.calls = q.calls /\ n.context = q.context
        /\ n.fallbacks = q.fallbacks /\ n.retries = q.retries /\ n.spent = q.spent
        /\ n.route = r /\ n.reason = "CASCADE_PROMOTION" /\ n.origin = q.route
      BY <1>1, <2>1, <2>3, <2>4 DEF Request
  <2>6. Follows(n, Len(n.calls) + 1, n.route, n.reason)
        /\ Cardinality(Calls(n, n.route)) <= n.retries[n.route]
      BY <2>2, <2>5, NextCall
  <2>7. Coming(n)
      BY <1>1, <2>5, <2>6 DEF Coming
  <2> QED BY <2>5, <2>7, OnwardInv
<1>4. \A end \in Ends : n = Ended(q, end) => RequestInv(n)
    BY EndedInv
<1> QED BY <1>2, <1>3, <1>4 DEF Ends
(***************************************************************************)
(* Each action keeps RequestInv of the request it is about.                *)
(***************************************************************************)

\* A step of one client leaves the others alone.
LEMMA OneClient ==
    ASSUME RouterInv, NEW c \in Clients, NEW n, RequestInv(n), Becomes(c, n),
           made' \in 0 .. MaxMade
    PROVE  RouterInv'
<1>1. n \in Request
    BY DEF RequestInv
<1>2. routing' = [routing EXCEPT ![c] = n] /\ routing \in [Clients -> Request]
    BY DEF Becomes, RouterInv, RouterTypeOK
<1>3. routing' \in [Clients -> Request]
    BY <1>1, <1>2
<1>4. \A d \in Clients : RequestInv(routing'[d])
    BY <1>2 DEF RouterInv
<1> QED BY <1>3, <1>4 DEF RouterInv, RouterTypeOK

\* A new request has used nothing yet.
LEMMA NewRequest ==
    ASSUME NEW context \in Contexts, NEW now \in Nat
    PROVE  LET q == FirstOf(context, now) IN
           /\ q \in Request /\ Past(q) /\ q.calls = << >> /\ q.spent = 0
           /\ q.context = context /\ q.retries = [r \in Routes |-> 0] /\ q.phase = "DECIDING"
<1> DEFINE q == FirstOf(context, now)
<1>1. /\ (CHOOSE r \in Routes : TRUE) \in Routes /\ Capacity \in Nat
    BY RouterAssumption
<1>2. [r \in Routes |-> 0] \in [Routes -> Nat] /\ [r \in Routes |-> Capacity] \in [Routes -> Nat]
    BY <1>1
<1>3. << >> \in Seq([route : Routes, reason : Reasons, result : Replies])
    OBVIOUS
<1>4. PICK end \in Ends \cup {"NONE"} : end = "NONE"
    OBVIOUS
<1>5. PICK reason \in Reasons : reason = "INITIAL"
    BY DEF Reasons
<1>6. q \in Request
    BY <1>1, <1>2, <1>3, <1>4, <1>5 DEF FirstOf, Request
<1>7. /\ q.calls = << >> /\ q.spent = 0 /\ q.context = context /\ q.fallbacks = 0
      /\ q.retries = [r \in Routes |-> 0] /\ q.phase = "DECIDING"
    BY DEF FirstOf
<1>8. DOMAIN q.calls = {} /\ Len(q.calls) = 0
  <2>1. q.calls = << >>
      BY <1>7
  <2>2. DOMAIN << >> = {} /\ Len(<< >>) = 0
      OBVIOUS
  <2> HIDE DEF q
  <2> QED BY <2>1, <2>2
<1> HIDE DEF q
<1>9. /\ Attempted(q) = {} /\ CallsOf(q, "PROVIDER_FALLBACK") = {}
      /\ \A r : Calls(q, r) = {}
    BY <1>8 DEF Attempted, CallsOf, Calls
<1>10. Cardinality({}) = 0
    BY FS_EmptySet
<1>11. {Provider(s) : s \in Attempted(q)} = {}
    BY <1>9
<1>12. /\ context.attempts \in Nat /\ context.providers \in Nat /\ context.fallbacks \in Nat
       /\ Policy.retries \in Nat
    BY RouterAssumption
<1>13. ASSUME NEW r \in Routes
       PROVE  Cardinality(Calls(q, r)) <= 1 + q.retries[r] /\ q.retries[r] <= Policy.retries
  <2>1. q.retries[r] = 0
      BY <1>7
  <2>2. Cardinality(Calls(q, r)) = 0
      BY <1>9, <1>10
  <2> QED BY <1>12, <2>1, <2>2
<1>14. Past(q)
  <2>1. Len(q.calls) <= q.context.attempts
      BY <1>7, <1>8, <1>12
  <2>2. Cardinality({Provider(s) : s \in Attempted(q)}) <= q.context.providers
    <3>1. Cardinality({Provider(s) : s \in Attempted(q)}) = 0
        BY <1>10, <1>11
    <3>2. q.context.providers \in Nat
        BY <1>7, <1>12
    <3> QED BY <3>1, <3>2
  <2>3. Cardinality(CallsOf(q, "PROVIDER_FALLBACK")) <= q.fallbacks
        /\ q.fallbacks <= q.context.fallbacks
    <3>1. Cardinality(CallsOf(q, "PROVIDER_FALLBACK")) = 0
        BY <1>9, <1>10
    <3>2. q.fallbacks = 0 /\ q.context.fallbacks \in Nat
        BY <1>7, <1>12
    <3> QED BY <3>1, <3>2
  <2> QED BY <1>8, <1>13, <2>1, <2>2, <2>3 DEF Past
<1> QED BY <1>6, <1>7, <1>14 DEF q

LEMMA MakeInv ==
    ASSUME RouterInv, NEW c \in Clients, Make(c)
    PROVE  RouterInv'
<1>1. made' \in 0 .. MaxMade
  <2>1. made \in Nat /\ MaxMade \in Nat
      BY RouterAssumption DEF RouterInv, RouterTypeOK
  <2> QED BY <2>1 DEF Make
<1>2. PICK context \in Contexts, now \in MadeAt :
        \/ Becomes(c, Ended(FirstOf(context, now), "CANCELLED"))
        \/ Becomes(c, Ended(FirstOf(context, now), "NO_ELIGIBLE_ROUTE"))
        \/ \E r \in Routes : Becomes(c, Towards(FirstOf(context, now), r, "INITIAL"))
    BY DEF Make, EligibleRoutes
<1>3. PICK q \in Request :
        /\ q = FirstOf(context, now) /\ Past(q) /\ q.calls = << >> /\ q.spent = 0
        /\ q.context = context /\ q.retries = [r \in Routes |-> 0]
  <2>1. now \in Nat
      BY RouterAssumption
  <2> QED BY <2>1, NewRequest
<1>4. \A end \in Ends : RequestInv(Ended(q, end))
    BY <1>3, EndedInv
<1>5. ASSUME NEW r \in Routes
      PROVE  RequestInv(Towards(q, r, "INITIAL"))
  <2>1. PICK reason \in Reasons : reason = "INITIAL"
      BY DEF Reasons
  <2>2. PICK n \in Request :
           /\ n = Towards(q, r, reason) /\ n.phase = "DECIDING" /\ n.calls = q.calls
           /\ n.context = q.context /\ n.fallbacks = q.fallbacks /\ n.retries = q.retries
           /\ n.spent = q.spent /\ n.route = r /\ n.reason = reason
      BY TowardsFields
  <2>3. Cardinality(Calls(n, r)) = 0
    <3>1. DOMAIN << >> = {}
        OBVIOUS
    <3>2. Calls(n, r) = {}
        BY <1>3, <2>2, <3>1 DEF Calls
    <3> QED BY <3>2, FS_EmptySet
  <2>4. context.cost \in Nat
      BY RouterAssumption
  <2>5. Coming(n)
      BY <1>3, <2>1, <2>2, <2>3, <2>4 DEF Coming
  <2> QED BY <1>3, <2>1, <2>2, <2>5, OnwardInv
<1>6. PICK n : RequestInv(n) /\ Becomes(c, n)
    BY <1>2, <1>3, <1>4, <1>5 DEF Ends
<1> QED BY <1>1, <1>6, OneClient

LEMMA CancelInv ==
    ASSUME RouterInv, NEW c \in Clients, CancelRequest(c)
    PROVE  RouterInv'
<1>1. routing \in [Clients -> Request] /\ made' \in 0 .. MaxMade
      /\ RequestInv(routing[c])
    BY DEF CancelRequest, RouterInv, RouterTypeOK
<1>2. PICK q \in Request : q = routing[c] /\ RequestInv(q)
    BY <1>1
<1>3. PICK n : n = [q EXCEPT !.cancelled = TRUE]
    OBVIOUS
<1>4. Becomes(c, n)
    BY <1>1, <1>2, <1>3 DEF CancelRequest, Becomes
<1>5. /\ n \in Request /\ n.phase = q.phase /\ n.calls = q.calls /\ n.context = q.context
      /\ n.fallbacks = q.fallbacks /\ n.retries = q.retries /\ n.spent = q.spent
      /\ n.route = q.route /\ n.reason = q.reason /\ n.primary = q.primary
      /\ n.origin = q.origin
    BY <1>3 DEF Request
<1> QED BY <1>1, <1>2, <1>4, <1>5, SameStanding, OneClient

LEMMA StopInv ==
    ASSUME RouterInv, NEW c \in Clients, StopBeforeCall(c)
    PROVE  RouterInv'
<1>1. routing[c] \in Request /\ made' \in 0 .. MaxMade /\ Past(routing[c])
    BY DEF StopBeforeCall, RouterInv, RouterTypeOK, RequestInv
<1>2. \E end \in Ends : Becomes(c, Ended(routing[c], end))
    BY DEF StopBeforeCall, Ends
<1> QED BY <1>1, <1>2, EndedInv, OneClient

LEMMA DecideInv ==
    ASSUME RouterInv, NEW c \in Clients, Decide(c)
    PROVE  RouterInv'
<1>1. /\ routing[c] \in Request /\ made' \in 0 .. MaxMade /\ RequestInv(routing[c])
      /\ routing[c].phase = "DECIDING" /\ Len(routing[c].calls) < routing[c].context.attempts
    BY DEF Decide, RouterInv, RouterTypeOK, RequestInv
<1>2. PICK q \in Live(routing[c]), eligible \in SUBSET Routes :
        \/ ProviderFits(q, q.route) /\ Becomes(c, [q EXCEPT !.phase = "ADMITTED"])
        \/ \E next \in Replaced(q, eligible) : Becomes(c, next)
  <2>1. \A q, view, paid : EligibleRoutes(q, view, paid) \in SUBSET Routes
      BY DEF EligibleRoutes
  <2>2. PICK q \in Live(routing[c]) :
          LET eligible == EligibleRoutes(q, View(q.now), q.spent) IN
          \/ ProviderFits(q, q.route) /\ Becomes(c, [q EXCEPT !.phase = "ADMITTED"])
          \/ \E next \in Replaced(q, eligible) : Becomes(c, next)
      BY DEF Decide
  <2> QED BY <2>1, <2>2
<1>3. PICK p \in Request : p = routing[c]
    BY <1>1
<1>4. /\ q \in Request /\ q.phase = p.phase /\ q.calls = p.calls /\ q.context = p.context
      /\ q.fallbacks = p.fallbacks /\ q.retries = p.retries /\ q.spent = p.spent
      /\ q.route = p.route /\ q.reason = p.reason /\ q.primary = p.primary
      /\ q.origin = p.origin
    BY <1>2, <1>3, LiveFields
<1>5. RequestInv(q)
    BY <1>1, <1>3, <1>4, SameStanding
<1>6. ASSUME ProviderFits(q, q.route)
      PROVE  RequestInv([q EXCEPT !.phase = "ADMITTED"])
    BY <1>1, <1>3, <1>4, <1>5, <1>6, AdvancedInv DEF Admission
<1>7. \A next \in Replaced(q, eligible) : RequestInv(next)
    BY <1>1, <1>3, <1>4, <1>5, ReplacedInv
<1>8. PICK n : RequestInv(n) /\ Becomes(c, n)
    BY <1>2, <1>6, <1>7
<1> QED BY <1>1, <1>8, OneClient

LEMMA AskInv ==
    ASSUME RouterInv, NEW c \in Clients, AskBreaker(c)
    PROVE  RouterInv'
<1>1. PICK q \in Request : q = routing[c] /\ RequestInv(q) /\ q.phase = "ADMITTED"
    BY DEF AskBreaker, RouterInv, RouterTypeOK
<1>2. made' \in 0 .. MaxMade
    BY DEF AskBreaker, RouterInv, RouterTypeOK
<1>3. \/ Becomes(c, [q EXCEPT !.phase = "CALLING"]) \/ Becomes(c, Ended(q, "PROVIDER_FAILURE"))
    BY <1>1 DEF AskBreaker
<1>4. RequestInv([q EXCEPT !.phase = "CALLING"])
    BY <1>1, AdvancedInv DEF RequestInv, Admission
<1>5. RequestInv(Ended(q, "PROVIDER_FAILURE"))
    BY <1>1, EndedInv DEF RequestInv, Ends
<1> QED BY <1>2, <1>3, <1>4, <1>5, OneClient

LEMMA AnsweredInv ==
    ASSUME RouterInv, NEW c \in Clients, Answered(c)
    PROVE  RouterInv'
<1>1. PICK p \in Request : p = routing[c] /\ RequestInv(p) /\ p.phase = "CALLING"
    BY DEF Answered, RouterInv, RouterTypeOK
<1>2. made' \in 0 .. MaxMade
    BY DEF Answered, RouterInv, RouterTypeOK
<1>3. PICK reply \in Replies, latency \in Latencies, price \in Prices, delay \in Delays,
           excessive \in BOOLEAN : AnsweredWith(c, reply, latency, price, delay, excessive)
    BY DEF Answered
<1>4. latency \in Nat /\ price \in Nat /\ delay \in Nat
    BY RouterAssumption
<1>5. PICK q \in Request :
        /\ q = AfterCall(p, reply, latency, price) /\ Past(q) /\ Len(q.calls) \in Nat \ {0}
        /\ q.calls[Len(q.calls)].route = q.route /\ q.calls[Len(q.calls)].result = reply
    BY <1>1, <1>4, CallMade
<1> DEFINE view == Looked(q.now, [breakers EXCEPT ![q.route] = Recorded(@, reply, q.now)])
<1>6. ~Overdrawn(q, excessive) => q.spent <= q.context.cost
  <2>1. q.context \in Contexts /\ q.spent \in Nat
      BY DEF Request
  <2>2. q.context.cost \in Nat
      BY <2>1, RouterAssumption
  <2> QED BY <2>1, <2>2 DEF Overdrawn
<1>7. \A end \in Ends : RequestInv(Ended(q, end))
    BY <1>5, EndedInv
<1>8. RequestInv(StopOverdrawn(q, excessive))
    BY <1>7 DEF StopOverdrawn, Ends
<1>9. ASSUME ~Overdrawn(q, excessive), reply = "BELOW_GATE", NEW next \in AfterRejection(q, view)
      PROVE  RequestInv(next)
    BY <1>5, <1>6, <1>9, RejectionInv
<1>10. ASSUME ~Overdrawn(q, excessive), NEW next \in AfterFailure(q, p, view, reply, delay)
       PROVE  RequestInv(next)
    BY <1>4, <1>5, <1>6, <1>10, FailureInv
<1>11. \/ Becomes(c, StopOverdrawn(q, excessive))
       \/ Becomes(c, Ended(q, "SUCCEEDED"))
       \/ /\ ~Overdrawn(q, excessive) /\ reply = "BELOW_GATE"
          /\ \E next \in AfterRejection(q, view) : Becomes(c, next)
       \/ /\ ~Overdrawn(q, excessive)
          /\ \E next \in AfterFailure(q, p, view, reply, delay) : Becomes(c, next)
    BY <1>1, <1>3, <1>5 DEF AnsweredWith
<1> HIDE DEF view
<1>12. PICK n : RequestInv(n) /\ Becomes(c, n)
    BY <1>7, <1>8, <1>9, <1>10, <1>11 DEF Ends
<1> QED BY <1>2, <1>12, OneClient

\* Before the first request nobody has called anything.
LEMMA RouterStart == RouterInit => RouterInv
<1> SUFFICES ASSUME RouterInit PROVE RouterInv
    OBVIOUS
<1>1. PICK context \in Contexts : context = CHOOSE x \in Contexts : TRUE
    BY RouterAssumption
<1>2. PICK q \in Request : q = FirstOf(context, 0) /\ Past(q)
    BY NewRequest
<1>3. PICK n : n = [q EXCEPT !.phase = "DONE"]
    OBVIOUS
<1>4. /\ n \in Request /\ n.phase = "DONE" /\ n.calls = q.calls /\ n.context = q.context
      /\ n.fallbacks = q.fallbacks /\ n.retries = q.retries
    BY <1>3 DEF Request
<1>5. RequestInv(n)
    BY <1>2, <1>4, PastStays DEF RequestInv
<1>6. routing = [c \in Clients |-> n]
    BY <1>1, <1>2, <1>3 DEF RouterInit
<1>7. MaxMade \in Nat
    BY RouterAssumption
<1> QED BY <1>4, <1>5, <1>6, <1>7 DEF RouterInv, RouterTypeOK, RouterInit

LEMMA RouterStep == RouterInv /\ [RouterNext]_routerVars => RouterInv'
<1> SUFFICES ASSUME RouterInv, [RouterNext]_routerVars PROVE RouterInv'
    OBVIOUS
<1>1. ASSUME NEW c \in Clients,
             Make(c) \/ CancelRequest(c) \/ StopBeforeCall(c) \/ Decide(c) \/ AskBreaker(c)
             \/ Answered(c)
      PROVE  RouterInv'
    BY <1>1, MakeInv, CancelInv, StopInv, DecideInv, AskInv, AnsweredInv
<1>2. CASE UNCHANGED routerVars
    BY <1>2 DEF routerVars, RouterInv, RouterTypeOK
<1> QED BY <1>1, <1>2 DEF RouterNext

\* A request keeps its budgets, and each of its calls has its reason.
LEMMA InvRecovers == RouterInv => RequestsRecoverInBounds
<1> SUFFICES ASSUME RouterInv PROVE RequestsRecoverInBounds
    OBVIOUS
<1>1. ASSUME NEW c \in Clients, NEW q \in Request, q = routing[c]
      PROVE  /\ Len(q.calls) <= q.context.attempts
             /\ Cardinality({Provider(r) : r \in Attempted(q)}) <= q.context.providers
             /\ Cardinality(CallsOf(q, "PROVIDER_FALLBACK")) <= q.fallbacks
             /\ q.fallbacks <= q.context.fallbacks
             /\ \A r \in Routes :
                  Cardinality({i \in DOMAIN q.calls : q.calls[i].route = r}) <= 1 + Policy.retries
             /\ q.spent > q.context.cost => q.phase = "DONE"
             /\ \A i \in DOMAIN q.calls \ {1} : Follows(q, i, q.calls[i].route, q.calls[i].reason)
  <2>1. RequestInv(q)
      BY <1>1 DEF RouterInv
  <2>2. ASSUME NEW r \in Routes
        PROVE  Cardinality(Calls(q, r)) <= 1 + Policy.retries
    <3>1. Cardinality(Calls(q, r)) <= 1 + q.retries[r] /\ q.retries[r] <= Policy.retries
        BY <2>1 DEF RequestInv, Past
    <3>2. Cardinality(Calls(q, r)) \in Nat /\ q.retries[r] \in Nat /\ Policy.retries \in Nat
        BY CountsAreNat, RouterAssumption DEF Request
    <3> QED BY <3>1, <3>2
  <2>3. q.spent > q.context.cost => q.phase = "DONE"
    <3>1. q.context \in Contexts /\ q.spent \in Nat
        BY DEF Request
    <3>2. q.context.cost \in Nat
        BY <3>1, RouterAssumption
    <3>3. q.phase # "DONE" => q.spent <= q.context.cost
        BY <2>1 DEF RequestInv, Coming
    <3> QED BY <3>1, <3>2, <3>3
  <2> QED BY <2>1, <2>2, <2>3 DEF RequestInv, Past, Calls
<1>2. routing \in [Clients -> Request]
    BY DEF RouterInv, RouterTypeOK
<1>3. RequestsStayWithinLimits
    BY <1>1, <1>2 DEF RequestsStayWithinLimits
<1>4. RecoveryHasItsReason
  <2> SUFFICES ASSUME NEW c \in Clients, NEW i \in DOMAIN routing[c].calls \ {1}
               PROVE  Follows(routing[c], i, routing[c].calls[i].route, routing[c].calls[i].reason)
      BY DEF RecoveryHasItsReason, Follows
  <2> QED BY <1>1, <1>2
<1> QED BY <1>3, <1>4 DEF RequestsRecoverInBounds

\* Every request stays well typed, for any routes, contexts and policies.
THEOREM RouterTypes == RouterSpec => []RouterTypeOK
<1>1. RouterInv => RouterTypeOK
    BY DEF RouterInv
<1> QED BY <1>1, RouterStart, RouterStep, PTL DEF RouterSpec

\* RequestsRecoverInBounds: in every reachable state a request of the router has
\* made no more attempts, used no more providers, fallbacks and retries than its
\* context and the policy allow, and every call after its first has its reason
\* in the call before (run_routing_case).
THEOREM RequestsRecover == RouterSpec => []RequestsRecoverInBounds
    BY RouterStart, RouterStep, InvRecovers, PTL DEF RouterSpec

(***************************************************************************)
(* The flow of the crews (advanced/03).                                    *)
(***************************************************************************)

\* The attempts of the synthesis, which cost two.
Syntheses(f) == {a \in f.attempted : a[1] = Synthesis}

\* The part of the record that only attempts and proposals change.
Spent(f) ==
    /\ f.calls = Cardinality(f.attempted) /\ f.calls <= CrewBudget.calls
    /\ f.cost = f.calls + Cardinality({a \in f.attempted : a[1] = Synthesis})
    /\ f.cost <= CrewBudget.cost
    /\ f.delegations = Cardinality(f.signatures)
    /\ f.delegations <= f.managers /\ f.managers <= CrewBudget.managers
    /\ IsFiniteSet(f.attempted) /\ IsFiniteSet(f.signatures)

\* ... and the part that only tasks and artifacts change.
Proceeded(f) ==
    /\ f.executed \subseteq Done(f) /\ Done(f) = AcceptedTasks(f)
    /\ \A i \in DOMAIN f.accepted :
          Dependencies(f.accepted[i].task) \subseteq {f.accepted[j].task : j \in 1 .. i - 1}
    /\ f.status = "COMPLETED" =>
          /\ Done(f) = CrewTasks
          /\ Leaves \subseteq UNION {f.accepted[i].cites : i \in DOMAIN f.accepted}

FlowInv(f) == f \in FlowStates /\ Spent(f) /\ Proceeded(f)

LEMMA FlowInvIs ==
    ASSUME NEW f
    PROVE  FlowInv(f) <=> AddsUp(f) /\ IsFiniteSet(f.attempted) /\ IsFiniteSet(f.signatures)
BY DEF FlowInv, Spent, Proceeded, AddsUp

LEMMA SpendingTypes ==
    ASSUME NEW f \in FlowStates, NEW attempted \in SUBSET (CrewTasks \X Nat), NEW calls \in Nat,
           NEW cost \in Nat, NEW executed \in SUBSET CrewTasks
    PROVE  [f EXCEPT !.attempted = attempted, !.calls = calls, !.cost = cost,
                     !.executed = executed] \in FlowStates
BY DEF FlowStates

LEMMA OneMoreIn ==
    ASSUME NEW S, NEW x, IsFiniteSet(S), x \notin S
    PROVE  IsFiniteSet(S \cup {x}) /\ Cardinality(S \cup {x}) = Cardinality(S) + 1
BY FS_AddElement

\* An attempt counts one call and the cost of its task.
LEMMA RegisterSpends ==
    ASSUME NEW f \in FlowStates, NEW t \in CrewTasks, NEW n \in Nat, NEW inTime, NEW status,
           Spent(f), Registrable(f, t, n, inTime)
    PROVE  /\ Register(f, t, n, status) \in FlowStates
           /\ Spent(Register(f, t, n, status))
           /\ Register(f, t, n, status).tasks = f.tasks
           /\ Register(f, t, n, status).accepted = f.accepted
           /\ Register(f, t, n, status).status = f.status
           /\ Register(f, t, n, status).managers = f.managers
           /\ Register(f, t, n, status).executed =
                IF status = "SUCCEEDED" THEN f.executed \cup {t} ELSE f.executed
<1> DEFINE g == Register(f, t, n, status)
           a == <<t, n>>
<1>1. /\ g.attempted = f.attempted \cup {a} /\ g.calls = f.calls + 1
      /\ g.cost = f.cost + CostOf(t)
      /\ g.executed = IF status = "SUCCEEDED" THEN f.executed \cup {t} ELSE f.executed
      /\ g.tasks = f.tasks /\ g.accepted = f.accepted /\ g.status = f.status
      /\ g.managers = f.managers /\ g.delegations = f.delegations /\ g.signatures = f.signatures
      /\ g.pending = f.pending
  BY DEF Register, FlowStates
<1>2. CostOf(t) \in Nat BY DEF CostOf
<1>3. a \in CrewTasks \X Nat /\ a[1] = t OBVIOUS
<1>4. g \in FlowStates
  <2>1. PICK attempted, calls, cost, executed :
          /\ attempted = f.attempted \cup {a} /\ calls = f.calls + 1 /\ cost = f.cost + CostOf(t)
          /\ executed = IF status = "SUCCEEDED" THEN f.executed \cup {t} ELSE f.executed
    OBVIOUS
  <2>2. attempted \in SUBSET (CrewTasks \X Nat) BY <1>3, <2>1 DEF FlowStates
  <2>3. calls \in Nat /\ cost \in Nat /\ executed \in SUBSET CrewTasks BY <1>2, <2>1 DEF FlowStates
  <2>4. g = [f EXCEPT !.attempted = attempted, !.calls = calls, !.cost = cost,
                      !.executed = executed]
    BY <2>1 DEF Register
  <2>5. [f EXCEPT !.attempted = attempted, !.calls = calls, !.cost = cost,
                  !.executed = executed] \in FlowStates
    BY <2>2, <2>3, SpendingTypes, Zenon
  <2> HIDE DEF g
  <2> QED BY <2>4, <2>5, Zenon
<1>5. /\ a \notin f.attempted /\ f.calls < CrewBudget.calls
      /\ f.cost + CostOf(t) <= CrewBudget.cost
  BY DEF Registrable
<1> HIDE DEF g, a
<1>6. IsFiniteSet(f.attempted) BY DEF Spent
<1>7. IsFiniteSet(g.attempted) /\ Cardinality(g.attempted) = Cardinality(f.attempted) + 1
  <2>1. g.attempted = f.attempted \cup {a} BY <1>1
  <2> QED BY <2>1, <1>5, <1>6, OneMoreIn
<1>8. Cardinality(Syntheses(g)) = Cardinality(Syntheses(f)) + CostOf(t) - 1
  <2>1. IsFiniteSet(Syntheses(f)) BY <1>6, FS_Subset DEF Syntheses
  <2>2. Cardinality(Syntheses(f)) \in Nat BY <2>1, FS_CardinalityType
  <2>3. CASE t = Synthesis
    <3>1. Syntheses(g) = Syntheses(f) \cup {a} BY <1>1, <1>3, <2>3 DEF Syntheses, a
    <3>2. a \notin Syntheses(f) BY <1>5 DEF Syntheses
    <3>3. Cardinality(Syntheses(g)) = Cardinality(Syntheses(f)) + 1 BY <2>1, <3>1, <3>2, OneMoreIn
    <3>4. CostOf(t) = 2 BY <2>3 DEF CostOf
    <3> QED BY <2>2, <3>3, <3>4
  <2>4. CASE t # Synthesis
    <3>1. Syntheses(g) = Syntheses(f) BY <1>1, <1>3, <2>4 DEF Syntheses, a
    <3>2. CostOf(t) = 1 BY <2>4 DEF CostOf
    <3> QED BY <2>2, <3>1, <3>2
  <2> QED BY <2>3, <2>4
<1>9. Spent(g)
  <2>1. Cardinality(Syntheses(f)) \in Nat BY <1>6, FS_Subset, FS_CardinalityType DEF Syntheses
  <2>2. f.calls \in Nat /\ f.cost \in Nat BY DEF FlowStates
  <2>3. CrewBudget.calls \in Nat /\ CrewBudget.cost \in Nat BY CrewAssumption
  <2>4. g.calls = Cardinality(g.attempted) /\ g.calls <= CrewBudget.calls
    BY <1>1, <1>5, <1>7, <2>2, <2>3 DEF Spent
  <2>5. f.cost = f.calls + Cardinality(Syntheses(f)) BY DEF Spent, Syntheses
  <2>6. g.cost = g.calls + Cardinality(Syntheses(g)) /\ g.cost <= CrewBudget.cost
    BY <1>1, <1>2, <1>5, <1>8, <2>1, <2>2, <2>3, <2>5
  <2> QED BY <1>1, <1>7, <2>4, <2>6 DEF Spent, Syntheses
<1> QED BY <1>1, <1>4, <1>9 DEF g

LEMMA AcceptingTypes ==
    ASSUME NEW f \in FlowStates, NEW tasks \in [CrewTasks -> TaskStates],
           NEW accepted \in Seq(AcceptedArtifacts)
    PROVE  [f EXCEPT !.tasks = tasks, !.accepted = accepted] \in FlowStates
BY DEF FlowStates

\* The artifacts that stand in order, with those they depend on before them.
InOrder(accepted) ==
    \A i \in DOMAIN accepted :
       Dependencies(accepted[i].task) \subseteq {accepted[j].task : j \in 1 .. i - 1}

\* An artifact comes after what it depends on, or takes the place of its own.
LEMMA AcceptProceeds ==
    ASSUME NEW f \in FlowStates, NEW a, a.task \in CrewTasks,
           a.cites \in SUBSET (Leaves \cup {Fallback}),
           Dependencies(a.task) \subseteq Done(f), f.executed \subseteq Done(f) \cup {a.task},
           Done(f) = AcceptedTasks(f), InOrder(f.accepted), f.status # "COMPLETED"
    PROVE  /\ Accept(f, a) \in FlowStates /\ Proceeded(Accept(f, a))
           /\ Done(Accept(f, a)) = Done(f) \cup {a.task}
           /\ Spent(f) => Spent(Accept(f, a))
           /\ Accept(f, a).status = f.status /\ Accept(f, a).calls = f.calls
           /\ Accept(f, a).managers = f.managers
<1> DEFINE g == Accept(f, a)
           old == {i \in DOMAIN f.accepted : f.accepted[i].task = a.task}
           new == [task |-> a.task, cites |-> a.cites]
<1>1. PICK tasks, accepted :
        /\ tasks = [f.tasks EXCEPT ![a.task] = "SUCCEEDED"]
        /\ accepted = IF old = {} THEN Append(f.accepted, new)
                      ELSE [i \in DOMAIN f.accepted |-> IF i \in old THEN new ELSE f.accepted[i]]
  OBVIOUS
<1>2. g = [f EXCEPT !.tasks = tasks, !.accepted = accepted] BY <1>1 DEF Accept, FlowStates
<1>3. f.tasks \in [CrewTasks -> TaskStates] /\ f.accepted \in Seq(AcceptedArtifacts)
  BY DEF FlowStates
<1>4. tasks \in [CrewTasks -> TaskStates] BY <1>1, <1>3 DEF TaskStates
<1>5. new \in AcceptedArtifacts /\ new.task = a.task BY DEF AcceptedArtifacts
<1>6. DOMAIN f.accepted = 1 .. Len(f.accepted) /\ Len(f.accepted) \in Nat BY <1>3
<1> HIDE DEF new
<1>7. accepted \in Seq(AcceptedArtifacts)
      /\ {accepted[i].task : i \in DOMAIN accepted} = AcceptedTasks(f) \cup {a.task}
      /\ InOrder(accepted)
  <2>1. CASE old = {}
    <3>1. accepted = Append(f.accepted, new) BY <1>1, <2>1
    <3>2. /\ accepted \in Seq(AcceptedArtifacts) /\ Len(accepted) = Len(f.accepted) + 1
          /\ \A i \in 1 .. Len(f.accepted) : accepted[i] = f.accepted[i]
          /\ accepted[Len(f.accepted) + 1] = new
          /\ DOMAIN accepted = 1 .. Len(f.accepted) + 1
      BY <1>3, <1>5, <3>1
    <3>3. {accepted[i].task : i \in DOMAIN accepted} = AcceptedTasks(f) \cup {a.task}
      BY <1>5, <1>6, <3>2 DEF AcceptedTasks
    <3>4. AcceptedTasks(f) = {accepted[j].task : j \in 1 .. Len(f.accepted)}
      BY <1>6, <3>2 DEF AcceptedTasks
    <3>5. ASSUME NEW i \in DOMAIN accepted
          PROVE  Dependencies(accepted[i].task) \subseteq {accepted[j].task : j \in 1 .. i - 1}
      <4>1. CASE i = Len(f.accepted) + 1
        <5>1. accepted[i].task = a.task /\ i - 1 = Len(f.accepted) BY <1>5, <1>6, <3>2, <4>1
        <5> QED BY <3>4, <5>1
      <4>2. CASE i # Len(f.accepted) + 1
        <5>1. i \in 1 .. Len(f.accepted) BY <1>6, <3>2, <4>2
        <5>2. Dependencies(f.accepted[i].task) \subseteq {f.accepted[j].task : j \in 1 .. i - 1}
          BY <1>6, <5>1 DEF InOrder
        <5>3. {f.accepted[j].task : j \in 1 .. i - 1} = {accepted[j].task : j \in 1 .. i - 1}
          BY <1>6, <3>2, <5>1
        <5> QED BY <3>2, <5>1, <5>2, <5>3
      <4> QED BY <4>1, <4>2
    <3> QED BY <3>2, <3>3, <3>5 DEF InOrder
  <2>2. CASE old # {}
    <3>1. accepted = [i \in DOMAIN f.accepted |-> IF i \in old THEN new ELSE f.accepted[i]]
      BY <1>1, <2>2
    <3>2. DOMAIN accepted = DOMAIN f.accepted
          /\ \A i \in DOMAIN f.accepted : accepted[i].task = f.accepted[i].task
      BY <1>5, <3>1
    <3>3. accepted \in Seq(AcceptedArtifacts)
      <4>1. \A i \in 1 .. Len(f.accepted) : f.accepted[i] \in AcceptedArtifacts BY <1>3, <1>6
      <4>2. accepted \in [1 .. Len(f.accepted) -> AcceptedArtifacts]
        BY <1>5, <1>6, <3>1, <4>1
      <4> QED BY <1>6, <4>2, SeqDef
    <3>4. a.task \in AcceptedTasks(f) BY <2>2 DEF AcceptedTasks
    <3>5. {accepted[i].task : i \in DOMAIN accepted} = AcceptedTasks(f) \cup {a.task}
      BY <3>2, <3>4 DEF AcceptedTasks
    <3>6. ASSUME NEW i \in DOMAIN accepted
          PROVE  Dependencies(accepted[i].task) \subseteq {accepted[j].task : j \in 1 .. i - 1}
      <4>1. i \in DOMAIN f.accepted /\ i \in 1 .. Len(f.accepted) BY <1>6, <3>2
      <4>2. Dependencies(f.accepted[i].task) \subseteq {f.accepted[j].task : j \in 1 .. i - 1}
        BY <4>1 DEF InOrder
      <4>3. \A j \in 1 .. i - 1 : accepted[j].task = f.accepted[j].task BY <1>6, <3>2, <4>1
      <4> QED BY <3>2, <4>1, <4>2, <4>3
    <3> QED BY <3>3, <3>5, <3>6 DEF InOrder
  <2> QED BY <2>1, <2>2
<1>8. g \in FlowStates
  <2>1. [f EXCEPT !.tasks = tasks, !.accepted = accepted] \in FlowStates
    BY <1>4, <1>7, AcceptingTypes, Zenon
  <2> HIDE DEF g
  <2> QED BY <1>2, <2>1, Zenon
<1>9. /\ g.tasks = tasks /\ g.accepted = accepted /\ g.status = f.status /\ g.calls = f.calls
      /\ g.managers = f.managers /\ g.executed = f.executed /\ g.attempted = f.attempted
      /\ g.cost = f.cost /\ g.delegations = f.delegations /\ g.signatures = f.signatures
  BY <1>1, <1>2 DEF FlowStates
<1> HIDE DEF g, old
<1>10. Done(g) = Done(f) \cup {a.task} BY <1>1, <1>3, <1>9 DEF Done
<1>11. Done(g) = AcceptedTasks(g) BY <1>7, <1>9, <1>10 DEF AcceptedTasks
<1>12. Proceeded(g)
  <2>1. g.executed \subseteq Done(g) BY <1>9, <1>10
  <2>2. InOrder(g.accepted) BY <1>7, <1>9
  <2>3. g.status # "COMPLETED" BY <1>9
  <2> QED BY <1>11, <2>1, <2>2, <2>3 DEF Proceeded, InOrder
<1>13. Spent(f) => Spent(g) BY <1>9 DEF Spent
<1> QED BY <1>8, <1>9, <1>10, <1>12, <1>13 DEF g

(* -------------------------------- steps -------------------------------- *)

CrewFits ==
    crew # "none" => /\ crew \in CrewTasks /\ Dependencies(crew) \subseteq Done(flow)
                     /\ flow.status # "COMPLETED"

\* The flow in memory and its file are in order, the file behind, and a crew
\* works on a task that could be started.
CrewInvariant ==
    /\ FlowInv(flow)
    /\ kept # NoFlow => FlowInv(kept) /\ Done(kept) \subseteq Done(flow)
    /\ CrewFits

LEMMA CrewStarts == CrewInit => CrewInvariant
<1> SUFFICES ASSUME CrewInit PROVE CrewInvariant OBVIOUS
<1>1. FreshFlow \in FlowStates
  <2>1. << >> \in Seq(AcceptedArtifacts) OBVIOUS
  <2>2. [t \in CrewTasks |-> "PENDING"] \in [CrewTasks -> TaskStates] BY DEF TaskStates
  <2> QED BY <2>1, <2>2 DEF FreshFlow, FlowStates, CrewStatuses
<1>2. Done(FreshFlow) = {} /\ AcceptedTasks(FreshFlow) = {} /\ DOMAIN FreshFlow.accepted = {}
  BY DEF Done, AcceptedTasks, FreshFlow
<1>3. Proceeded(FreshFlow)
  <2>1. FreshFlow.executed = {} /\ FreshFlow.status = "RUNNING" BY DEF FreshFlow
  <2> QED BY <1>2, <2>1 DEF Proceeded
<1>4. Spent(FreshFlow)
  <2>1. /\ FreshFlow.attempted = {} /\ FreshFlow.signatures = {} /\ FreshFlow.calls = 0
        /\ FreshFlow.cost = 0 /\ FreshFlow.delegations = 0 /\ FreshFlow.managers = 0
    BY DEF FreshFlow
  <2>2. IsFiniteSet({}) /\ Cardinality({}) = 0 BY FS_EmptySet
  <2>3. {a \in FreshFlow.attempted : a[1] = Synthesis} = {} BY <2>1
  <2> QED BY <2>1, <2>2, <2>3, CrewAssumption DEF Spent
<1> QED BY <1>1, <1>3, <1>4 DEF CrewInit, CrewInvariant, FlowInv, CrewFits

\* A step of the process in memory keeps the order and loses no result.
Goes == FlowInv(flow') /\ Done(flow) \subseteq Done(flow') /\ CrewFits'

LEMMA FixtureGoes ==
    ASSUME CrewInvariant, NEW t \in CrewTasks, NEW n \in Nat, NEW inTime,
           ExecuteFixtureTask(t, n, inTime)
    PROVE  Goes
<1> DEFINE begun == [flow EXCEPT !.tasks[t] = "RUNNING"]
           result == [task |-> t, cites |-> FixtureEvidence(t), supported |-> TRUE]
<1>1. flow \in FlowStates /\ Spent(flow) /\ Proceeded(flow) BY DEF CrewInvariant, FlowInv
<1>2. /\ flow.tasks[t] # "SUCCEEDED" /\ Dependencies(t) \subseteq Done(flow)
      /\ flow.status = "RUNNING" /\ crew = "none" /\ crew' = crew
  BY DEF ExecuteFixtureTask, InTurn, ReadyTaskIds, ToResume, MayStart, Done
<1>3. PICK tasks : tasks = [flow.tasks EXCEPT ![t] = "RUNNING"] OBVIOUS
<1>4. tasks \in [CrewTasks -> TaskStates] BY <1>1, <1>3 DEF FlowStates, TaskStates
<1>5. begun = [flow EXCEPT !.tasks = tasks] BY <1>1, <1>3 DEF FlowStates
<1>6. [flow EXCEPT !.tasks = tasks] \in FlowStates BY <1>1, <1>4 DEF FlowStates
<1>7. /\ begun \in FlowStates /\ begun.tasks = tasks /\ begun.accepted = flow.accepted
      /\ begun.status = flow.status /\ begun.executed = flow.executed
      /\ begun.calls = flow.calls /\ begun.cost = flow.cost
      /\ begun.attempted = flow.attempted /\ begun.managers = flow.managers
      /\ begun.delegations = flow.delegations /\ begun.signatures = flow.signatures
  BY <1>1, <1>5, <1>6 DEF FlowStates
<1>8. flow' = IF ~Registrable(flow, t, n, inTime) THEN begun
              ELSE Accept(Register(begun, t, n, "SUCCEEDED"), result)
  BY DEF ExecuteFixtureTask
<1>9. result.task = t /\ result.cites \in SUBSET (Leaves \cup {Fallback})
  BY DEF FixtureEvidence
<1> HIDE DEF begun, result
<1>10. Done(begun) = Done(flow)
  <2>1. flow.tasks \in [CrewTasks -> TaskStates] BY <1>1 DEF FlowStates
  <2> QED BY <1>2, <1>3, <1>7, <2>1 DEF Done
<1>11. Spent(begun) BY <1>1, <1>7 DEF Spent
<1>12. AcceptedTasks(begun) = AcceptedTasks(flow) BY <1>7 DEF AcceptedTasks
<1>13. InOrder(flow.accepted) /\ Done(flow) = AcceptedTasks(flow) /\ flow.executed \subseteq Done(flow)
  BY <1>1 DEF Proceeded, InOrder
<1>14. CASE ~Registrable(flow, t, n, inTime)
  <2>1. flow' = begun BY <1>8, <1>14
  <2>2. Proceeded(begun)
    <3>1. begun.status # "COMPLETED" BY <1>2, <1>7
    <3>2. InOrder(begun.accepted) BY <1>7, <1>13
    <3> QED BY <1>7, <1>10, <1>12, <1>13, <3>1, <3>2 DEF Proceeded, InOrder
  <2> QED BY <1>2, <1>7, <1>10, <1>11, <2>1, <2>2 DEF Goes, FlowInv, CrewFits
<1>15. CASE Registrable(flow, t, n, inTime)
  <2> DEFINE charged == Register(begun, t, n, "SUCCEEDED")
  <2>1. Registrable(begun, t, n, inTime) BY <1>7, <1>15 DEF Registrable
  <2>2. /\ charged \in FlowStates /\ Spent(charged) /\ charged.tasks = begun.tasks
        /\ charged.accepted = begun.accepted /\ charged.status = begun.status
        /\ charged.executed = begun.executed \cup {t}
    BY <1>7, <1>11, <2>1, RegisterSpends
  <2>3. flow' = Accept(charged, result) BY <1>8, <1>15
  <2> HIDE DEF charged
  <2>4. Done(charged) = Done(flow) BY <1>10, <2>2 DEF Done
  <2>5. AcceptedTasks(charged) = AcceptedTasks(flow) BY <1>12, <2>2 DEF AcceptedTasks
  <2>6. /\ charged.executed \subseteq Done(charged) \cup {t} /\ InOrder(charged.accepted)
        /\ charged.status # "COMPLETED"
    BY <1>2, <1>7, <1>13, <2>2, <2>4
  <2>7. /\ Accept(charged, result) \in FlowStates /\ Proceeded(Accept(charged, result))
        /\ Done(Accept(charged, result)) = Done(charged) \cup {t}
        /\ Spent(Accept(charged, result))
    BY <1>2, <1>9, <1>13, <2>2, <2>4, <2>5, <2>6, AcceptProceeds
  <2> QED BY <1>2, <2>3, <2>4, <2>7 DEF Goes, FlowInv, CrewFits
<1> QED BY <1>14, <1>15

\* What a run has done rests on these four of its fields.
LEMMA ProgressIs ==
    ASSUME NEW f, NEW g, g.tasks = f.tasks, g.accepted = f.accepted, g.status = f.status,
           g.executed = f.executed
    PROVE  /\ Done(g) = Done(f) /\ AcceptedTasks(g) = AcceptedTasks(f)
           /\ Proceeded(f) => Proceeded(g)
<1>1. Done(g) = Done(f) /\ AcceptedTasks(g) = AcceptedTasks(f) BY DEF Done, AcceptedTasks
<1>2. InOrder(f.accepted) <=> InOrder(g.accepted) OBVIOUS
<1>3. Leaves \subseteq UNION {f.accepted[i].cites : i \in DOMAIN f.accepted}
      <=> Leaves \subseteq UNION {g.accepted[i].cites : i \in DOMAIN g.accepted}
  OBVIOUS
<1>4. ASSUME Proceeded(f) PROVE Proceeded(g)
  <2>1. InOrder(g.accepted) BY <1>2, <1>4 DEF Proceeded, InOrder
  <2>2. g.executed \subseteq Done(g) /\ Done(g) = AcceptedTasks(g) BY <1>1, <1>4 DEF Proceeded
  <2>3. g.status = "COMPLETED" =>
          /\ Done(g) = CrewTasks
          /\ Leaves \subseteq UNION {g.accepted[i].cites : i \in DOMAIN g.accepted}
    BY <1>1, <1>3, <1>4 DEF Proceeded
  <2> QED BY <2>1, <2>2, <2>3 DEF Proceeded, InOrder
<1> QED BY <1>1, <1>4

LEMMA FailureSpends ==
    ASSUME NEW f \in FlowStates, NEW t \in CrewTasks, NEW n \in Nat, Spent(f),
           Registrable(f, t, n, TRUE)
    PROVE  /\ Register(f, t, n, "RETRYABLE") \in FlowStates
           /\ Spent(Register(f, t, n, "RETRYABLE"))
           /\ Register(f, t, n, "RETRYABLE").tasks = f.tasks
           /\ Register(f, t, n, "RETRYABLE").accepted = f.accepted
           /\ Register(f, t, n, "RETRYABLE").status = f.status
           /\ Register(f, t, n, "RETRYABLE").executed = f.executed
<1>1. Register(f, t, n, "RETRYABLE") \in FlowStates BY RegisterSpends
<1>2. Spent(Register(f, t, n, "RETRYABLE")) BY RegisterSpends
<1> QED BY <1>1, <1>2 DEF Register, FlowStates

LEMMA FailureGoes ==
    ASSUME CrewInvariant, NEW t \in CrewTasks, NEW n \in Nat, RegisterFailure(t, n)
    PROVE  Goes /\ ClosedRunsStay
<1>1. flow \in FlowStates /\ Spent(flow) BY DEF CrewInvariant, FlowInv
<1>2. /\ Registrable(flow, t, n, TRUE) /\ crew' = crew /\ flow.status # "CANCELLED"
      /\ flow' = Register(flow, t, n, "RETRYABLE")
  BY DEF RegisterFailure, Registrable
<1>3. /\ flow' \in FlowStates /\ Spent(flow') /\ flow'.tasks = flow.tasks
      /\ flow'.accepted = flow.accepted /\ flow'.status = flow.status
      /\ flow'.executed = flow.executed
  BY <1>1, <1>2, FailureSpends
<1>4. Proceeded(flow) BY DEF CrewInvariant, FlowInv
<1>5. Done(flow') = Done(flow) /\ Proceeded(flow') BY <1>3, <1>4, ProgressIs
<1> QED BY <1>2, <1>3, <1>5 DEF Goes, FlowInv, CrewInvariant, CrewFits, ClosedRunsStay

LEMMA KickoffGoes ==
    ASSUME CrewInvariant, NEW t \in CrewTasks, Kickoff(t)
    PROVE  Goes
<1>1. /\ flow' = flow /\ crew' = t /\ flow.status = "RUNNING"
      /\ Dependencies(t) \subseteq Done(flow)
  BY DEF Kickoff, MayStart, InTurn, ReadyTaskIds
<1> QED BY <1>1 DEF Goes, CrewInvariant, CrewFits

LEMMA AdmissionGoes ==
    ASSUME CrewInvariant, NEW cites \in SUBSET (Leaves \cup {Fallback}), NEW supported,
           AdmitCrewOutput(cites, supported)
    PROVE  Goes /\ ClosedRunsStay
<1> DEFINE a == [task |-> crew, cites |-> cites, supported |-> supported]
<1>1. /\ crew # "none" /\ crew' = "none"
      /\ flow' = IF ValidArtifact(a) THEN Accept(flow, a) ELSE flow
  BY DEF AdmitCrewOutput
<1>2. /\ crew \in CrewTasks /\ Dependencies(crew) \subseteq Done(flow)
      /\ flow.status # "COMPLETED"
  BY <1>1 DEF CrewInvariant, CrewFits
<1>3. PICK b : b = a OBVIOUS
<1>4. b.task = crew /\ b.cites = cites BY <1>3
<1>5. flow \in FlowStates /\ Spent(flow) /\ Proceeded(flow) BY DEF CrewInvariant, FlowInv
<1>6. /\ InOrder(flow.accepted) /\ Done(flow) = AcceptedTasks(flow)
      /\ flow.executed \subseteq Done(flow) \cup {b.task}
  BY <1>5 DEF Proceeded, InOrder
<1>7. flow' = flow \/ flow' = Accept(flow, b) BY <1>1, <1>3
<1>8. /\ Accept(flow, b) \in FlowStates /\ Proceeded(Accept(flow, b))
      /\ Done(Accept(flow, b)) = Done(flow) \cup {b.task} /\ Spent(Accept(flow, b))
      /\ Accept(flow, b).status = flow.status /\ Accept(flow, b).calls = flow.calls
      /\ Accept(flow, b).managers = flow.managers
  BY <1>2, <1>4, <1>5, <1>6, AcceptProceeds
<1>9. Goes BY <1>1, <1>5, <1>7, <1>8 DEF Goes, FlowInv, CrewFits
<1> QED BY <1>1, <1>7, <1>8, <1>9 DEF ClosedRunsStay

LEMMA ProposingTypes ==
    ASSUME NEW f \in FlowStates, NEW managers \in Nat, NEW delegations \in Nat,
           NEW signatures \in SUBSET {idea.gap : idea \in Ideas}
    PROVE  [f EXCEPT !.managers = managers, !.delegations = delegations,
                     !.signatures = signatures] \in FlowStates
BY DEF FlowStates

\* A manager's call is counted; what it proposes, once, if it is admitted.
LEMMA DelegateGoes ==
    ASSUME CrewInvariant, NEW idea \in Ideas, Delegate(idea)
    PROVE  Goes /\ ClosedRunsStay
<1>1. flow \in FlowStates /\ Spent(flow) /\ Proceeded(flow) BY DEF CrewInvariant, FlowInv
<1>2. /\ flow.status # "CANCELLED" /\ flow.managers < CrewBudget.managers
      /\ kept' = kept /\ crew' = crew
  BY DEF Delegate
<1>3. flow.managers \in Nat /\ flow.delegations \in Nat BY <1>1 DEF FlowStates
<1>4. PICK delegations, signatures :
        /\ flow' = [flow EXCEPT !.managers = flow.managers + 1, !.delegations = delegations,
                                !.signatures = signatures]
        /\ \/ delegations = flow.delegations /\ signatures = flow.signatures
           \/ /\ delegations = flow.delegations + 1 /\ idea.gap \notin flow.signatures
              /\ signatures = flow.signatures \cup {idea.gap}
  BY <1>1 DEF Delegate, Admissible, FlowStates
<1>5. /\ delegations \in Nat /\ signatures \in SUBSET {other.gap : other \in Ideas}
      /\ IsFiniteSet(signatures) /\ delegations = Cardinality(signatures)
      /\ delegations <= flow.managers + 1
  <2>1. /\ IsFiniteSet(flow.signatures) /\ flow.delegations = Cardinality(flow.signatures)
        /\ flow.delegations <= flow.managers
    BY <1>1 DEF Spent
  <2>2. flow.signatures \in SUBSET {other.gap : other \in Ideas} BY <1>1 DEF FlowStates
  <2>3. CASE delegations = flow.delegations /\ signatures = flow.signatures
    BY <1>3, <2>1, <2>2, <2>3
  <2>4. CASE /\ delegations = flow.delegations + 1 /\ idea.gap \notin flow.signatures
             /\ signatures = flow.signatures \cup {idea.gap}
    <3>1. IsFiniteSet(signatures) /\ Cardinality(signatures) = Cardinality(flow.signatures) + 1
      BY <2>1, <2>4, OneMoreIn
    <3> QED BY <1>3, <2>1, <2>2, <2>4, <3>1
  <2> QED BY <1>4, <2>3, <2>4
<1>6. /\ flow' \in FlowStates /\ flow'.tasks = flow.tasks /\ flow'.accepted = flow.accepted
      /\ flow'.status = flow.status /\ flow'.executed = flow.executed
      /\ flow'.attempted = flow.attempted /\ flow'.calls = flow.calls /\ flow'.cost = flow.cost
      /\ flow'.managers = flow.managers + 1 /\ flow'.delegations = delegations
      /\ flow'.signatures = signatures
  <2>1. PICK managers : managers = flow.managers + 1 OBVIOUS
  <2>2. managers \in Nat BY <1>3, <2>1
  <2>3. flow' = [flow EXCEPT !.managers = managers, !.delegations = delegations,
                            !.signatures = signatures]
    BY <1>4, <2>1
  <2>4. [flow EXCEPT !.managers = managers, !.delegations = delegations,
                     !.signatures = signatures] \in FlowStates
    BY <1>1, <1>5, <2>2, ProposingTypes, Zenon
  <2>5. flow' \in FlowStates BY <2>3, <2>4, Zenon
  <2> QED BY <1>1, <2>1, <2>3, <2>5 DEF FlowStates
<1>7. Done(flow') = Done(flow) /\ AcceptedTasks(flow') = AcceptedTasks(flow)
  BY <1>6 DEF Done, AcceptedTasks
<1>8. Proceeded(flow') BY <1>1, <1>6, <1>7 DEF Proceeded
<1>9. Spent(flow')
  <2>1. flow.managers + 1 <= CrewBudget.managers BY <1>2, <1>3, CrewAssumption
  <2> QED BY <1>1, <1>5, <1>6, <2>1 DEF Spent
<1> QED BY <1>2, <1>6, <1>7, <1>8, <1>9 DEF Goes, FlowInv, CrewInvariant, CrewFits, ClosedRunsStay

\* An event, and the end of a run, change only the status, the review and the
\* tasks that are not done.
LEMMA EventGoes ==
    ASSUME CrewInvariant, CancelRun \/ Escalate \/ RequireReview \/ Conclude
    PROVE  Goes
<1>1. flow \in FlowStates /\ Spent(flow) /\ Proceeded(flow) BY DEF CrewInvariant, FlowInv
<1>2. crew' = crew /\ kept' = kept /\ flow.status = "RUNNING"
  BY DEF CancelRun, Escalate, RequireReview, Conclude
<1>3. PICK tasks, pending, status :
        /\ flow' = [flow EXCEPT !.tasks = tasks, !.pending = pending, !.status = status]
        /\ tasks \in [CrewTasks -> TaskStates] /\ pending \in BOOLEAN /\ status \in CrewStatuses
        /\ \A t \in CrewTasks : tasks[t] = "SUCCEEDED" <=> flow.tasks[t] = "SUCCEEDED"
        /\ status = "COMPLETED" =>
             /\ crew = "none" /\ CrewTasks \subseteq AcceptedTasks(flow)
             /\ Leaves \subseteq UNION {flow.accepted[i].cites : i \in DOMAIN flow.accepted}
  <2> DEFINE Lasting(tasks, pending, status) ==
        /\ flow' = [flow EXCEPT !.tasks = tasks, !.pending = pending, !.status = status]
        /\ tasks \in [CrewTasks -> TaskStates] /\ pending \in BOOLEAN /\ status \in CrewStatuses
        /\ \A t \in CrewTasks : tasks[t] = "SUCCEEDED" <=> flow.tasks[t] = "SUCCEEDED"
        /\ status = "COMPLETED" =>
             /\ crew = "none" /\ CrewTasks \subseteq AcceptedTasks(flow)
             /\ Leaves \subseteq UNION {flow.accepted[i].cites : i \in DOMAIN flow.accepted}
  <2>1. flow.tasks \in [CrewTasks -> TaskStates] /\ flow.pending \in BOOLEAN
    BY <1>1 DEF FlowStates
  <2>2. CASE CancelRun
    <3>1. PICK tasks : tasks = [t \in CrewTasks |->
                                  IF flow.tasks[t] \in {"SUCCEEDED", "FAILED"} THEN flow.tasks[t]
                                  ELSE "CANCELLED"]
      OBVIOUS
    <3>2. tasks \in [CrewTasks -> TaskStates] BY <2>1, <3>1 DEF TaskStates
    <3>3. \A t \in CrewTasks : tasks[t] = "SUCCEEDED" <=> flow.tasks[t] = "SUCCEEDED"
      BY <2>1, <3>1
    <3>4. flow' = [flow EXCEPT !.tasks = tasks, !.pending = flow.pending, !.status = "CANCELLED"]
      BY <1>1, <2>2, <3>1 DEF CancelRun, CancelFlow, FlowStates
    <3>5. Lasting(tasks, flow.pending, "CANCELLED")
      BY <2>1, <3>2, <3>3, <3>4 DEF CrewStatuses
    <3> QED BY <3>5
  <2>3. CASE Escalate
    <3>1. flow' = [flow EXCEPT !.tasks = flow.tasks, !.pending = flow.pending, !.status = "ESCALATED"]
      BY <1>1, <2>3 DEF Escalate, FlowStates
    <3>2. Lasting(flow.tasks, flow.pending, "ESCALATED") BY <2>1, <3>1 DEF CrewStatuses
    <3> QED BY <3>2
  <2>4. CASE RequireReview
    <3>1. flow' = [flow EXCEPT !.tasks = flow.tasks, !.pending = TRUE, !.status = "RUNNING"]
      BY <1>1, <1>2, <2>4 DEF RequireReview, FlowStates
    <3>2. Lasting(flow.tasks, TRUE, "RUNNING") BY <2>1, <3>1 DEF CrewStatuses
    <3> QED BY <3>2
  <2>5. CASE Conclude
    <3> DEFINE cleared == [flow EXCEPT !.pending = FALSE]
    <3>1. crew = "none"
          /\ flow' = IF ValidCompletion(cleared) THEN [cleared EXCEPT !.status = "COMPLETED"]
                     ELSE cleared
      BY <2>5 DEF Conclude
    <3>2. /\ cleared = [flow EXCEPT !.tasks = flow.tasks, !.pending = FALSE, !.status = "RUNNING"]
          /\ [cleared EXCEPT !.status = "COMPLETED"] =
                [flow EXCEPT !.tasks = flow.tasks, !.pending = FALSE, !.status = "COMPLETED"]
      BY <1>1, <1>2 DEF FlowStates
    <3>3. cleared.accepted = flow.accepted BY <1>1 DEF FlowStates
    <3> HIDE DEF cleared
    <3>4. CASE ValidCompletion(cleared)
      <4>1. /\ CrewTasks \subseteq AcceptedTasks(flow)
            /\ Leaves \subseteq UNION {flow.accepted[i].cites : i \in DOMAIN flow.accepted}
        BY <3>3, <3>4 DEF ValidCompletion, AcceptedTasks
      <4>2. Lasting(flow.tasks, FALSE, "COMPLETED")
        BY <2>1, <3>1, <3>2, <3>4, <4>1 DEF CrewStatuses
      <4> QED BY <4>2
    <3>5. CASE ~ValidCompletion(cleared)
      <4>1. Lasting(flow.tasks, FALSE, "RUNNING") BY <2>1, <3>1, <3>2, <3>5 DEF CrewStatuses
      <4> QED BY <4>1
    <3> QED BY <3>4, <3>5
  <2> QED BY <2>2, <2>3, <2>4, <2>5
<1>4. /\ flow' \in FlowStates /\ flow'.tasks = tasks /\ flow'.accepted = flow.accepted
      /\ flow'.status = status /\ flow'.executed = flow.executed
      /\ flow'.attempted = flow.attempted /\ flow'.calls = flow.calls /\ flow'.cost = flow.cost
      /\ flow'.managers = flow.managers /\ flow'.delegations = flow.delegations
      /\ flow'.signatures = flow.signatures
  BY <1>1, <1>3 DEF FlowStates
<1>5. Done(flow') = Done(flow) /\ AcceptedTasks(flow') = AcceptedTasks(flow)
  BY <1>3, <1>4 DEF Done, AcceptedTasks
<1>6. Spent(flow') BY <1>1, <1>4 DEF Spent
<1>7. Proceeded(flow')
  <2>1. Done(flow) = AcceptedTasks(flow) BY <1>1 DEF Proceeded
  <2>2. Done(flow) \subseteq CrewTasks BY DEF Done
  <2>3. flow'.status = "COMPLETED" =>
          /\ Done(flow') = CrewTasks
          /\ Leaves \subseteq UNION {flow'.accepted[i].cites : i \in DOMAIN flow'.accepted}
    <3> HAVE flow'.status = "COMPLETED"
    <3>1. /\ CrewTasks \subseteq AcceptedTasks(flow)
          /\ Leaves \subseteq UNION {flow.accepted[i].cites : i \in DOMAIN flow.accepted}
      BY <1>3, <1>4
    <3>2. Done(flow') = CrewTasks BY <1>5, <2>1, <2>2, <3>1
    <3>3. flow'.accepted = flow.accepted BY <1>4
    <3> QED BY <3>1, <3>2, <3>3
  <2> QED BY <1>1, <1>4, <1>5, <2>3 DEF Proceeded
<1> QED BY <1>2, <1>3, <1>4, <1>5, <1>6, <1>7 DEF Goes, FlowInv, CrewInvariant, CrewFits

LEMMA CrewSteps == CrewInvariant /\ [CrewNext]_crewVars => CrewInvariant' /\ [ClosedRunsStay]_crewVars
<1> SUFFICES ASSUME CrewInvariant, [CrewNext]_crewVars
             PROVE  CrewInvariant' /\ ClosedRunsStay
  OBVIOUS
<1>1. ASSUME Goes, kept' = kept PROVE CrewInvariant'
  BY <1>1 DEF Goes, CrewInvariant
<1>2. flow.status = "RUNNING" => ClosedRunsStay BY DEF ClosedRunsStay
<1>3. ASSUME NEW t \in CrewTasks, NEW n \in 1 .. CrewBudget.attempts,
             (\E inTime \in BOOLEAN : ExecuteFixtureTask(t, n, inTime)) \/ RegisterFailure(t, n)
      PROVE  CrewInvariant' /\ ClosedRunsStay
  <2>1. n \in Nat BY CrewAssumption
  <2>2. ASSUME NEW inTime \in BOOLEAN, ExecuteFixtureTask(t, n, inTime)
        PROVE  CrewInvariant' /\ ClosedRunsStay
    <3>1. Goes BY <2>1, <2>2, FixtureGoes
    <3>2. kept' = kept /\ flow.status = "RUNNING" BY <2>2 DEF ExecuteFixtureTask, MayStart
    <3> QED BY <1>1, <1>2, <3>1, <3>2
  <2>3. ASSUME RegisterFailure(t, n) PROVE CrewInvariant' /\ ClosedRunsStay
    <3>1. kept' = kept BY <2>3 DEF RegisterFailure
    <3> QED BY <1>1, <2>1, <2>3, <3>1, FailureGoes
  <2> QED BY <1>3, <2>2, <2>3
<1>4. ASSUME NEW t \in CrewTasks, Kickoff(t) PROVE CrewInvariant' /\ ClosedRunsStay
  <2>1. kept' = kept /\ flow.status = "RUNNING" BY <1>4 DEF Kickoff, MayStart
  <2> QED BY <1>1, <1>2, <1>4, <2>1, KickoffGoes
<1>5. ASSUME NEW cites \in SUBSET (Leaves \cup {Fallback}), NEW supported \in BOOLEAN,
             AdmitCrewOutput(cites, supported)
      PROVE  CrewInvariant' /\ ClosedRunsStay
  <2>1. kept' = kept BY <1>5 DEF AdmitCrewOutput
  <2> QED BY <1>1, <1>5, <2>1, AdmissionGoes
<1>6. ASSUME NEW idea \in Ideas, Delegate(idea) PROVE CrewInvariant' /\ ClosedRunsStay
  <2>1. kept' = kept BY <1>6 DEF Delegate
  <2> QED BY <1>1, <1>6, <2>1, DelegateGoes
<1>7. ASSUME CancelRun \/ Escalate \/ RequireReview \/ Conclude
      PROVE  CrewInvariant' /\ ClosedRunsStay
  <2>1. kept' = kept /\ flow.status = "RUNNING"
    BY <1>7 DEF CancelRun, Escalate, RequireReview, Conclude
  <2> QED BY <1>1, <1>2, <1>7, <2>1, EventGoes
<1>8. CASE SaveFlow
  BY <1>8 DEF SaveFlow, CrewInvariant, CrewFits, ClosedRunsStay
<1>9. CASE ResumeFlow
  <2>1. kept # NoFlow /\ flow' = kept /\ kept' = kept /\ crew' = "none" BY <1>9 DEF ResumeFlow
  <2> QED BY <2>1 DEF CrewInvariant, CrewFits, ClosedRunsStay
<1>10. CASE UNCHANGED crewVars
  BY <1>10 DEF crewVars, CrewInvariant, CrewFits, ClosedRunsStay
<1> QED BY <1>3, <1>4, <1>5, <1>6, <1>7, <1>8, <1>9, <1>10 DEF CrewNext

\* Whatever the tasks, the budget and the proposals, of a run in memory and of
\* the one in the file the counters are those of the attempts and proposals it
\* has made and within the budget, what is done is what has an accepted
\* artifact, after what it depends on, and a completed run has them all; the
\* file is never ahead, and a closed run stays closed (advanced/03 policy.py).
THEOREM CrewRecordsAreKept == CrewSpec => CrewKeepsItsRecord
<1>1. CrewInit => CrewInvariant BY CrewStarts
<1>2. CrewInvariant /\ [CrewNext]_crewVars => CrewInvariant' /\ [ClosedRunsStay]_crewVars
  BY CrewSteps
<1>3. CrewInvariant => AddsUp(flow) /\ FileIsBehind
  BY FlowInvIs DEF CrewInvariant, FileIsBehind
<1> QED BY <1>1, <1>2, <1>3, PTL DEF CrewSpec, CrewKeepsItsRecord

(***************************************************************************)
(* The plan executor (intermediate/08).                                    *)
(***************************************************************************)

Primary == "read-adaptive-rag-primary"
Foundation == "read-rag-foundation"
Guidance == "read-implementation-guidance"
Substitute == "read-replacement-guidance"
Supplement == "read-missing-evidence"
Compare == "compare-routes"
Report == "synthesize-report"

PlannedFirst == {Primary, Foundation, Guidance, Compare, Check, Report}
TaskSet == PlannedFirst \cup {Substitute, Supplement, Reconciliation}
Nodes == [deps : SUBSET TaskSet, tries : {1, 2}]

\* The plans there can be.
PlanShape(p) ==
    /\ PlannedFirst \subseteq DOMAIN p /\ DOMAIN p \subseteq TaskSet
    /\ \A t \in DOMAIN p : p[t] \in Nodes
    /\ \A t \in DOMAIN p \ {Compare, Check, Report, Reconciliation} : p[t].deps = {}
    /\ p[Compare].deps =
          {Primary, Foundation, IF Substitute \in DOMAIN p THEN Substitute ELSE Guidance}
    /\ Reconciliation \in DOMAIN p => p[Reconciliation].deps = {Compare}
    /\ \/ p[Check].deps = {Compare}
       \/ p[Check].deps = {Reconciliation} /\ Reconciliation \in DOMAIN p
       \/ p[Check].deps = {Compare, Supplement} /\ Supplement \in DOMAIN p
    /\ p[Report].deps = {Check}
    /\ p[Primary].tries = 2
    /\ \A t \in DOMAIN p \ {Primary, Check} : p[t].tries = 1

TaskStatuses == {"PENDING", "READY", "RUNNING", "SUCCEEDED", "FAILED", "BLOCKED"}
Finished(t) == t \in DOMAIN taskStates /\ taskStates[t].status = "SUCCEEDED"
Prepared(t) == \A d \in plan[t].deps : Finished(d)

\* A task is tried after what it needs, which for the checkpoint may have changed since.
\* Guidance is never found; its substitute comes when it failed, and what the checkpoint
\* asks for comes after the comparison.
StatesShape ==
    /\ taskStates \in [DOMAIN plan -> [status : TaskStatuses, attempt : Nat]]
    /\ \A t \in DOMAIN plan :
          /\ taskStates[t].attempt <= plan[t].tries
          /\ taskStates[t].status \in {"RUNNING", "SUCCEEDED"} =>
                taskStates[t].attempt >= 1 /\ Prepared(t)
          /\ taskStates[t].attempt >= 1 /\ t # Check => Prepared(t)
    /\ taskStates[Check].attempt >= 1 => Finished(Compare)
    /\ ~Finished(Guidance)
    /\ Substitute \in DOMAIN plan => taskStates[Guidance].status = "FAILED"
    /\ \A t \in {Reconciliation, Supplement} \cap DOMAIN plan :
          Finished(Compare) /\ (t \in plan[Check].deps \/ Finished(t))

\* What is dispatched, and what is about to be.
QueueShape ==
    /\ outcome \in {"RUNNING", "COMPLETED", "BLOCKED", "BUDGET_EXHAUSTED", "ESCALATED"}
    /\ running \in DOMAIN plan \cup {NoTask} /\ ~Finished(running)
    /\ outcome = "COMPLETED" => Finished(Report)
    /\ outcome = "RUNNING" =>
          /\ batch \subseteq DOMAIN plan
          /\ \A t \in batch : taskStates[t].status = "PENDING" /\ Prepared(t)
          /\ running # NoTask => taskStates[running].status = "RUNNING"

Artifacts ==
    [task : TaskSet, version : Nat, mark : {"PLAIN", "CONFLICT", "RESOLVED"}, docs : BOOLEAN]

\* Artifacts come once, after what they rest on; the checkpoint passes last but for the report.
OutputsShape ==
    /\ version \in Nat /\ outputs \in Seq(Artifacts)
    /\ \A t \in TaskSet : t \in Produced <=> Finished(t)
    /\ \A i, j \in DOMAIN outputs : outputs[i].task = outputs[j].task => i = j
    /\ \A i \in DOMAIN outputs :
          /\ \A d \in plan[outputs[i].task].deps : \E j \in 1 .. i - 1 : outputs[j].task = d
          /\ outputs[i].mark = "CONFLICT" => outputs[i].task = Compare
          /\ outputs[i].task = Reconciliation <=> outputs[i].mark = "RESOLVED"
          /\ outputs[i].task = Check =>
                /\ outputs[i].version = version /\ outputs[i].docs
                /\ \/ i = Len(outputs)
                   \/ i = Len(outputs) - 1 /\ outputs[Len(outputs)].task = Report
                /\ \A j \in DOMAIN outputs :
                      outputs[j].mark = "CONFLICT" => Reconciliation \in plan[Check].deps

(* -------------------------------- budgets ------------------------------ *)

Sum(f) ==
    f[Primary] + f[Foundation] + f[Guidance] + f[Compare] + f[Check] + f[Report]
    + f[Substitute] + f[Supplement] + f[Reconciliation]

TriesOf(p) == [t \in TaskSet |-> Tries(p, t)]
Attempts == [t \in TaskSet |-> IF t \in DOMAIN taskStates THEN taskStates[t].attempt ELSE 0]
AnswersTo(t) ==
    IF t \notin DOMAIN taskStates THEN 0
    ELSE IF taskStates[t].status = "RUNNING" THEN taskStates[t].attempt - 1
    ELSE taskStates[t].attempt
Price(t) == CASE t = Compare -> 6 [] t = Report -> 8 [] OTHER -> 4

\* What the answers to a task have cost at most: a failure costs 1, a checkpoint at most 2.
Ceilings ==
    [t \in TaskSet |-> IF t = Check THEN 2 * AnswersTo(t)
                       ELSE IF Finished(t) THEN AnswersTo(t) - 1 + Price(t) ELSE AnswersTo(t)]

BooksShape ==
    /\ spent \in Nat /\ started \in Nat /\ rounds \in Nat
    /\ spent <= Sum(Ceilings) /\ started <= Sum(Attempts) /\ started <= goal.attempts
    /\ rounds <= started + (IF running = NoTask /\ batch # {} THEN 1 ELSE 0)
    /\ outcome = "BUDGET_EXHAUSTED" =>
         \E t \in DOMAIN plan : StatusIs(t, {"READY"}) /\ taskStates[t].attempt = plan[t].tries

\* What a plan was validated for.
Funded(p) ==
    /\ Sum(TriesOf(p)) <= goal.attempts /\ Estimate * Sum(TriesOf(p)) <= goal.cost
    /\ \A t \in DOMAIN p : p[t].tries <= goal.perTask

PlannerInvariant ==
    /\ goal \in GoalContracts /\ PlanShape(plan) /\ Funded(plan)
    /\ StatesShape /\ QueueShape /\ OutputsShape /\ BooksShape

(* ------------------------------ names and sums ------------------------- *)

LEMMA NamesAre ==
    /\ DOMAIN TaskNames = 1 .. 9 /\ Len(TaskNames) = 9
    /\ TaskNames[1] = Compare /\ TaskNames[2] = Check /\ TaskNames[3] = Primary
    /\ TaskNames[4] = Guidance /\ TaskNames[5] = Supplement /\ TaskNames[6] = Foundation
    /\ TaskNames[7] = Substitute /\ TaskNames[8] = Reconciliation /\ TaskNames[9] = Report
BY DEF TaskNames, Compare, Check, Primary, Guidance, Supplement, Foundation, Substitute,
       Reconciliation, Report

LEMMA FirstIsIn ==
    ASSUME NEW tasks, tasks \subseteq TaskSet, tasks # {}
    PROVE  FirstByName(tasks) \in tasks
<1> DEFINE places == {i \in DOMAIN TaskNames : TaskNames[i] \in tasks}
<1>1. places \subseteq Nat /\ DOMAIN TaskNames \subseteq Nat BY NamesAre
<1>2. places # {}
  <2>1. PICK t \in tasks : t \in TaskSet OBVIOUS
  <2>2. \E i \in 1 .. 9 : TaskNames[i] = t BY <2>1, NamesAre DEF TaskSet, PlannedFirst
  <2> QED BY <2>1, <2>2, NamesAre
<1>3. PICK i \in places : \A j \in places : i <= j BY <1>1, <1>2, NamesAre
<1>4. i \in DOMAIN TaskNames /\ TaskNames[i] \in tasks
      /\ \A j \in DOMAIN TaskNames : TaskNames[j] \in tasks => i <= j
  BY <1>3
<1> HIDE DEF places
<1> QED BY <1>4 DEF FirstByName

LEMMA SumOfOthers ==
    ASSUME NEW f \in [TaskSet -> Int], NEW g \in [TaskSet -> Int], NEW t \in TaskSet,
           \A n \in TaskSet \ {t} : g[n] = f[n]
    PROVE  Sum(g) = Sum(f) - f[t] + g[t]
BY DEF Sum, TaskSet, PlannedFirst, Primary, Foundation, Guidance, Compare, Check, Report,
       Substitute, Supplement, Reconciliation

LEMMA SumsInOrder ==
    ASSUME NEW f \in [TaskSet -> Int], NEW g \in [TaskSet -> Int], \A n \in TaskSet : f[n] <= g[n]
    PROVE  Sum(f) <= Sum(g) /\ \A n \in TaskSet : f[n] < g[n] => Sum(f) < Sum(g)
BY DEF Sum, TaskSet, PlannedFirst

LEMMA SumIs == ASSUME NEW f \in [TaskSet -> Nat] PROVE Sum(f) \in Nat
BY DEF Sum, TaskSet, PlannedFirst

\* The attempts a plan allows, added up.
LEMMA PlannedAre ==
    ASSUME NEW p, PlanShape(p)
    PROVE  TriesOf(p) \in [TaskSet -> 0 .. 2] /\ PlannedAttempts(p) = Sum(TriesOf(p))
<1>1. \A t \in TaskSet : Tries(p, t) \in 0 .. 2 BY DEF PlanShape, Nodes, Tries
<1>2. \A i \in 1 .. 9 : TaskNames[i] \in TaskSet BY NamesAre DEF TaskSet, PlannedFirst
<1>3. \A i \in 1 .. 9 : Tries(p, TaskNames[i]) \in Nat BY <1>1, <1>2
<1> DEFINE n(i) == Tries(p, TaskNames[i])
           s1 == n(1)
           s2 == s1 + n(2)
           s3 == s2 + n(3)
           s4 == s3 + n(4)
           s5 == s4 + n(5)
           s6 == s5 + n(6)
           s7 == s6 + n(7)
           s8 == s7 + n(8)
           s9 == s8 + n(9)
           sums == [i \in 0 .. 9 |-> CASE i = 0 -> 0 [] i = 1 -> s1 [] i = 2 -> s2 [] i = 3 -> s3
                     [] i = 4 -> s4 [] i = 5 -> s5 [] i = 6 -> s6 [] i = 7 -> s7 [] i = 8 -> s8
                     [] OTHER -> s9]
           Adds(f) == f = [i \in 0 .. Len(TaskNames) |->
                             IF i = 0 THEN 0 ELSE f[i - 1] + Tries(p, TaskNames[i])]
           first == CHOOSE f : Adds(f)
<1>4. Adds(sums)
  <2> HIDE DEF s1, s2, s3, s4, s5, s6, s7, s8, s9
  <2>1. /\ sums[0] = 0 /\ sums[1] = s1 /\ sums[2] = s2 /\ sums[3] = s3 /\ sums[4] = s4
        /\ sums[5] = s5 /\ sums[6] = s6 /\ sums[7] = s7 /\ sums[8] = s8 /\ sums[9] = s9
    OBVIOUS
  <2>2. s1 = 0 + n(1) /\ s2 = s1 + n(2) /\ s3 = s2 + n(3) /\ s4 = s3 + n(4) /\ s5 = s4 + n(5)
        /\ s6 = s5 + n(6) /\ s7 = s6 + n(7) /\ s8 = s7 + n(8) /\ s9 = s8 + n(9)
    BY <1>3 DEF s1, s2, s3, s4, s5, s6, s7, s8, s9
  <2>3. \A i \in 0 .. 9 : sums[i] = IF i = 0 THEN 0 ELSE sums[i - 1] + Tries(p, TaskNames[i])
    <3> HIDE DEF sums
    <3> QED BY <2>1, <2>2
  <2>4. sums = [i \in 0 .. 9 |-> sums[i]] OBVIOUS
  <2> QED BY <2>3, <2>4, NamesAre
<1>5. Adds(first)
  <2> HIDE DEF sums, Adds
  <2> QED BY <1>4
<1>6. first = [i \in 0 .. 9 |-> IF i = 0 THEN 0 ELSE first[i - 1] + Tries(p, TaskNames[i])]
  <2> HIDE DEF first
  <2> QED BY <1>5, NamesAre
<1>7. PICK f : f = first OBVIOUS
<1>8. f = [i \in 0 .. 9 |-> IF i = 0 THEN 0 ELSE f[i - 1] + Tries(p, TaskNames[i])]
  <2> HIDE DEF first
  <2> QED BY <1>6, <1>7
<1>9. f[0] = 0 /\ \A i \in 1 .. 9 : f[i] = f[i - 1] + Tries(p, TaskNames[i]) BY <1>8
<1>10. /\ f[1] = f[0] + n(1) /\ f[2] = f[1] + n(2) /\ f[3] = f[2] + n(3) /\ f[4] = f[3] + n(4)
       /\ f[5] = f[4] + n(5) /\ f[6] = f[5] + n(6) /\ f[7] = f[6] + n(7) /\ f[8] = f[7] + n(8)
       /\ f[9] = f[8] + n(9)
  BY <1>9
<1>11. f[9] = n(1) + n(2) + n(3) + n(4) + n(5) + n(6) + n(7) + n(8) + n(9)
  BY <1>3, <1>9, <1>10
<1>12. PlannedAttempts(p) = f[9]
  <2>1. PlannedAttempts(p) = first[Len(TaskNames)] BY DEF PlannedAttempts
  <2> HIDE DEF first
  <2> QED BY <1>7, <2>1, NamesAre
<1>13. TriesOf(p) \in [TaskSet -> 0 .. 2] BY <1>1 DEF TriesOf
<1>14. Sum(TriesOf(p)) = n(1) + n(2) + n(3) + n(4) + n(5) + n(6) + n(7) + n(8) + n(9)
  <2>1. \A t \in TaskSet : TriesOf(p)[t] = Tries(p, t) BY DEF TriesOf
  <2> QED BY <1>3, <2>1, NamesAre DEF Sum, TaskSet, PlannedFirst
<1> QED BY <1>11, <1>12, <1>13, <1>14

LEMMA ValidIsFunded == \A p : PlanShape(p) /\ ValidPlan(p) => Funded(p)
BY PlannedAre DEF ValidPlan, Funded

(* -------------------------------- patches ------------------------------ *)

\* What a task was, or what the patch adds; an edge changes its dependent.
NodeBefore(patch, t) == IF t \in DOMAIN plan \ patch.remove THEN plan[t] ELSE patch.add[t]
Cut(patch, t) == {e[1] : e \in {f \in patch.cut : f[2] = t}}
Tied(patch, t) == {e[1] : e \in {f \in patch.tie : f[2] = t}}

LEMMA NodeIs ==
    ASSUME NEW n \in Nodes, NEW cut, NEW tie, NEW m,
           m = [n EXCEPT !.deps = (@ \ cut) \cup tie], tie \subseteq TaskSet
    PROVE  m \in Nodes /\ m.deps = (n.deps \ cut) \cup tie /\ m.tries = n.tries
BY DEF Nodes

LEMMA PatchedIs ==
    ASSUME NEW patch, PlanShape(plan), NEW p, p = Patched(patch),
           \A t \in DOMAIN patch.add : patch.add[t] \in Nodes,
           \A e \in patch.tie : e[1] \in TaskSet
    PROVE  /\ DOMAIN p = (DOMAIN plan \ patch.remove) \cup DOMAIN patch.add
           /\ \A t \in DOMAIN p :
                 /\ p[t] \in Nodes /\ p[t].tries = NodeBefore(patch, t).tries
                 /\ p[t].deps = (NodeBefore(patch, t).deps \ Cut(patch, t)) \cup Tied(patch, t)
<1>1. DOMAIN p = (DOMAIN plan \ patch.remove) \cup DOMAIN patch.add BY DEF Patched
<1>2. ASSUME NEW t \in DOMAIN p
      PROVE  /\ p[t] \in Nodes /\ p[t].tries = NodeBefore(patch, t).tries
             /\ p[t].deps = (NodeBefore(patch, t).deps \ Cut(patch, t)) \cup Tied(patch, t)
  <2>1. PICK n, cut, tie : n = NodeBefore(patch, t) /\ cut = Cut(patch, t) /\ tie = Tied(patch, t)
    OBVIOUS
  <2>2. n \in Nodes BY <1>1, <2>1 DEF PlanShape, NodeBefore
  <2>3. tie \subseteq TaskSet BY <2>1 DEF Tied
  <2>4. p[t] = [n EXCEPT !.deps = (@ \ cut) \cup tie]
    BY <1>1, <2>1 DEF Patched, NodeBefore, Cut, Tied
  <2> QED BY <2>1, <2>2, <2>3, <2>4, NodeIs
<1> QED BY <1>1, <1>2

LEMMA NoEdges ==
    ASSUME NEW patch, NEW t, \A e \in patch.cut \cup patch.tie : e[2] # t
    PROVE  Cut(patch, t) = {} /\ Tied(patch, t) = {}
BY DEF Cut, Tied

LEMMA OneEdge == \A a, t : {e[1] : e \in {<<a, t>>}} = {a}
OBVIOUS

LEMMA SubstitutePlan ==
    ASSUME PlanShape(plan), Fits(SourceReplacement), NEW p, p = Patched(SourceReplacement)
    PROVE  /\ PlanShape(p) /\ Substitute \notin DOMAIN plan
           /\ DOMAIN p = DOMAIN plan \cup {Substitute}
           /\ \A t \in DOMAIN plan :
                 p[t].tries = plan[t].tries /\ (t # Compare => p[t].deps = plan[t].deps)
<1> DEFINE patch == SourceReplacement
<1>1. /\ patch.remove = {} /\ DOMAIN patch.add = {Substitute}
      /\ patch.add[Substitute] = Node({}, 1)
      /\ patch.cut = {<<Guidance, Compare>>} /\ patch.tie = {<<Substitute, Compare>>}
  BY DEF SourceReplacement, Substitute, Guidance, Compare
<1>2. patch.add[Substitute] \in Nodes BY <1>1 DEF Nodes, Node
<1> HIDE DEF patch
<1>3. Fits(patch) /\ p = Patched(patch) BY DEF patch
<1>4. Substitute \notin DOMAIN plan BY <1>1, <1>3 DEF Fits
<1>5. \A t \in DOMAIN patch.add : patch.add[t] \in Nodes BY <1>1, <1>2
<1>6. \A e \in patch.tie : e[1] \in TaskSet BY <1>1 DEF TaskSet
<1>7. DOMAIN p = DOMAIN plan \cup {Substitute} BY <1>1, <1>3, <1>5, <1>6, PatchedIs
<1>8. \A t \in DOMAIN p :
        /\ p[t] \in Nodes /\ p[t].tries = NodeBefore(patch, t).tries
        /\ p[t].deps = (NodeBefore(patch, t).deps \ Cut(patch, t)) \cup Tied(patch, t)
  BY <1>3, <1>5, <1>6, PatchedIs
<1>9. ASSUME NEW t \in DOMAIN p \ {Compare}
      PROVE  LET n == IF t \in DOMAIN plan THEN plan[t] ELSE Node({}, 1) IN
             p[t] \in Nodes /\ p[t].tries = n.tries /\ p[t].deps = n.deps
  <2>1. \A e \in patch.cut \cup patch.tie : e[2] # t BY <1>1
  <2>2. Cut(patch, t) = {} /\ Tied(patch, t) = {} BY <2>1, NoEdges
  <2>3. NodeBefore(patch, t) = IF t \in DOMAIN plan THEN plan[t] ELSE Node({}, 1)
    BY <1>1, <1>7 DEF NodeBefore
  <2> QED BY <1>8, <2>2, <2>3
<1>10. /\ Compare \in DOMAIN plan
       /\ p[Compare] \in Nodes /\ p[Compare].tries = plan[Compare].tries
       /\ p[Compare].deps = (plan[Compare].deps \ {Guidance}) \cup {Substitute}
  <2>1. Cut(patch, Compare) = {Guidance} /\ Tied(patch, Compare) = {Substitute}
    <3>1. /\ {f \in patch.cut : f[2] = Compare} = {<<Guidance, Compare>>}
          /\ {f \in patch.tie : f[2] = Compare} = {<<Substitute, Compare>>}
      BY <1>1
    <3> QED BY <3>1, OneEdge DEF Cut, Tied
  <2>2. Compare \in DOMAIN plan BY DEF PlanShape, PlannedFirst
  <2>3. NodeBefore(patch, Compare) = plan[Compare] BY <1>1, <2>2 DEF NodeBefore
  <2> QED BY <1>7, <1>8, <2>1, <2>2, <2>3
<1>11. p[Compare].deps = {Primary, Foundation, Substitute}
  <2>1. plan[Compare].deps = {Primary, Foundation, Guidance} BY <1>4 DEF PlanShape
  <2>2. Primary # Guidance /\ Foundation # Guidance BY DEF Primary, Foundation, Guidance
  <2> QED BY <1>10, <2>1, <2>2
<1>12. p[Substitute].deps = {} /\ p[Substitute].tries = 1 /\ p[Substitute] \in Nodes
  <2>1. Substitute # Compare BY DEF Substitute, Compare
  <2> QED BY <1>4, <1>7, <1>9, <2>1 DEF Node
<1>13. \A t \in DOMAIN plan \ {Compare} :
          p[t] \in Nodes /\ p[t].tries = plan[t].tries /\ p[t].deps = plan[t].deps
  BY <1>7, <1>9
<1>14. /\ Substitute \notin {Compare, Check, Report, Reconciliation, Primary, Supplement}
       /\ Compare \notin {Check, Report, Reconciliation, Primary}
  BY DEF Substitute, Compare, Check, Report, Reconciliation, Primary, Supplement
<1>15. PlanShape(p)
  BY <1>7, <1>10, <1>11, <1>12, <1>13, <1>14 DEF PlanShape, TaskSet, PlannedFirst
<1> QED BY <1>4, <1>7, <1>10, <1>13, <1>15

\* What a checkpoint asks for is planned before the checkpoint.
LEMMA CheckedPlan ==
    ASSUME PlanShape(plan), NEW new \in {Reconciliation, Supplement}, NEW patch,
           patch = (IF new = Supplement THEN MissingEvidence ELSE ConflictReconciliation),
           Fits(patch), NEW p, p = Patched(patch)
    PROVE  /\ PlanShape(p) /\ new \notin DOMAIN plan
           /\ DOMAIN p = DOMAIN plan \cup {new}
           /\ \A t \in DOMAIN plan \ {Check} : p[t].tries = plan[t].tries /\ p[t].deps = plan[t].deps
           /\ p[Check].tries = 2 /\ new \in p[Check].deps
<1> DEFINE deps == IF new = Supplement THEN {Compare, Supplement} ELSE {Reconciliation}
           first == IF new = Supplement THEN {} ELSE {Compare}
<1>1. Reconciliation # Supplement /\ Check # new /\ {Compare, Supplement} = {Supplement, Compare}
  BY DEF Reconciliation, Supplement, Check
<1>2. /\ patch.remove = {Check} /\ DOMAIN patch.add = {new, Check}
      /\ patch.add[new] = Node(first, 1) /\ patch.add[Check] = Node(deps, 2)
      /\ patch.cut = {} /\ patch.tie = {}
  <2>1. CASE new = Supplement
    BY <2>1, <1>1 DEF MissingEvidence, Supplement, Compare
  <2>2. CASE new = Reconciliation
    BY <2>2, <1>1 DEF ConflictReconciliation, Compare
  <2> QED BY <2>1, <2>2
<1>3. deps \subseteq TaskSet /\ first \subseteq TaskSet BY DEF TaskSet, PlannedFirst
<1>4. Node(first, 1) \in Nodes /\ Node(deps, 2) \in Nodes BY <1>3 DEF Node, Nodes
<1>5. Check \in DOMAIN plan /\ DOMAIN plan \subseteq TaskSet BY DEF PlanShape, PlannedFirst
<1>6. new \notin DOMAIN plan BY <1>1, <1>2 DEF Fits
<1> HIDE DEF deps, first
<1>7. \A t \in DOMAIN patch.add : patch.add[t] \in Nodes BY <1>2, <1>4
<1>8. \A e \in patch.tie : e[1] \in TaskSet BY <1>2
<1>9. DOMAIN p = DOMAIN plan \cup {new}
  <2>1. DOMAIN p = (DOMAIN plan \ patch.remove) \cup DOMAIN patch.add BY <1>7, <1>8, PatchedIs
  <2> QED BY <1>2, <1>5, <2>1
<1>10. ASSUME NEW t \in DOMAIN p
       PROVE  LET n == IF t \in DOMAIN plan \ {Check} THEN plan[t]
                       ELSE IF t = Check THEN Node(deps, 2) ELSE Node(first, 1) IN
              p[t] \in Nodes /\ p[t].tries = n.tries /\ p[t].deps = n.deps
  <2>1. Cut(patch, t) = {} /\ Tied(patch, t) = {} BY <1>2, NoEdges
  <2>2. /\ p[t] \in Nodes /\ p[t].tries = NodeBefore(patch, t).tries
        /\ p[t].deps = (NodeBefore(patch, t).deps \ Cut(patch, t)) \cup Tied(patch, t)
    BY <1>7, <1>8, PatchedIs
  <2>3. t \notin DOMAIN plan \ {Check} => t \in {Check, new} BY <1>9
  <2>4. NodeBefore(patch, t) = IF t \in DOMAIN plan \ {Check} THEN plan[t]
                               ELSE IF t = Check THEN Node(deps, 2) ELSE Node(first, 1)
    BY <1>2, <2>3 DEF NodeBefore
  <2> QED BY <2>1, <2>2, <2>4
<1>11. \A t \in DOMAIN plan \ {Check} :
          p[t] \in Nodes /\ p[t].tries = plan[t].tries /\ p[t].deps = plan[t].deps
  BY <1>9, <1>10
<1>12. p[Check] \in Nodes /\ p[Check].tries = 2 /\ p[Check].deps = deps
  BY <1>5, <1>9, <1>10 DEF Node
<1>13. p[new] \in Nodes /\ p[new].tries = 1 /\ p[new].deps = first
  BY <1>1, <1>6, <1>9, <1>10 DEF Node
<1>14. PlanShape(p)
  <2>1. PlannedFirst \subseteq DOMAIN p /\ DOMAIN p \subseteq TaskSet
    BY <1>9 DEF PlanShape, TaskSet
  <2>2. \A t \in DOMAIN p : p[t] \in Nodes BY <1>9, <1>11, <1>12, <1>13
  <2>3. \A t \in DOMAIN p \ {Compare, Check, Report, Reconciliation} : p[t].deps = {}
    <3>1. new = Supplement => p[new].deps = {} BY <1>1, <1>13 DEF first
    <3> QED BY <1>9, <1>11, <3>1 DEF PlanShape
  <2>4. p[Compare].deps =
          {Primary, Foundation, IF Substitute \in DOMAIN p THEN Substitute ELSE Guidance}
    <3>1. Substitute # new /\ Compare # Check
      BY DEF Substitute, Reconciliation, Supplement, Compare, Check
    <3> QED BY <1>9, <1>11, <3>1 DEF PlanShape, PlannedFirst
  <2>5. Reconciliation \in DOMAIN p => p[Reconciliation].deps = {Compare}
    <3>1. Reconciliation # Check BY DEF Reconciliation, Check
    <3>2. new = Reconciliation => p[new].deps = {Compare} BY <1>1, <1>13 DEF first
    <3> QED BY <1>9, <1>11, <3>1, <3>2 DEF PlanShape
  <2>6. \/ p[Check].deps = {Compare}
        \/ p[Check].deps = {Reconciliation} /\ Reconciliation \in DOMAIN p
        \/ p[Check].deps = {Compare, Supplement} /\ Supplement \in DOMAIN p
    BY <1>1, <1>9, <1>12 DEF deps
  <2>7. p[Report].deps = {Check} /\ p[Primary].tries = 2
    <3>1. Report # Check /\ Primary # Check BY DEF Report, Check, Primary
    <3> QED BY <1>11, <3>1 DEF PlanShape, PlannedFirst
  <2>8. \A t \in DOMAIN p \ {Primary, Check} : p[t].tries = 1
    BY <1>9, <1>11, <1>13 DEF PlanShape
  <2> QED BY <2>1, <2>2, <2>3, <2>4, <2>5, <2>6, <2>7, <2>8 DEF PlanShape
<1>15. new \in p[Check].deps BY <1>1, <1>12 DEF deps
<1> QED BY <1>6, <1>9, <1>11, <1>12, <1>14, <1>15

(* -------------------------------- states ------------------------------- *)

LEMMA NamesDiffer ==
    /\ NoTask \notin TaskSet
    /\ Check \notin {Primary, Foundation, Guidance, Compare, Report, Substitute, Supplement, Reconciliation}
    /\ Compare \notin {Primary, Foundation, Guidance, Report, Substitute, Supplement, Reconciliation}
    /\ Report \notin {Primary, Foundation, Guidance, Substitute, Supplement, Reconciliation}
    /\ Guidance \notin {Primary, Foundation, Substitute, Supplement, Reconciliation}
    /\ Substitute \notin {Supplement, Reconciliation, Primary, Foundation}
    /\ Supplement \notin {Reconciliation, Primary, Foundation}
    /\ Reconciliation \notin {Primary, Foundation} /\ Primary # Foundation
BY DEF TaskSet, PlannedFirst, NoTask, Check, Compare, Report, Guidance, Substitute, Supplement,
       Reconciliation, Primary, Foundation

\* What depends on what, for whoever needs no more of a plan.
LEMMA DepsAre ==
    ASSUME PlanShape(plan)
    PROVE  /\ PlannedFirst \subseteq DOMAIN plan /\ DOMAIN plan \subseteq TaskSet
           /\ NoTask \notin DOMAIN plan
           /\ \A t \in DOMAIN plan : plan[t].deps \subseteq DOMAIN plan /\ plan[t].tries \in {1, 2}
BY NamesDiffer DEF PlanShape, Nodes, PlannedFirst

LEMMA CheckpointDeps ==
    ASSUME PlanShape(plan)
    PROVE  \/ Compare \in plan[Check].deps
           \/ Reconciliation \in plan[Check].deps /\ Reconciliation \in DOMAIN plan
<1>1. CASE plan[Check].deps = {Compare} BY <1>1
<1>2. CASE plan[Check].deps = {Reconciliation} /\ Reconciliation \in DOMAIN plan BY <1>2
<1>3. CASE plan[Check].deps = {Compare, Supplement} BY <1>3
<1> QED BY <1>1, <1>2, <1>3 DEF PlanShape

LEMMA StatusesChange ==
    ASSUME PlanShape(plan), StatesShape, UNCHANGED plan,
           taskStates' \in [DOMAIN plan -> [status : TaskStatuses, attempt : Nat]],
           \A t \in DOMAIN plan :
              /\ taskStates'[t].attempt = taskStates[t].attempt
              /\ \/ taskStates'[t].status = taskStates[t].status
                 \/ /\ taskStates[t].status \notin {"SUCCEEDED", "FAILED"}
                    /\ taskStates'[t].status # "RUNNING"
                    /\ taskStates'[t].status = "SUCCEEDED" =>
                          taskStates[t].status = "RUNNING" /\ t # Guidance
    PROVE  StatesShape' /\ \A t : Finished(t) => Finished(t)'
<1>1. DOMAIN taskStates = DOMAIN plan /\ DOMAIN taskStates' = DOMAIN plan BY DEF StatesShape
<1>2. \A t : Finished(t) => Finished(t)' BY <1>1 DEF Finished
<1>3. \A t \in DOMAIN plan : Prepared(t) => Prepared(t)' BY <1>2 DEF Prepared
<1>4. Compare \in DOMAIN plan /\ Check \in DOMAIN plan /\ Guidance \in DOMAIN plan
  BY DepsAre DEF PlannedFirst
<1>5. ASSUME NEW t \in DOMAIN plan
      PROVE  /\ taskStates'[t].attempt <= plan'[t].tries
             /\ taskStates'[t].status \in {"RUNNING", "SUCCEEDED"} =>
                   taskStates'[t].attempt >= 1 /\ Prepared(t)'
             /\ taskStates'[t].attempt >= 1 /\ t # Check => Prepared(t)'
  BY <1>3, <1>5 DEF StatesShape
<1>6. taskStates'[Check].attempt >= 1 => Finished(Compare)' BY <1>2, <1>4 DEF StatesShape
<1>7. ~Finished(Guidance)' BY <1>1, <1>4 DEF StatesShape, Finished
<1>8. Substitute \in DOMAIN plan' => taskStates'[Guidance].status = "FAILED"
  BY <1>4 DEF StatesShape
<1>9. \A t \in {Reconciliation, Supplement} \cap DOMAIN plan' :
         Finished(Compare)' /\ (t \in plan'[Check].deps \/ Finished(t)')
  BY <1>2 DEF StatesShape
<1> QED BY <1>2, <1>5, <1>6, <1>7, <1>8, <1>9 DEF StatesShape

\* An outcome is written into the state of one task.
LEMMA OneStatus ==
    ASSUME PlanShape(plan), StatesShape, UNCHANGED plan, NEW t \in DOMAIN plan,
           NEW s \in TaskStatuses, taskStates' = [taskStates EXCEPT ![t].status = s],
           taskStates[t].status \notin {"SUCCEEDED", "FAILED"}, s # "RUNNING",
           s = "SUCCEEDED" => taskStates[t].status = "RUNNING" /\ t # Guidance
    PROVE  /\ StatesShape' /\ DOMAIN taskStates' = DOMAIN plan
           /\ taskStates'[t].status = s /\ taskStates'[t].attempt = taskStates[t].attempt
           /\ \A n \in DOMAIN plan \ {t} : taskStates'[n] = taskStates[n]
           /\ \A n : Finished(n) => Finished(n)'
           /\ \A n : Finished(n)' <=> Finished(n) \/ (n = t /\ s = "SUCCEEDED")
<1>1. taskStates \in [DOMAIN plan -> [status : TaskStatuses, attempt : Nat]] BY DEF StatesShape
<1>2. PICK x : x = [taskStates[t] EXCEPT !.status = s] OBVIOUS
<1>3. /\ x \in [status : TaskStatuses, attempt : Nat] /\ x.status = s
      /\ x.attempt = taskStates[t].attempt
  BY <1>1, <1>2
<1>4. taskStates' = [taskStates EXCEPT ![t] = x] BY <1>1, <1>2
<1>5. taskStates' \in [DOMAIN plan -> [status : TaskStatuses, attempt : Nat]]
  BY <1>1, <1>3, <1>4
<1>6. taskStates'[t] = x /\ \A n \in DOMAIN plan \ {t} : taskStates'[n] = taskStates[n]
  BY <1>1, <1>4
<1>7. StatesShape' /\ \A n : Finished(n) => Finished(n)'
  BY <1>3, <1>5, <1>6, StatusesChange
<1>8. \A n : Finished(n)' <=> Finished(n) \/ (n = t /\ s = "SUCCEEDED")
  BY <1>1, <1>3, <1>5, <1>6 DEF Finished
<1> QED BY <1>3, <1>5, <1>6, <1>7, <1>8

LEMMA StatesStay == StatesShape /\ UNCHANGED <<plan, taskStates>> => StatesShape'
BY DEF StatesShape, Finished, Prepared

LEMMA OutputsStay ==
    ASSUME OutputsShape, UNCHANGED <<plan, version, outputs>>, \A t \in TaskSet : Finished(t)' <=> Finished(t)
    PROVE  OutputsShape'
<1>1. Produced' = Produced BY DEF Produced
<1> QED BY <1>1 DEF OutputsShape

(* -------------------------------- answers ------------------------------ *)

LEMMA AnswersAre ==
    ASSUME running \in TaskSet
    PROVE  /\ Answer \in Transient \cup Replanning \cup {"OK", "PASS"}
           /\ Answer = "SOURCE_UNAVAILABLE" => running = Guidance
           /\ Answer \in {"CONFLICT", "MISSING_EVIDENCE", "PASS"} =>
                 running = Check /\ Answer = CheckpointStatus
           /\ Answer = "OK" => running \notin {Check, Guidance}
<1>1. CheckpointStatus \in {"CONFLICT", "MISSING_EVIDENCE", "PASS"} BY DEF CheckpointStatus
<1> QED BY <1>1, NamesDiffer DEF Answer, Transient, Replanning, Guidance

LEMMA CostsAre ==
    ASSUME running \in TaskSet
    PROVE  /\ Cost(running, Answer) \in Nat
           /\ Answer \in Transient \cup {"SOURCE_UNAVAILABLE"} => Cost(running, Answer) = 1
           /\ running = Check => Cost(running, Answer) <= 2
           /\ Answer = "OK" => Cost(running, Answer) = Price(running)
           /\ running # Check => Cost(running, Answer) <= Price(running)
           /\ running = Guidance => Cost(running, Answer) = 1
<1>1. /\ Answer \in {"TIMEOUT", "INVALID_OUTPUT", "SOURCE_UNAVAILABLE"} => Cost(running, Answer) = 1
      /\ Answer \notin {"TIMEOUT", "INVALID_OUTPUT", "SOURCE_UNAVAILABLE"} =>
            Cost(running, Answer) = IF running = Check THEN 2 ELSE Price(running)
  BY NamesDiffer DEF Cost, Price, Compare, Report
<1>2. Price(running) \in {4, 6, 8} BY DEF Price
<1>3. running = Guidance => Answer \in {"TIMEOUT", "INVALID_OUTPUT", "SOURCE_UNAVAILABLE"}
  BY AnswersAre, NamesDiffer DEF Transient, Replanning
<1> QED BY <1>1, <1>2, <1>3, AnswersAre, NamesDiffer DEF Transient

(* -------------------------------- starting ----------------------------- *)

LEMMA PlansStart == ASSUME PlannerInit PROVE PlannerInvariant
<1>1. plan = InitialPlan /\ DOMAIN plan = PlannedFirst
  BY DEF PlannerInit, InitialPlan, PlannedFirst, Primary, Foundation, Guidance, Compare, Report
<1>2. /\ plan[Primary] = Node({}, 2) /\ plan[Foundation] = Node({}, 1) /\ plan[Guidance] = Node({}, 1)
      /\ plan[Compare] = Node({Primary, Foundation, Guidance}, 1)
      /\ plan[Check] = Node({Compare}, 1) /\ plan[Report] = Node({Check}, 1)
  BY <1>1, NamesDiffer
  DEF InitialPlan, PlannedFirst, Primary, Foundation, Guidance, Compare, Report
<1>3. Substitute \notin DOMAIN plan /\ Supplement \notin DOMAIN plan /\ Reconciliation \notin DOMAIN plan
  BY <1>1, NamesDiffer DEF PlannedFirst
<1>4. PlanShape(plan)
  <2>1. \A t \in PlannedFirst : plan[t] \in Nodes
    BY <1>2 DEF PlannedFirst, Nodes, Node, TaskSet
  <2>2. \A t \in PlannedFirst \ {Compare, Check, Report} : plan[t].deps = {}
    BY <1>2 DEF PlannedFirst, Node
  <2>3. \A t \in PlannedFirst \ {Primary, Check} : plan[t].tries = 1 BY <1>2 DEF PlannedFirst, Node
  <2> QED BY <1>1, <1>2, <1>3, <2>1, <2>2, <2>3 DEF PlanShape, TaskSet, Node
<1>5. taskStates = [t \in DOMAIN plan |-> [status |-> "PENDING", attempt |-> 0]] BY DEF PlannerInit
<1>6. StatesShape
  <2>1. \A t \in DOMAIN plan : taskStates[t].status = "PENDING" /\ taskStates[t].attempt = 0 BY <1>5
  <2>2. taskStates \in [DOMAIN plan -> [status : TaskStatuses, attempt : Nat]]
    BY <1>5 DEF TaskStatuses
  <2>3. Check \in DOMAIN plan BY <1>1 DEF PlannedFirst
  <2>4. \A t : ~Finished(t) BY <2>1, <2>2 DEF Finished
  <2>5. \A t \in DOMAIN plan : 0 <= plan[t].tries BY <1>4 DEF PlanShape, Nodes
  <2> QED BY <1>3, <2>1, <2>2, <2>3, <2>4, <2>5 DEF StatesShape
<1>7. QueueShape BY <1>5, NamesDiffer, <1>1 DEF PlannerInit, QueueShape, Finished, TaskSet, PlannedFirst
<1>8. OutputsShape
  <2>1. Produced = {} BY DEF PlannerInit, Produced
  <2>2. \A t : ~Finished(t) BY <1>5 DEF Finished
  <2>3. outputs = << >> /\ version = 1 BY DEF PlannerInit
  <2> QED BY <2>1, <2>2, <2>3 DEF OutputsShape
<1>9. BooksShape
  <2>1. Ceilings \in [TaskSet -> Nat] /\ Attempts \in [TaskSet -> Nat]
    BY <1>5 DEF Ceilings, Attempts, AnswersTo, Finished
  <2>2. Sum(Ceilings) \in Nat /\ Sum(Attempts) \in Nat BY <2>1, SumIs
  <2>3. goal.attempts \in Nat BY PlannerAssumption DEF PlannerInit
  <2> QED BY <2>2, <2>3 DEF PlannerInit, BooksShape
<1>10. Funded(plan) BY <1>4, ValidIsFunded DEF PlannerInit
<1> QED BY <1>4, <1>6, <1>7, <1>8, <1>9, <1>10 DEF PlannerInit, PlannerInvariant

(* --------------------------------- costs ------------------------------- *)

\* What a task may cost when it has been answered as often as the plan allows.
Caps ==
    [t \in TaskSet |-> CASE t = Primary -> 5 [] t = Guidance -> 1 [] t = Compare -> 6
                         [] t = Report -> 8 [] t = Check -> 2 * Tries(plan, Check)
                         [] OTHER -> 4 * Tries(plan, t)]

LEMMA CountsAre ==
    ASSUME PlanShape(plan), StatesShape
    PROVE  /\ \A t \in TaskSet : AnswersTo(t) \in Nat /\ (Finished(t) => AnswersTo(t) >= 1)
           /\ Ceilings \in [TaskSet -> Nat] /\ Attempts \in [TaskSet -> Nat]
           /\ Sum(Ceilings) \in Nat /\ Sum(Attempts) \in Nat
<1>1. ASSUME NEW t \in TaskSet PROVE AnswersTo(t) \in Nat /\ (Finished(t) => AnswersTo(t) >= 1)
  BY DEF StatesShape, AnswersTo, Finished
<1>2. \A t : Price(t) \in {4, 6, 8} BY DEF Price
<1>3. Ceilings \in [TaskSet -> Nat] BY <1>1, <1>2 DEF Ceilings
<1>4. Attempts \in [TaskSet -> Nat] BY DEF StatesShape, Attempts
<1> QED BY <1>1, <1>3, <1>4, SumIs

LEMMA CapsAre ==
    ASSUME PlanShape(plan), StatesShape
    PROVE  /\ Caps \in [TaskSet -> Nat] /\ \A t \in TaskSet : Ceilings[t] <= Caps[t]
           /\ \A f \in [TaskSet -> Int] :
                 (\A t \in TaskSet : f[t] <= Caps[t]) => Sum(f) + 2 <= 4 * Sum(TriesOf(plan))
<1>1. TriesOf(plan) \in [TaskSet -> 0 .. 2] /\ \A t \in TaskSet : TriesOf(plan)[t] = Tries(plan, t)
  BY PlannedAre DEF TriesOf
<1>2. \A t \in TaskSet : Tries(plan, t) \in Nat BY <1>1
<1>3. PlannedFirst \subseteq TaskSet /\ Substitute \in TaskSet /\ Supplement \in TaskSet
      /\ Reconciliation \in TaskSet
  BY DEF TaskSet
<1>4. /\ Caps[Primary] = 5 /\ Caps[Guidance] = 1 /\ Caps[Compare] = 6 /\ Caps[Report] = 8
      /\ Caps[Check] = 2 * Tries(plan, Check)
      /\ \A t \in {Foundation, Substitute, Supplement, Reconciliation} : Caps[t] = 4 * Tries(plan, t)
  BY <1>3, NamesDiffer DEF Caps, PlannedFirst
<1>5. /\ Tries(plan, Primary) = 2 /\ Tries(plan, Check) >= 1
      /\ \A t \in {Foundation, Guidance, Compare, Report} : Tries(plan, t) = 1
  BY DepsAre, NamesDiffer DEF PlanShape, PlannedFirst, Tries
<1>6. Caps \in [TaskSet -> Nat]
  <2>1. \A t \in TaskSet : Caps[t] \in Nat BY <1>2, <1>4 DEF TaskSet, PlannedFirst
  <2>2. Caps = [t \in TaskSet |-> Caps[t]] BY DEF Caps
  <2> QED BY <2>1, <2>2
<1>7. ASSUME NEW t \in TaskSet PROVE Ceilings[t] <= Caps[t]
  <2>1. CASE t \notin DOMAIN plan
    <3>1. Ceilings[t] = 0 BY <2>1 DEF StatesShape, Ceilings, AnswersTo, Finished
    <3> QED BY <1>6, <3>1
  <2>2. CASE t \in DOMAIN plan
    <3>1. /\ taskStates[t].attempt \in Nat /\ taskStates[t].attempt <= plan[t].tries
          /\ taskStates[t].status \in {"RUNNING", "SUCCEEDED"} => taskStates[t].attempt >= 1
          /\ Finished(t) <=> taskStates[t].status = "SUCCEEDED"
          /\ t \in DOMAIN taskStates
      BY <2>2 DEF StatesShape, Finished
    <3>2. plan[t].tries = Tries(plan, t) BY <2>2 DEF Tries
    <3>3. /\ t = Check => Ceilings[t] <= 2 * Tries(plan, t)
          /\ t # Check /\ Finished(t) => Ceilings[t] <= Tries(plan, t) - 1 + Price(t)
          /\ t # Check /\ ~Finished(t) => Ceilings[t] <= Tries(plan, t)
      <4>1. AnswersTo(t) \in Nat /\ AnswersTo(t) <= Tries(plan, t)
        BY <1>2, <3>1, <3>2 DEF AnswersTo
      <4>2. Price(t) \in {4, 6, 8} BY DEF Price
      <4> QED BY <1>2, <4>1, <4>2 DEF Ceilings
    <3>4. t = Guidance => ~Finished(t) BY DEF StatesShape
    <3>5. t \in DOMAIN plan \ {Primary, Check} => Tries(plan, t) = 1 BY <3>2 DEF PlanShape
    <3>6. /\ t = Compare => Price(t) = 6
          /\ t = Report => Price(t) = 8
          /\ t \notin {Compare, Report} => Price(t) = 4
      BY NamesDiffer DEF Price
    <3>7. Ceilings[t] \in Nat /\ Tries(plan, t) \in Nat BY <1>2, CountsAre
    <3>8. CASE t = Check BY <1>4, <3>3, <3>8
    <3>9. CASE t = Guidance
      BY <1>4, <1>5, <3>3, <3>4, <3>7, <3>9, NamesDiffer
    <3>10. CASE t \in {Primary, Foundation, Compare, Report}
      BY <1>4, <1>5, <3>3, <3>6, <3>7, <3>10, NamesDiffer
    <3>11. CASE t \in {Substitute, Supplement, Reconciliation}
      BY <1>4, <2>2, <3>3, <3>5, <3>6, <3>7, <3>11, NamesDiffer
    <3> QED BY <3>8, <3>9, <3>10, <3>11 DEF TaskSet, PlannedFirst
  <2> QED BY <2>1, <2>2
<1>8. ASSUME NEW f \in [TaskSet -> Int], \A t \in TaskSet : f[t] <= Caps[t]
      PROVE  Sum(f) + 2 <= 4 * Sum(TriesOf(plan))
  <2>1. Sum(f) <= Sum(Caps)
    BY <1>6, <1>8, SumsInOrder
  <2>2. Sum(Caps) + 2 <= 4 * Sum(TriesOf(plan))
    BY <1>1, <1>2, <1>3, <1>4, <1>5 DEF Sum, PlannedFirst
  <2>3. Sum(f) \in Int /\ Sum(Caps) \in Int /\ Sum(TriesOf(plan)) \in Int
    BY <1>1, <1>3, <1>6, <1>8 DEF Sum, PlannedFirst
  <2> QED BY <2>1, <2>2, <2>3
<1> QED BY <1>6, <1>7, <1>8

\* What is left pays for an answer to a task that was dispatched.
LEMMA AnswersFit ==
    ASSUME PlanShape(plan), StatesShape, running \in DOMAIN plan,
           taskStates[running].status = "RUNNING"
    PROVE  Sum(Ceilings) + Cost(running, Answer) <= 4 * Sum(TriesOf(plan))
<1>1. running \in TaskSet BY DepsAre
<1>2. PICK t, c : t = running /\ c = Cost(running, Answer) OBVIOUS
<1>3. t \in TaskSet /\ c \in Nat BY <1>1, <1>2, CostsAre
<1>4. Ceilings \in [TaskSet -> Nat] BY CountsAre
<1>5. /\ taskStates[t].attempt \in Nat /\ taskStates[t].attempt <= plan[t].tries
      /\ taskStates[t].attempt >= 1 /\ ~Finished(t) /\ t \in DOMAIN taskStates
      /\ plan[t].tries = Tries(plan, t)
  BY <1>2 DEF StatesShape, Finished, Tries
<1>6. AnswersTo(t) = taskStates[t].attempt - 1 BY <1>2, <1>5 DEF AnswersTo
<1>7. Ceilings[t] + c <= Caps[t]
  <2>1. CASE t = Check
    <3>1. Ceilings[t] = 2 * AnswersTo(t) /\ c <= 2 BY <1>1, <1>2, <1>3, <2>1, CostsAre DEF Ceilings
    <3>2. Caps[t] = 2 * Tries(plan, t) BY <1>3, <2>1, NamesDiffer DEF Caps
    <3>3. Tries(plan, t) \in Nat BY <1>2, <1>5, DepsAre
    <3> QED BY <1>3, <1>5, <1>6, <3>1, <3>2, <3>3
  <2>2. CASE t # Check
    <3>1. Ceilings[t] = AnswersTo(t) /\ c <= Price(t)
      BY <1>1, <1>2, <1>3, <1>5, <2>2, CostsAre DEF Ceilings
    <3>2. /\ t = Compare => Price(t) = 6 /\ Caps[t] = 6
          /\ t = Report => Price(t) = 8 /\ Caps[t] = 8
          /\ t = Primary => Price(t) = 4 /\ Caps[t] = 5
          /\ t = Guidance => Caps[t] = 1 /\ c = 1
          /\ t \notin {Compare, Report, Primary, Guidance} =>
                Price(t) = 4 /\ Caps[t] = 4 * Tries(plan, t)
      BY <1>1, <1>2, <1>3, <2>2, CostsAre, NamesDiffer DEF Price, Caps
    <3>3. (t = Primary => Tries(plan, t) = 2) /\ (t # Primary => Tries(plan, t) = 1)
      BY <1>2, <1>5, <2>2 DEF PlanShape
    <3> QED BY <1>3, <1>5, <1>6, <3>1, <3>2, <3>3
  <2> QED BY <2>1, <2>2
<1>8. PICK f : f = [Ceilings EXCEPT ![t] = Ceilings[t] + c] OBVIOUS
<1>9. f \in [TaskSet -> Int] /\ f[t] = Ceilings[t] + c /\ \A n \in TaskSet \ {t} : f[n] = Ceilings[n]
  BY <1>3, <1>4, <1>8
<1>10. Sum(f) = Sum(Ceilings) + c
  <2>1. Sum(f) = Sum(Ceilings) - Ceilings[t] + f[t] BY <1>3, <1>4, <1>9, SumOfOthers
  <2>2. Sum(Ceilings) \in Nat BY CountsAre
  <2> QED BY <1>3, <1>4, <1>9, <2>1, <2>2
<1>11. \A n \in TaskSet : f[n] <= Caps[n] BY <1>7, <1>9, CapsAre
<1>12. Sum(f) + 2 <= 4 * Sum(TriesOf(plan)) BY <1>9, <1>11, CapsAre
<1>13. Sum(Ceilings) \in Nat /\ Sum(TriesOf(plan)) \in Nat
  <2>1. TriesOf(plan) \in [TaskSet -> Nat] BY PlannedAre
  <2> QED BY <2>1, CountsAre, SumIs
<1> QED BY <1>2, <1>3, <1>10, <1>12, <1>13

\* A task that has attempts left can be started as far as the goal is concerned.
LEMMA RoomIsLeft ==
    ASSUME PlanShape(plan), StatesShape, NEW t \in DOMAIN plan, taskStates[t].status = "PENDING",
           taskStates[t].attempt < plan[t].tries
    PROVE  /\ Sum(Ceilings) + Estimate <= 4 * Sum(TriesOf(plan))
           /\ Sum(Attempts) < Sum(TriesOf(plan))
<1>1. t \in TaskSet BY DepsAre
<1>2. Ceilings \in [TaskSet -> Nat] /\ Attempts \in [TaskSet -> Nat] BY CountsAre
<1>3. TriesOf(plan) \in [TaskSet -> 0 .. 2] /\ \A n \in TaskSet : TriesOf(plan)[n] = Tries(plan, n)
  BY PlannedAre DEF TriesOf
<1>4. /\ taskStates[t].attempt \in Nat /\ ~Finished(t) /\ t \in DOMAIN taskStates
      /\ plan[t].tries = Tries(plan, t)
      /\ AnswersTo(t) = taskStates[t].attempt
  BY DEF StatesShape, Finished, Tries, AnswersTo
<1>5. Sum(Attempts) < Sum(TriesOf(plan))
  <2>1. \A n \in TaskSet : Attempts[n] <= TriesOf(plan)[n]
    <3> TAKE n \in TaskSet
    <3>1. CASE n \in DOMAIN plan
      <4>1. Attempts[n] = taskStates[n].attempt /\ Tries(plan, n) = plan[n].tries
        BY <3>1 DEF StatesShape, Attempts, Tries
      <4> QED BY <1>3, <3>1, <4>1 DEF StatesShape
    <3>2. CASE n \notin DOMAIN plan
      <4>1. Attempts[n] = 0 BY <3>2 DEF StatesShape, Attempts
      <4> QED BY <1>3, <4>1
    <3> QED BY <3>1, <3>2
  <2>2. Attempts[t] < TriesOf(plan)[t] BY <1>1, <1>3, <1>4 DEF Attempts
  <2>3. TriesOf(plan) \in [TaskSet -> Int] /\ Attempts \in [TaskSet -> Int] BY <1>2, <1>3
  <2> QED BY <1>1, <2>1, <2>2, <2>3, SumsInOrder
<1>6. ASSUME NEW n \in TaskSet, NEW c \in Nat, Ceilings[n] + c <= Caps[n]
      PROVE  Sum(Ceilings) + c + 2 <= 4 * Sum(TriesOf(plan))
  <2>1. PICK f : f = [Ceilings EXCEPT ![n] = Ceilings[n] + c] OBVIOUS
  <2>2. /\ f \in [TaskSet -> Int] /\ f[n] = Ceilings[n] + c
        /\ \A m \in TaskSet \ {n} : f[m] = Ceilings[m]
    BY <1>2, <2>1
  <2>3. Sum(f) = Sum(Ceilings) - Ceilings[n] + f[n] BY <1>2, <2>2, SumOfOthers
  <2>4. Sum(Ceilings) \in Nat BY CountsAre
  <2>5. Sum(f) = Sum(Ceilings) + c BY <1>2, <2>2, <2>3, <2>4
  <2>6. \A m \in TaskSet : f[m] <= Caps[m] BY <1>6, <2>2, CapsAre
  <2>7. Sum(f) + 2 <= 4 * Sum(TriesOf(plan)) BY <2>2, <2>6, CapsAre
  <2> QED BY <2>5, <2>7
<1>7. Sum(Ceilings) \in Nat /\ Sum(TriesOf(plan)) \in Nat
  <2>1. TriesOf(plan) \in [TaskSet -> Nat] BY <1>3
  <2> QED BY <2>1, CountsAre, SumIs
<1>8. Sum(Ceilings) + 4 <= 4 * Sum(TriesOf(plan))
  <2>1. CASE t = Guidance
    <3>1. Substitute \notin DOMAIN plan BY <2>1 DEF StatesShape
    <3>2. Compare \in DOMAIN plan /\ Guidance \in plan[Compare].deps
      BY <3>1, DepsAre DEF PlanShape, PlannedFirst
    <3>3. ~Prepared(Compare) BY <3>2 DEF Prepared, StatesShape
    <3>4. taskStates[Compare].attempt = 0 /\ ~Finished(Compare)
      BY <3>2, <3>3, NamesDiffer DEF StatesShape, Finished
    <3>5. Compare \in TaskSet /\ Ceilings[Compare] <= 0
      BY <3>2, <3>4, DepsAre, NamesDiffer DEF Ceilings, AnswersTo, StatesShape
    <3>6. Caps[Compare] = 6 BY <3>5, NamesDiffer DEF Caps
    <3>7. Sum(Ceilings) + 6 + 2 <= 4 * Sum(TriesOf(plan)) BY <1>2, <1>6, <3>5, <3>6
    <3> QED BY <1>7, <3>7
  <2>2. CASE t = Check
    <3>1. Ceilings[t] = 2 * taskStates[t].attempt /\ Caps[t] = 2 * Tries(plan, t)
      BY <1>1, <1>4, <2>2, NamesDiffer DEF Ceilings, Caps
    <3>2. Tries(plan, t) \in {1, 2} BY <1>4, DepsAre
    <3>3. Ceilings[t] + 2 <= Caps[t] BY <1>4, <3>1, <3>2
    <3>4. Sum(Ceilings) + 2 + 2 <= 4 * Sum(TriesOf(plan)) BY <1>1, <1>6, <3>3
    <3> QED BY <1>7, <3>4
  <2>3. CASE t \notin {Check, Guidance}
    <3>1. Ceilings[t] = taskStates[t].attempt BY <1>1, <1>4, <2>3 DEF Ceilings
    <3>2. (t = Primary => Tries(plan, t) = 2) /\ (t # Primary => Tries(plan, t) = 1)
      BY <1>4, <2>3 DEF PlanShape
    <3>3. Caps[t] >= 4
      BY <1>1, <2>3, <3>2, NamesDiffer DEF Caps
    <3>4. Caps \in [TaskSet -> Nat] BY CapsAre
    <3>5. t # Primary => Ceilings[t] + 2 <= Caps[t] BY <1>1, <1>4, <3>1, <3>2, <3>3, <3>4
    <3>6. t = Primary => Ceilings[t] + 2 <= Caps[t]
      <4>1. t = Primary => Caps[t] = 5 BY <1>1, NamesDiffer DEF Caps
      <4> QED BY <1>4, <3>1, <3>2, <4>1
    <3>7. Sum(Ceilings) + 2 + 2 <= 4 * Sum(TriesOf(plan)) BY <1>1, <1>6, <3>5, <3>6
    <3> QED BY <1>7, <3>7
  <2> QED BY <2>1, <2>2, <2>3
<1> QED BY <1>5, <1>8 DEF Estimate

(* --------------------------------- steps ------------------------------- *)

\* What the step of a task leaves to its own lemma.
LEMMA PlanStays ==
    ASSUME PlannerInvariant, UNCHANGED <<goal, plan>>, StatesShape', QueueShape', OutputsShape',
           BooksShape'
    PROVE  PlannerInvariant'
<1>1. (goal \in GoalContracts)' BY DEF PlannerInvariant
<1>2. PlanShape(plan)' BY DEF PlannerInvariant, PlanShape
<1>3. TriesOf(plan)' = TriesOf(plan) BY DEF TriesOf, Tries
<1>4. Funded(plan)' BY <1>3 DEF PlannerInvariant, Funded, Sum, Estimate
<1> QED BY <1>1, <1>2, <1>4 DEF PlannerInvariant

LEMMA CountsStay ==
    UNCHANGED <<plan, taskStates>> => UNCHANGED <<Ceilings, Attempts, Sum(Ceilings), Sum(Attempts)>>
BY DEF Ceilings, Attempts, AnswersTo, Finished, Sum

LEMMA BatchKeeps == ASSUME PlannerInvariant, StartBatch PROVE PlannerInvariant'
<1> USE DEF StartBatch, BetweenTasks
<1>1. StatesShape' BY StatesStay DEF PlannerInvariant
<1>2. OutputsShape' BY OutputsStay DEF PlannerInvariant, Finished
<1>3. QueueShape'
  <2>1. \A t : Finished(t)' <=> Finished(t) BY DEF Finished
  <2>2. \A t \in batch' : t \in DOMAIN plan /\ taskStates[t].status = "PENDING"
    BY DEF ReadyTasks, StatusIs
  <2>3. \A t \in batch' : Prepared(t)
    <3>1. DOMAIN taskStates = DOMAIN plan /\ \A t \in DOMAIN plan : plan[t].deps \subseteq DOMAIN plan
      BY DepsAre DEF PlannerInvariant, StatesShape
    <3> QED BY <3>1 DEF ReadyTasks, StatusIs, Prepared, Finished
  <2>4. \A t \in batch' : Prepared(t)' BY <2>1, <2>3 DEF Prepared
  <2> QED BY <2>1, <2>2, <2>4 DEF PlannerInvariant, QueueShape
<1>4. BooksShape'
  <2>1. UNCHANGED <<Sum(Ceilings), Sum(Attempts)>> BY CountsStay
  <2>2. rounds \in Nat /\ started \in Nat /\ rounds <= started BY DEF PlannerInvariant, BooksShape
  <2>3. rounds' <= started' + (IF running' = NoTask /\ batch' # {} THEN 1 ELSE 0) BY <2>2
  <2> QED BY <2>1, <2>2, <2>3 DEF PlannerInvariant, BooksShape
<1> QED BY <1>1, <1>2, <1>3, <1>4, PlanStays

LEMMA NothingReadyKeeps == ASSUME PlannerInvariant, NothingReady PROVE PlannerInvariant'
<1>1. PlanShape(plan) /\ StatesShape /\ QueueShape /\ OutputsShape /\ BooksShape
  BY DEF PlannerInvariant
<1>2. taskStates \in [DOMAIN plan -> [status : TaskStatuses, attempt : Nat]] BY <1>1 DEF StatesShape
<1>3. /\ taskStates' = [t \in DOMAIN taskStates |->
                          IF t \in BlockedTasks THEN [taskStates[t] EXCEPT !.status = "BLOCKED"]
                          ELSE taskStates[t]]
      /\ outcome' \in {"COMPLETED", "BLOCKED"}
      /\ UNCHANGED <<goal, plan, version, outputs, batch, running, started, spent, rounds>>
      /\ running = NoTask /\ batch = {} /\ outcome = "RUNNING"
  BY DEF NothingReady, BetweenTasks, Stop
<1>4. \A t \in BlockedTasks : t \in DOMAIN plan /\ taskStates[t].status = "PENDING"
  BY DEF BlockedTasks, StatusIs
<1>5. taskStates' \in [DOMAIN plan -> [status : TaskStatuses, attempt : Nat]]
  <2>1. \A t \in DOMAIN plan :
          [taskStates[t] EXCEPT !.status = "BLOCKED"] \in [status : TaskStatuses, attempt : Nat]
    BY <1>2 DEF TaskStatuses
  <2> QED BY <1>2, <1>3, <2>1
<1>6. ASSUME NEW t \in DOMAIN plan
      PROVE  /\ taskStates'[t].attempt = taskStates[t].attempt
             /\ \/ taskStates'[t].status = taskStates[t].status
                \/ taskStates[t].status = "PENDING" /\ taskStates'[t].status = "BLOCKED"
  <2>1. taskStates[t] \in [status : TaskStatuses, attempt : Nat] BY <1>2
  <2>2. CASE t \in BlockedTasks
    <3>1. taskStates'[t] = [taskStates[t] EXCEPT !.status = "BLOCKED"] BY <1>2, <1>3, <2>2
    <3> QED BY <1>4, <2>1, <2>2, <3>1
  <2>3. CASE t \notin BlockedTasks BY <1>2, <1>3, <2>3
  <2> QED BY <2>2, <2>3
<1>7. StatesShape' BY <1>1, <1>3, <1>5, <1>6, StatusesChange
<1>8. \A t : Finished(t)' <=> Finished(t) BY <1>2, <1>5, <1>6 DEF Finished
<1>9. OutputsShape' BY <1>1, <1>3, <1>8, OutputsStay
<1>10. QueueShape'
  <2>1. outcome' = "COMPLETED" => Finished(Report)
    <3>1. Report \in TaskSet BY DEF TaskSet, PlannedFirst
    <3>2. outcome' = "COMPLETED" => Report \in Produced
      BY DEF NothingReady, Stop, Completed, Report
    <3> QED BY <1>1, <3>1, <3>2 DEF OutputsShape
  <2> QED BY <1>1, <1>3, <1>8, <2>1 DEF QueueShape
<1>11. BooksShape'
  <2>1. \A t \in TaskSet : AnswersTo(t)' = AnswersTo(t) BY <1>2, <1>5, <1>6 DEF AnswersTo
  <2>2. Ceilings' = Ceilings BY <1>8, <2>1 DEF Ceilings
  <2>3. Attempts' = Attempts BY <1>2, <1>5, <1>6 DEF Attempts
  <2>4. UNCHANGED <<Sum(Ceilings), Sum(Attempts)>> BY <2>2, <2>3 DEF Sum
  <2> QED BY <1>1, <1>3, <2>4 DEF BooksShape
<1> QED BY <1>3, <1>7, <1>9, <1>10, <1>11, PlanStays

\* Nothing but its own attempts keeps a task from being tried.
LEMMA NeverOverBudget ==
    ASSUME PlannerInvariant, NEW t \in DOMAIN plan, taskStates[t].status = "PENDING"
    PROVE  /\ OverBudget(t) => taskStates[t].attempt = plan[t].tries
           /\ ~OverBudget(t) => taskStates[t].attempt < plan[t].tries /\ started < goal.attempts
<1>1. /\ taskStates[t].attempt \in Nat /\ plan[t].tries \in {1, 2}
      /\ taskStates[t].attempt <= plan[t].tries /\ plan[t].tries <= goal.perTask
  BY DepsAre DEF PlannerInvariant, StatesShape, Funded
<1>2. goal.attempts \in Nat /\ goal.perTask \in Nat /\ goal.cost \in Nat
  BY PlannerAssumption DEF PlannerInvariant
<1>3. Sum(TriesOf(plan)) \in Nat /\ Sum(Ceilings) \in Nat /\ Sum(Attempts) \in Nat
  <2>1. TriesOf(plan) \in [TaskSet -> Nat] BY PlannedAre DEF PlannerInvariant
  <2> QED BY <2>1, CountsAre, SumIs DEF PlannerInvariant
<1>4. /\ spent \in Nat /\ started \in Nat /\ spent <= Sum(Ceilings) /\ started <= Sum(Attempts)
      /\ Sum(TriesOf(plan)) <= goal.attempts /\ 4 * Sum(TriesOf(plan)) <= goal.cost
  BY DEF PlannerInvariant, BooksShape, Funded, Estimate
<1>5. ASSUME taskStates[t].attempt < plan[t].tries PROVE ~OverBudget(t)
  <2>1. /\ Sum(Ceilings) + 4 <= 4 * Sum(TriesOf(plan)) /\ Sum(Attempts) < Sum(TriesOf(plan))
    BY <1>5, RoomIsLeft DEF PlannerInvariant, Estimate
  <2>2. started < goal.attempts /\ spent + 4 <= goal.cost BY <1>2, <1>3, <1>4, <2>1
  <2>3. taskStates[t].attempt < goal.perTask BY <1>1, <1>2, <1>5
  <2> QED BY <1>2, <1>4, <1>5, <2>2, <2>3 DEF OverBudget, MayTry, Estimate
<1> QED BY <1>1, <1>2, <1>4, <1>5 DEF OverBudget, MayTry

LEMMA HeadIs ==
    ASSUME PlannerInvariant, outcome = "RUNNING", batch # {}
    PROVE  /\ FirstByName(batch) \in batch /\ FirstByName(batch) \in DOMAIN plan
           /\ taskStates[FirstByName(batch)].status = "PENDING" /\ Prepared(FirstByName(batch))
<1>1. batch \subseteq DOMAIN plan /\ \A t \in batch : taskStates[t].status = "PENDING" /\ Prepared(t)
  BY DEF PlannerInvariant, QueueShape
<1>2. batch \subseteq TaskSet BY <1>1, DepsAre DEF PlannerInvariant
<1>3. FirstByName(batch) \in batch BY <1>2, FirstIsIn
<1> QED BY <1>1, <1>3

LEMMA RefuseKeeps == ASSUME PlannerInvariant, RefuseTask PROVE PlannerInvariant'
<1>1. PlanShape(plan) /\ StatesShape /\ QueueShape /\ OutputsShape /\ BooksShape
  BY DEF PlannerInvariant
<1>2. PICK t : t = FirstByName(batch) OBVIOUS
<1>3. PICK s \in {"READY", "BLOCKED"} :
        /\ taskStates' = [taskStates EXCEPT ![t].status = s]
        /\ outcome' \in {"BUDGET_EXHAUSTED", "ESCALATED"}
        /\ outcome' = "BUDGET_EXHAUSTED" => s = "READY" /\ OverBudget(t)
  BY <1>2 DEF RefuseTask, Stop
<1>4. /\ UNCHANGED <<goal, plan, version, outputs, batch, running, started, spent, rounds>>
      /\ running = NoTask /\ outcome = "RUNNING"
  BY DEF RefuseTask, BetweenTasks
<1>5. t \in DOMAIN plan /\ taskStates[t].status = "PENDING"
  BY <1>2, HeadIs DEF RefuseTask, BetweenTasks
<1>6. /\ StatesShape' /\ DOMAIN taskStates' = DOMAIN plan
      /\ taskStates'[t].status = s /\ taskStates'[t].attempt = taskStates[t].attempt
      /\ \A n \in DOMAIN plan \ {t} : taskStates'[n] = taskStates[n]
      /\ \A n : Finished(n)' <=> Finished(n)
  BY <1>1, <1>3, <1>4, <1>5, OneStatus DEF TaskStatuses
<1>7. OutputsShape' BY <1>1, <1>4, <1>6, OutputsStay
<1>8. QueueShape' BY <1>1, <1>3, <1>4, <1>6 DEF QueueShape
<1>9. BooksShape'
  <2>1. DOMAIN taskStates = DOMAIN plan BY <1>1 DEF StatesShape
  <2>2. \A n \in TaskSet : AnswersTo(n)' = AnswersTo(n) BY <1>5, <1>6, <2>1 DEF AnswersTo
  <2>3. Ceilings' = Ceilings BY <1>6, <2>2 DEF Ceilings
  <2>4. Attempts' = Attempts BY <1>5, <1>6, <2>1 DEF Attempts
  <2>5. UNCHANGED <<Sum(Ceilings), Sum(Attempts)>> BY <2>3, <2>4 DEF Sum
  <2>6. outcome' = "BUDGET_EXHAUSTED" =>
          t \in DOMAIN plan' /\ StatusIs(t, {"READY"})' /\ taskStates'[t].attempt = plan'[t].tries
    BY <1>3, <1>4, <1>5, <1>6, NeverOverBudget DEF StatusIs
  <2> QED BY <1>1, <1>4, <2>5, <2>6 DEF BooksShape
<1> QED BY <1>4, <1>6, <1>7, <1>8, <1>9, PlanStays

LEMMA StartKeeps == ASSUME PlannerInvariant, StartTask PROVE PlannerInvariant'
<1>1. PlanShape(plan) /\ StatesShape /\ QueueShape /\ OutputsShape /\ BooksShape
  BY DEF PlannerInvariant
<1>2. PICK t : t = FirstByName(batch) OBVIOUS
<1>3. /\ ~OverBudget(t) /\ running' = t /\ batch' = batch \ {t} /\ started' = started + 1
      /\ taskStates' = [taskStates EXCEPT ![t].status = "RUNNING", ![t].attempt = @ + 1]
      /\ UNCHANGED <<goal, plan, version, outputs, spent, rounds, outcome>>
      /\ running = NoTask /\ outcome = "RUNNING" /\ batch # {}
  BY <1>2 DEF StartTask, BetweenTasks
<1>4. t \in batch /\ t \in DOMAIN plan /\ taskStates[t].status = "PENDING" /\ Prepared(t)
  BY <1>2, <1>3, HeadIs
<1>5. taskStates \in [DOMAIN plan -> [status : TaskStatuses, attempt : Nat]] BY <1>1 DEF StatesShape
<1>6. /\ taskStates' \in [DOMAIN plan -> [status : TaskStatuses, attempt : Nat]]
      /\ taskStates'[t].status = "RUNNING" /\ taskStates'[t].attempt = taskStates[t].attempt + 1
      /\ \A n \in DOMAIN plan \ {t} : taskStates'[n] = taskStates[n]
  <2>1. PICK n : n = taskStates[t].attempt + 1 OBVIOUS
  <2>2. taskStates[t] \in [status : TaskStatuses, attempt : Nat] BY <1>4, <1>5
  <2>3. n \in Nat BY <2>1, <2>2
  <2>4. PICK x : x = [taskStates[t] EXCEPT !.status = "RUNNING", !.attempt = n] OBVIOUS
  <2>5. x \in [status : TaskStatuses, attempt : Nat] /\ x.status = "RUNNING" /\ x.attempt = n
    BY <2>2, <2>3, <2>4 DEF TaskStatuses
  <2>6. taskStates' = [taskStates EXCEPT ![t].status = "RUNNING", ![t].attempt = n]
    BY <1>3, <1>4, <1>5, <2>1
  <2>7. taskStates' = [taskStates EXCEPT ![t] = x] BY <1>4, <1>5, <2>4, <2>6
  <2> QED BY <1>4, <1>5, <2>1, <2>5, <2>7
<1>7. \A n : Finished(n)' <=> Finished(n) BY <1>4, <1>5, <1>6 DEF Finished
<1>8. \A n : Prepared(n)' <=> Prepared(n) BY <1>3, <1>7 DEF Prepared
<1>9. taskStates[t].attempt < plan[t].tries /\ started < goal.attempts
  BY <1>3, <1>4, NeverOverBudget
<1>10. plan[t].tries \in {1, 2} /\ taskStates[t].attempt \in Nat BY <1>1, <1>4, <1>5, DepsAre
<1>11. StatesShape'
  <2>1. ASSUME NEW n \in DOMAIN plan
        PROVE  /\ taskStates'[n].attempt <= plan[n].tries
               /\ taskStates'[n].status \in {"RUNNING", "SUCCEEDED"} =>
                     taskStates'[n].attempt >= 1 /\ Prepared(n)
               /\ taskStates'[n].attempt >= 1 /\ n # Check => Prepared(n)
    BY <1>1, <1>4, <1>6, <1>9, <1>10, <2>1 DEF StatesShape
  <2>2. taskStates'[Check].attempt >= 1 => Finished(Compare)
    <3>1. CASE t # Check
      <4>1. Check \in DOMAIN plan BY <1>1, DepsAre DEF PlannedFirst
      <4> QED BY <1>1, <1>6, <3>1, <4>1 DEF StatesShape
    <3>2. CASE t = Check
      <4>1. \/ Compare \in plan[Check].deps
            \/ Reconciliation \in plan[Check].deps /\ Reconciliation \in DOMAIN plan
        BY <1>1, CheckpointDeps
      <4> QED BY <1>1, <1>4, <3>2, <4>1 DEF Prepared, StatesShape
    <3> QED BY <3>1, <3>2
  <2>3. Substitute \in DOMAIN plan => taskStates'[Guidance].status = "FAILED"
    <3>1. Guidance \in DOMAIN plan BY <1>1, DepsAre DEF PlannedFirst
    <3> QED BY <1>1, <1>4, <1>6, <3>1 DEF StatesShape
  <2> QED BY <1>1, <1>3, <1>6, <1>7, <1>8, <2>1, <2>2, <2>3 DEF StatesShape
<1>12. OutputsShape' BY <1>1, <1>3, <1>7, OutputsStay
<1>13. QueueShape'
  <2>1. ~Finished(t) BY <1>4 DEF Finished
  <2>2. \A n \in batch' : taskStates'[n] = taskStates[n] /\ n \in DOMAIN plan
    BY <1>1, <1>3, <1>6 DEF QueueShape
  <2> QED BY <1>1, <1>3, <1>4, <1>6, <1>7, <1>8, <2>1, <2>2 DEF QueueShape
<1>14. BooksShape'
  <2>1. \A n \in TaskSet : AnswersTo(n)' = AnswersTo(n) BY <1>4, <1>5, <1>6, <1>10 DEF AnswersTo
  <2>2. Ceilings' = Ceilings BY <1>7, <2>1 DEF Ceilings
  <2>3. t \in TaskSet BY <1>1, <1>4, DepsAre
  <2>4. Attempts' \in [TaskSet -> Nat] BY <1>6 DEF Attempts
  <2>5. Attempts \in [TaskSet -> Nat] /\ Sum(Attempts) \in Nat BY <1>1, CountsAre
  <2>6. Attempts'[t] = Attempts[t] + 1 BY <1>4, <1>5, <1>6, <2>3 DEF Attempts
  <2>7. \A n \in TaskSet \ {t} : Attempts'[n] = Attempts[n] BY <1>5, <1>6 DEF Attempts
  <2>8. Sum(Attempts') = Sum(Attempts) - Attempts[t] + Attempts'[t]
    BY <2>3, <2>4, <2>5, <2>7, SumOfOthers
  <2>9. Sum(Attempts') = Sum(Attempts) + 1 BY <2>3, <2>5, <2>6, <2>8
  <2>10. Sum(Attempts)' = Sum(Attempts') /\ Sum(Ceilings)' = Sum(Ceilings) BY <2>2 DEF Sum
  <2>11. goal.attempts \in Nat BY PlannerAssumption DEF PlannerInvariant
  <2>12. running' # NoTask BY <1>1, <1>3, <1>4, DepsAre
  <2>13. /\ spent' \in Nat /\ started' \in Nat /\ rounds' \in Nat /\ spent' <= Sum(Ceilings)'
         /\ started' <= Sum(Attempts)' /\ started' <= goal'.attempts /\ rounds' <= started'
    BY <1>1, <1>3, <1>9, <2>5, <2>9, <2>10, <2>11 DEF BooksShape
  <2> QED BY <1>3, <2>12, <2>13 DEF BooksShape
<1> QED BY <1>3, <1>11, <1>12, <1>13, <1>14, PlanStays

\* What an answer costs is within what the task may have cost by then.
LEMMA AnswerPaid ==
    ASSUME PlannerInvariant, running \in DOMAIN plan, taskStates[running].status = "RUNNING",
           DOMAIN plan \subseteq DOMAIN taskStates', DOMAIN taskStates' \subseteq TaskSet,
           taskStates'[running].attempt = taskStates[running].attempt,
           taskStates'[running].status # "RUNNING",
           taskStates'[running].status = "SUCCEEDED" <=> Answer \in {"OK", "PASS"},
           \A n \in DOMAIN plan \ {running} : taskStates'[n] = taskStates[n],
           \A n \in DOMAIN taskStates' \ DOMAIN plan :
              taskStates'[n].status = "PENDING" /\ taskStates'[n].attempt = 0
    PROVE  /\ Sum(Ceilings)' \in Nat /\ Sum(Ceilings) + Cost(running, Answer) <= Sum(Ceilings)'
           /\ Sum(Attempts)' = Sum(Attempts)
<1>1. PlanShape(plan) /\ StatesShape BY DEF PlannerInvariant
<1>2. /\ DOMAIN taskStates = DOMAIN plan /\ running \in TaskSet /\ running # NoTask
      /\ taskStates[running].attempt \in Nat /\ taskStates[running].attempt >= 1
      /\ ~Finished(running)
  BY <1>1, DepsAre DEF StatesShape, Finished
<1>3. PICK t, c : t = running /\ c = Cost(running, Answer) OBVIOUS
<1>4. AnswersTo(t) = taskStates[t].attempt - 1 /\ AnswersTo(t)' = taskStates[t].attempt
  BY <1>2, <1>3 DEF AnswersTo
<1>4a. Finished(t)' <=> Answer \in {"OK", "PASS"}
  <2>1. t \in DOMAIN taskStates' BY <1>3
  <2> QED BY <1>3, <2>1 DEF Finished
<1>5. \A n \in TaskSet \ {t} : AnswersTo(n)' = AnswersTo(n) /\ (Finished(n)' <=> Finished(n))
  BY <1>2, <1>3 DEF AnswersTo, Finished
<1>6. Ceilings \in [TaskSet -> Nat] /\ Sum(Ceilings) \in Nat
      /\ \A n \in TaskSet : AnswersTo(n) \in Nat
  BY <1>1, CountsAre
<1>7. \A n \in TaskSet \ {t} : Ceilings'[n] = Ceilings[n] BY <1>5 DEF Ceilings
<1>8. c \in Nat BY <1>2, <1>3, CostsAre
<1>9. Ceilings'[t] \in Nat /\ Ceilings[t] + c <= Ceilings'[t]
  <2>1. CASE t = Check
    <3>1. Ceilings[t] = 2 * AnswersTo(t) /\ Ceilings'[t] = 2 * AnswersTo(t)' /\ c <= 2
      BY <1>2, <1>3, <2>1, CostsAre DEF Ceilings
    <3> QED BY <1>2, <1>3, <1>4, <1>8, <3>1
  <2>2. CASE t # Check /\ Answer \in {"OK", "PASS"}
    <3>1. Answer = "OK" BY <1>2, <1>3, <2>2, AnswersAre
    <3>2. c = Price(t) BY <1>2, <1>3, <3>1, CostsAre
    <3>3. Finished(t)' /\ ~Finished(t) BY <1>4a, <1>2, <1>3, <2>2
    <3>4. Ceilings[t] = AnswersTo(t) /\ Ceilings'[t] = AnswersTo(t)' - 1 + Price(t)
      BY <1>2, <1>3, <2>2, <3>3 DEF Ceilings
    <3> QED BY <1>2, <1>3, <1>4, <1>8, <3>2, <3>4
  <2>3. CASE t # Check /\ Answer \notin {"OK", "PASS"}
    <3>1. Answer \in Transient \cup {"SOURCE_UNAVAILABLE"}
      BY <1>2, <1>3, <2>3, AnswersAre DEF Replanning
    <3>2. c = 1 BY <1>2, <1>3, <3>1, CostsAre
    <3>3. Ceilings[t] = AnswersTo(t) /\ Ceilings'[t] = AnswersTo(t)'
      BY <1>4a, <1>2, <1>3, <2>3 DEF Ceilings
    <3> QED BY <1>2, <1>3, <1>4, <3>2, <3>3
  <2> QED BY <2>1, <2>2, <2>3
<1>10. Ceilings' \in [TaskSet -> Nat]
  <2>1. \A n \in TaskSet : Ceilings'[n] \in Nat BY <1>6, <1>7, <1>9
  <2>2. Ceilings' = [n \in TaskSet |-> Ceilings'[n]] BY DEF Ceilings
  <2> QED BY <2>1, <2>2
<1>11. Sum(Ceilings') = Sum(Ceilings) - Ceilings[t] + Ceilings'[t]
  BY <1>2, <1>3, <1>6, <1>7, <1>10, SumOfOthers
<1>12. Sum(Ceilings') \in Nat /\ Sum(Ceilings) + c <= Sum(Ceilings')
  <2>1. Sum(Ceilings') \in Nat BY <1>10, SumIs
  <2> QED BY <1>2, <1>3, <1>6, <1>8, <1>9, <1>11, <2>1
<1>13. Attempts' = Attempts
  <2>1. \A n \in TaskSet : (IF n \in DOMAIN taskStates' THEN taskStates'[n].attempt ELSE 0)
                             = IF n \in DOMAIN taskStates THEN taskStates[n].attempt ELSE 0
    BY <1>2
  <2> QED BY <2>1 DEF Attempts
<1>14. Sum(Ceilings)' = Sum(Ceilings') /\ Sum(Attempts)' = Sum(Attempts) BY <1>13 DEF Sum
<1> QED BY <1>3, <1>12, <1>14

LEMMA RunningIs ==
    ASSUME PlannerInvariant, Answering
    PROVE  /\ running \in DOMAIN plan /\ running \in TaskSet /\ running # NoTask
           /\ taskStates[running].status = "RUNNING" /\ taskStates[running].attempt >= 1
           /\ Prepared(running) /\ ~Finished(running) /\ outcome = "RUNNING" /\ rounds <= started
<1>1. running # NoTask /\ outcome = "RUNNING" BY DEF Answering
<1>2. running \in DOMAIN plan /\ taskStates[running].status = "RUNNING" /\ ~Finished(running)
  BY <1>1 DEF PlannerInvariant, QueueShape
<1>3. rounds <= started BY <1>1 DEF PlannerInvariant, BooksShape
<1> QED BY <1>1, <1>2, <1>3, DepsAre DEF PlannerInvariant, StatesShape

\* The task of an answer, where the plan stays.
LEMMA AnswerKeeps ==
    ASSUME PlannerInvariant, Answering, Paid, NEW s \in {"SUCCEEDED", "PENDING", "FAILED"},
           s = "SUCCEEDED" <=> Answer \in {"OK", "PASS"},
           taskStates' = [taskStates EXCEPT ![running].status = s],
           UNCHANGED <<goal, plan, batch, started, rounds>>,
           \/ running' = NoTask /\ outcome' = outcome
           \/ s = "FAILED" /\ running' = running /\ outcome' = "ESCALATED",
           OutputsShape'
    PROVE  PlannerInvariant'
<1>1. PlanShape(plan) /\ StatesShape /\ QueueShape /\ BooksShape BY DEF PlannerInvariant
<1>2. /\ running \in DOMAIN plan /\ running \in TaskSet /\ running # NoTask
      /\ taskStates[running].status = "RUNNING" /\ ~Finished(running) /\ outcome = "RUNNING"
      /\ rounds <= started
  BY RunningIs
<1>3. s = "SUCCEEDED" => running # Guidance
  BY <1>2, AnswersAre, NamesDiffer
<1>4. /\ StatesShape' /\ DOMAIN taskStates' = DOMAIN plan
      /\ taskStates'[running].status = s
      /\ taskStates'[running].attempt = taskStates[running].attempt
      /\ \A n \in DOMAIN plan \ {running} : taskStates'[n] = taskStates[n]
      /\ \A n : Finished(n) => Finished(n)'
      /\ \A n : Finished(n)' <=> Finished(n) \/ (n = running /\ s = "SUCCEEDED")
  BY <1>1, <1>2, <1>3, OneStatus DEF TaskStatuses
<1>5. QueueShape'
  <2>1. ~Finished(NoTask)' BY <1>1, <1>4, DepsAre DEF Finished
  <2>2. (~Finished(running))'
    <3>1. CASE running' = NoTask BY <2>1, <3>1 DEF Finished
    <3>2. CASE running' = running /\ s = "FAILED" BY <1>4, <3>2 DEF Finished
    <3> QED BY <3>1, <3>2
  <2>3. ASSUME outcome' = "RUNNING"
        PROVE  /\ batch' \subseteq DOMAIN plan'
               /\ \A n \in batch' : taskStates'[n].status = "PENDING" /\ Prepared(n)'
               /\ running' = NoTask
    <3>1. \A n \in batch : n \in DOMAIN plan /\ n # running /\ Prepared(n)
                           /\ taskStates[n].status = "PENDING"
      BY <1>1, <1>2 DEF QueueShape
    <3>2. \A n : Prepared(n) => Prepared(n)' BY <1>4 DEF Prepared
    <3> QED BY <1>4, <2>3, <3>1, <3>2
  <2>4. running' \in DOMAIN plan' \cup {NoTask} BY <1>2
  <2>5. outcome' \in {"RUNNING", "ESCALATED"} BY <1>2
  <2> QED BY <2>2, <2>3, <2>4, <2>5 DEF QueueShape
<1>6. BooksShape'
  <2>1. /\ Sum(Ceilings)' \in Nat /\ Sum(Ceilings) + Cost(running, Answer) <= Sum(Ceilings)'
        /\ Sum(Attempts)' = Sum(Attempts)
    BY <1>1, <1>2, <1>4, AnswerPaid, DepsAre
  <2>2. spent' = spent + Cost(running, Answer) BY DEF Paid
  <2>3. Cost(running, Answer) \in Nat BY <1>2, CostsAre
  <2>4. Sum(Ceilings) \in Nat BY <1>1, CountsAre
  <2>5. /\ spent \in Nat /\ started \in Nat /\ rounds \in Nat
        /\ spent <= Sum(Ceilings) /\ started <= Sum(Attempts) /\ started <= goal.attempts
    BY <1>1 DEF BooksShape
  <2>6. spent' \in Nat /\ spent' <= Sum(Ceilings)' BY <2>1, <2>2, <2>3, <2>4, <2>5
  <2>7. rounds' <= started' /\ outcome' # "BUDGET_EXHAUSTED" BY <1>2, <2>5
  <2>8. rounds' <= started' + (IF running' = NoTask /\ batch' # {} THEN 1 ELSE 0)
    BY <2>5, <2>7
  <2> QED BY <2>1, <2>5, <2>6, <2>7, <2>8 DEF BooksShape
<1> QED BY <1>4, <1>5, <1>6, PlanStays

LEMMA FailureKeeps == ASSUME PlannerInvariant, RetryTask \/ GiveUp \/ CannotReplan PROVE PlannerInvariant'
<1>1. Answering /\ Paid /\ UNCHANGED <<goal, plan, version, outputs, batch, started, rounds>>
  BY DEF RetryTask, GiveUp, CannotReplan
<1>2. Answer \notin {"OK", "PASS"}
  BY DEF RetryTask, GiveUp, CannotReplan, Transient, Replanning
<1>3. PICK s \in {"PENDING", "FAILED"} :
        /\ taskStates' = [taskStates EXCEPT ![running].status = s]
        /\ \/ running' = NoTask /\ outcome' = outcome
           \/ s = "FAILED" /\ running' = running /\ outcome' = "ESCALATED"
  BY DEF RetryTask, GiveUp, CannotReplan, FailedStates, Stop
<1>4. \A t : Finished(t)' <=> Finished(t)
  <2>1. /\ running \in DOMAIN plan /\ taskStates[running].status = "RUNNING"
        /\ PlanShape(plan) /\ StatesShape
    BY <1>1, RunningIs DEF PlannerInvariant
  <2> QED BY <1>1, <1>3, <2>1, OneStatus DEF TaskStatuses
<1>5. OutputsShape' BY <1>1, <1>4, OutputsStay DEF PlannerInvariant
<1> QED BY <1>1, <1>2, <1>3, <1>5, AnswerKeeps

(* -------------------------------- results ------------------------------ *)

\* The artifact of a task is the only one of its name.
LEMMA OutputIs ==
    ASSUME OutputsShape, NEW t \in TaskSet, Finished(t)
    PROVE  \E i \in DOMAIN outputs : outputs[i].task = t /\ OutputOf(t) = outputs[i]
<1>1. PICK i \in DOMAIN outputs : outputs[i].task = t BY DEF OutputsShape, Produced
<1>2. PICK j : j = CHOOSE n \in DOMAIN outputs : outputs[n].task = t OBVIOUS
<1>3. j \in DOMAIN outputs /\ outputs[j].task = t BY <1>1, <1>2
<1> QED BY <1>2, <1>3 DEF OutputOf

\* When the checkpoint has passed nothing is left to do but the report.
LEMMA OnlyTheReport ==
    ASSUME PlanShape(plan), StatesShape, Finished(Check), NEW t \in DOMAIN plan, ~Finished(t),
           taskStates[t].status # "FAILED"
    PROVE  t = Report
<1>1. PlannedFirst \subseteq DOMAIN plan /\ DOMAIN plan \subseteq TaskSet BY DepsAre
<1>2. taskStates[Check].status = "SUCCEEDED" BY DEF Finished
<1>3. Prepared(Check) /\ taskStates[Check].attempt >= 1 /\ Finished(Compare)
  BY <1>1, <1>2 DEF StatesShape, PlannedFirst
<1>4. taskStates[Compare].status = "SUCCEEDED" BY <1>3 DEF Finished
<1>5. Prepared(Compare) BY <1>1, <1>4 DEF StatesShape, PlannedFirst
<1>6. Finished(Primary) /\ Finished(Foundation) /\ Substitute \in DOMAIN plan /\ Finished(Substitute)
  <2>1. Primary \in plan[Compare].deps /\ Foundation \in plan[Compare].deps
        /\ (Substitute \in DOMAIN plan => Substitute \in plan[Compare].deps)
        /\ (Substitute \notin DOMAIN plan => Guidance \in plan[Compare].deps)
    BY DEF PlanShape
  <2> QED BY <1>5, <2>1 DEF Prepared, StatesShape
<1>7. t # Guidance BY <1>6 DEF StatesShape
<1>8. \A n \in {Reconciliation, Supplement} \cap DOMAIN plan : Finished(n)
  BY <1>3 DEF StatesShape, Prepared
<1> QED BY <1>1, <1>3, <1>6, <1>7, <1>8 DEF TaskSet, PlannedFirst

LEMMA ArtifactIs ==
    ASSUME PlannerInvariant, Answering, Answer \in {"OK", "PASS"}, NEW a, a = ArtifactOf(running)
    PROVE  /\ a \in Artifacts /\ a.task = running /\ a.version = version
           /\ a.mark = "CONFLICT" => running = Compare
           /\ a.mark = "RESOLVED" <=> running = Reconciliation
           /\ running = Check => a.docs /\ Answer = "PASS"
<1>1. running \in TaskSet /\ version \in Nat BY RunningIs DEF PlannerInvariant, OutputsShape
<1>2. PICK t : t = running OBVIOUS
<1>3. PICK m \in {"PLAIN", "CONFLICT", "RESOLVED"}, d \in BOOLEAN :
        /\ a = Artifact(t, m, d) /\ (m = "CONFLICT" => t = Compare)
        /\ m = "RESOLVED" <=> t = Reconciliation
        /\ t = Check => d = AnyDocs
  <2>1. CASE t = Substitute
    <3>1. a = Artifact(t, "PLAIN", ~fixture.missing)
      BY <1>2, <2>1 DEF ArtifactOf, Substitute, Supplement, Compare, Reconciliation, Check, Report
    <3> QED BY <2>1, <3>1, NamesDiffer
  <2>2. CASE t = Supplement
    <3>1. a = Artifact(t, "PLAIN", TRUE) BY <1>2, <2>2 DEF ArtifactOf, Substitute, Supplement, Compare, Reconciliation, Check, Report
    <3> QED BY <2>2, <3>1, NamesDiffer
  <2>3. CASE t = Compare
    <3>1. a = Artifact(t, IF fixture.conflict THEN "CONFLICT" ELSE "PLAIN", InputDocs(t))
      BY <1>2, <2>3 DEF ArtifactOf, Substitute, Supplement, Compare, Reconciliation, Check, Report
    <3>2. InputDocs(t) \in BOOLEAN BY DEF InputDocs
    <3> QED BY <2>3, <3>1, <3>2, NamesDiffer
  <2>4. CASE t = Reconciliation
    <3>1. a = Artifact(t, "RESOLVED", InputDocs(t))
      BY <1>2, <2>4 DEF ArtifactOf, Substitute, Supplement, Compare, Reconciliation, Check, Report
    <3>2. InputDocs(t) \in BOOLEAN BY DEF InputDocs
    <3> QED BY <2>4, <3>1, <3>2, NamesDiffer
  <2>5. CASE t \in {Check, Report}
    <3>1. a = Artifact(t, "PLAIN", AnyDocs)
      BY <1>2, <2>5 DEF ArtifactOf, Report, Check, Reconciliation
    <3>2. AnyDocs \in BOOLEAN BY DEF AnyDocs
    <3> QED BY <2>5, <3>1, <3>2, NamesDiffer
  <2>6. CASE t \in {Primary, Foundation, Guidance}
    <3>1. a = Artifact(t, "PLAIN", FALSE)
      BY <1>2, <2>6 DEF ArtifactOf, Primary, Foundation, Guidance, Check, Reconciliation
    <3> QED BY <2>6, <3>1, NamesDiffer
  <2> QED BY <1>1, <1>2, <2>1, <2>2, <2>3, <2>4, <2>5, <2>6 DEF TaskSet, PlannedFirst
<1>4. a = [task |-> t, version |-> version, mark |-> m, docs |-> d] BY <1>3 DEF Artifact
<1>5. a \in Artifacts BY <1>1, <1>2, <1>4 DEF Artifacts
<1>6. running = Check => Answer = "PASS" /\ Answer = CheckpointStatus BY <1>1, AnswersAre
<1>7. CheckpointStatus = "PASS" => AnyDocs BY DEF CheckpointStatus
<1> QED BY <1>2, <1>3, <1>4, <1>5, <1>6, <1>7

\* The checkpoint does not pass while a conflict is open.
LEMMA ConflictIsSeen ==
    ASSUME PlannerInvariant, Answering, running = Check, Answer = "PASS", NEW j \in DOMAIN outputs,
           outputs[j].mark = "CONFLICT"
    PROVE  Reconciliation \in plan[Check].deps
<1>1. PlanShape(plan) /\ StatesShape /\ OutputsShape BY DEF PlannerInvariant
<1>2. Prepared(Check) /\ Check \in DOMAIN plan BY RunningIs
<1>3. outputs[j].task = Compare BY <1>1 DEF OutputsShape
<1>4. SUFFICES ASSUME Reconciliation \notin plan[Check].deps PROVE FALSE OBVIOUS
<1>5. Compare \in plan[Check].deps /\ plan[Check].deps \subseteq {Compare, Supplement}
  <2>1. CASE plan[Check].deps = {Compare} BY <2>1
  <2>2. CASE plan[Check].deps = {Compare, Supplement} BY <2>2
  <2>3. CASE plan[Check].deps = {Reconciliation} BY <1>4, <2>3
  <2> QED BY <1>1, <2>1, <2>2, <2>3 DEF PlanShape
<1>6. \A d \in plan[Check].deps : Finished(d) /\ d \in TaskSet
  BY <1>1, <1>2, DepsAre DEF Prepared
<1>7. OutputOf(Compare).mark = "CONFLICT"
  <2>1. PICK i \in DOMAIN outputs : outputs[i].task = Compare /\ OutputOf(Compare) = outputs[i]
    BY <1>1, <1>5, <1>6, OutputIs
  <2>2. i = j BY <1>1, <1>3, <2>1 DEF OutputsShape
  <2> QED BY <2>1, <2>2
<1>8. \A d \in plan[Check].deps : OutputOf(d).mark # "RESOLVED"
  <2> SUFFICES ASSUME NEW d \in plan[Check].deps, OutputOf(d).mark = "RESOLVED" PROVE FALSE OBVIOUS
  <2>1. PICK i \in DOMAIN outputs : outputs[i].task = d /\ OutputOf(d) = outputs[i]
    BY <1>1, <1>6, OutputIs
  <2>2. d = Reconciliation BY <1>1, <2>1 DEF OutputsShape
  <2> QED BY <1>5, <2>2, NamesDiffer
<1>9. Marked("CONFLICT") /\ ~Marked("RESOLVED") BY <1>5, <1>7, <1>8 DEF Marked
<1>10. CheckpointStatus = "CONFLICT" BY <1>9 DEF CheckpointStatus
<1>11. Answer = CheckpointStatus BY AnswersAre, RunningIs
<1> QED BY <1>10, <1>11

LEMMA SuccessKeeps == ASSUME PlannerInvariant, Succeed PROVE PlannerInvariant'
<1>1. PlanShape(plan) /\ StatesShape /\ OutputsShape BY DEF PlannerInvariant
<1>2. /\ Answering /\ Paid /\ Answer \in {"OK", "PASS"} /\ running' = NoTask
      /\ taskStates' = [taskStates EXCEPT ![running].status = "SUCCEEDED"]
      /\ outputs' = Append(outputs, ArtifactOf(running))
      /\ UNCHANGED <<goal, plan, version, batch, started, rounds, outcome>>
  BY DEF Succeed
<1>3. PICK t, a : t = running /\ a = ArtifactOf(running) OBVIOUS
<1>4. /\ t \in DOMAIN plan /\ t \in TaskSet /\ taskStates[t].status = "RUNNING"
      /\ Prepared(t) /\ ~Finished(t)
  BY <1>2, <1>3, RunningIs
<1>5. /\ a \in Artifacts /\ a.task = t /\ a.version = version
      /\ a.mark = "CONFLICT" => t = Compare
      /\ a.mark = "RESOLVED" <=> t = Reconciliation
      /\ t = Check => a.docs /\ Answer = "PASS"
  BY <1>2, <1>3, ArtifactIs
<1>6. \A n : Finished(n)' <=> Finished(n) \/ n = t
  <2>1. t # Guidance BY <1>2, <1>3, <1>4, AnswersAre, NamesDiffer
  <2> QED BY <1>1, <1>2, <1>3, <1>4, <2>1, OneStatus DEF TaskStatuses
<1>7. /\ outputs \in Seq(Artifacts) /\ Len(outputs) \in Nat /\ DOMAIN outputs = 1 .. Len(outputs)
      /\ outputs' \in Seq(Artifacts) /\ Len(outputs') = Len(outputs) + 1
      /\ DOMAIN outputs' = 1 .. Len(outputs) + 1
      /\ outputs'[Len(outputs) + 1] = a
      /\ \A i \in 1 .. Len(outputs) : outputs'[i] = outputs[i]
  BY <1>1, <1>2, <1>3, <1>5 DEF OutputsShape
<1>8. PICK last : last = Len(outputs) + 1 OBVIOUS
<1>9. last \in Nat /\ last >= 1 /\ DOMAIN outputs' = DOMAIN outputs \cup {last} /\ last \notin DOMAIN outputs
      /\ outputs'[last] = a /\ Len(outputs') = last
      /\ \A i \in DOMAIN outputs : outputs'[i] = outputs[i] /\ i \in Nat /\ i >= 1 /\ i <= last - 1
  BY <1>7, <1>8
<1>10. \A n \in TaskSet : n \in Produced' <=> Finished(n)'
  <2>1. Produced' = Produced \cup {t} BY <1>5, <1>9 DEF Produced
  <2> QED BY <1>1, <1>6, <2>1 DEF OutputsShape
<1>11. \A i \in DOMAIN outputs : outputs[i].task # t
  <2>1. t \notin Produced BY <1>1, <1>4 DEF OutputsShape
  <2> QED BY <2>1 DEF Produced
<1>12. \A i, j \in DOMAIN outputs' : outputs'[i].task = outputs'[j].task => i = j
  BY <1>1, <1>5, <1>9, <1>11 DEF OutputsShape
<1>13. ASSUME NEW i \in DOMAIN outputs'
       PROVE  /\ \A d \in plan[outputs'[i].task].deps : \E j \in 1 .. i - 1 : outputs'[j].task = d
              /\ outputs'[i].mark = "CONFLICT" => outputs'[i].task = Compare
              /\ outputs'[i].task = Reconciliation <=> outputs'[i].mark = "RESOLVED"
  <2>1. CASE i \in DOMAIN outputs
    <3>1. \A j \in 1 .. i - 1 : j \in DOMAIN outputs BY <1>7, <2>1
    <3>2. outputs'[i] = outputs[i] /\ \A j \in 1 .. i - 1 : outputs'[j] = outputs[j]
      BY <1>9, <2>1, <3>1
    <3>3. /\ \A d \in plan[outputs[i].task].deps : \E j \in 1 .. i - 1 : outputs[j].task = d
          /\ outputs[i].mark = "CONFLICT" => outputs[i].task = Compare
          /\ outputs[i].task = Reconciliation <=> outputs[i].mark = "RESOLVED"
      BY <1>1, <2>1 DEF OutputsShape
    <3> QED BY <3>2, <3>3
  <2>2. CASE i = last
    <3>1. \A d \in plan[t].deps : \E j \in 1 .. last - 1 : outputs'[j].task = d
      <4> TAKE d \in plan[t].deps
      <4>1. Finished(d) /\ d \in TaskSet BY <1>1, <1>4, DepsAre DEF Prepared
      <4>2. PICK j \in DOMAIN outputs : outputs[j].task = d BY <1>1, <4>1 DEF OutputsShape, Produced
      <4> QED BY <1>9, <4>2
    <3> QED BY <1>5, <1>9, <2>2, <3>1
  <2> QED BY <1>9, <2>1, <2>2
<1>14. ASSUME NEW i \in DOMAIN outputs', outputs'[i].task = Check
       PROVE  /\ outputs'[i].version = version /\ outputs'[i].docs
              /\ \/ i = Len(outputs')
                 \/ i = Len(outputs') - 1 /\ outputs'[Len(outputs')].task = Report
              /\ \A j \in DOMAIN outputs' :
                    outputs'[j].mark = "CONFLICT" => Reconciliation \in plan[Check].deps
  <2>1. CASE i = last
    <3>1. t = Check /\ Answer = "PASS" BY <1>5, <1>9, <1>14, <2>1
    <3>2. \A j \in DOMAIN outputs : outputs[j].mark = "CONFLICT" => Reconciliation \in plan[Check].deps
      BY <1>2, <1>3, <3>1, ConflictIsSeen
    <3>3. a.mark # "CONFLICT" BY <1>5, <3>1, NamesDiffer
    <3> QED BY <1>5, <1>9, <2>1, <3>1, <3>2, <3>3
  <2>2. CASE i \in DOMAIN outputs
    <3>1. outputs[i].task = Check /\ outputs'[i] = outputs[i] BY <1>9, <1>14, <2>2
    <3>2. Finished(Check)
      <4>1. Check \in TaskSet BY DEF TaskSet, PlannedFirst
      <4> QED BY <1>1, <2>2, <3>1, <4>1 DEF OutputsShape, Produced
    <3>3. t = Report BY <1>1, <1>4, <3>2, OnlyTheReport
    <3>4. /\ outputs[i].version = version /\ outputs[i].docs
          /\ i = Len(outputs) \/ outputs[Len(outputs)].task = Report
          /\ \A j \in DOMAIN outputs :
                outputs[j].mark = "CONFLICT" => Reconciliation \in plan[Check].deps
      BY <1>1, <2>2, <3>1 DEF OutputsShape
    <3>5. Len(outputs) \in DOMAIN outputs BY <1>7, <2>2
    <3>6. i = Len(outputs) BY <1>11, <3>3, <3>4, <3>5
    <3>7. a.mark # "CONFLICT" BY <1>5, <3>3, NamesDiffer
    <3>8. i = Len(outputs') - 1 /\ outputs'[Len(outputs')].task = Report
      BY <1>5, <1>7, <1>8, <1>9, <3>3, <3>6
    <3>9. ASSUME NEW j \in DOMAIN outputs', outputs'[j].mark = "CONFLICT"
          PROVE  Reconciliation \in plan[Check].deps
      <4>1. j # last BY <1>9, <3>7, <3>9
      <4> QED BY <1>9, <3>4, <3>9, <4>1
    <3> QED BY <3>1, <3>4, <3>8, <3>9
  <2> QED BY <1>9, <2>1, <2>2
<1>15. OutputsShape'
  BY <1>1, <1>2, <1>7, <1>10, <1>12, <1>13, <1>14 DEF OutputsShape
<1> QED BY <1>2, <1>15, AnswerKeeps

(* ------------------------------- replanning ---------------------------- *)

\* The patch of an answer adds one task, and changes what the comparison or the
\* checkpoint depends on.
LEMMA NewPlan ==
    ASSUME PlannerInvariant, Replan
    PROVE  \E new \in {Substitute, Reconciliation, Supplement} :
              /\ new \notin DOMAIN plan /\ DOMAIN plan' = DOMAIN plan \cup {new}
              /\ DOMAIN taskStates \cup DOMAIN PatchFor(Answer).add = DOMAIN plan'
              /\ PlanShape(plan)' /\ Funded(plan)'
              /\ \A t \in DOMAIN plan :
                    /\ plan'[t].tries >= plan[t].tries
                    /\ t \notin {Compare, Check} => plan'[t].deps = plan[t].deps
              /\ new = Substitute => running = Guidance /\ plan'[Check].deps = plan[Check].deps
              /\ new # Substitute =>
                    running = Check /\ plan'[Compare].deps = plan[Compare].deps
                    /\ new \in plan'[Check].deps
<1>1. /\ PlanShape(plan) /\ DOMAIN taskStates = DOMAIN plan /\ running \in TaskSet
      /\ PlannedFirst \subseteq DOMAIN plan
      /\ \A t \in DOMAIN plan : plan[t].tries \in {1, 2}
  BY RunningIs, DepsAre DEF PlannerInvariant, StatesShape, Replan
<1>2. PICK patch : patch = PatchFor(Answer) OBVIOUS
<1>3. /\ Answer \in Replanning /\ Fits(patch) /\ ValidPlan(Patched(patch))
      /\ plan' = Patched(patch) /\ goal' = goal
  BY <1>2 DEF Replan, Applicable
<1>4. ASSUME PlanShape(plan') PROVE PlanShape(plan)' /\ Funded(plan)'
  <2>1. Funded(plan') BY <1>3, <1>4, ValidIsFunded
  <2>2. TriesOf(plan)' = TriesOf(plan') BY DEF TriesOf, Tries
  <2>3. Funded(plan)' BY <1>3, <2>1, <2>2 DEF Funded, Sum, Estimate
  <2> QED BY <1>4, <2>3 DEF PlanShape
<1>5. CASE Answer = "SOURCE_UNAVAILABLE"
  <2>1. patch = SourceReplacement BY <1>2, <1>5 DEF PatchFor
  <2>2. /\ PlanShape(plan') /\ Substitute \notin DOMAIN plan
        /\ DOMAIN plan' = DOMAIN plan \cup {Substitute}
        /\ \A t \in DOMAIN plan :
              plan'[t].tries = plan[t].tries /\ (t # Compare => plan'[t].deps = plan[t].deps)
    BY <1>1, <1>3, <2>1, SubstitutePlan
  <2>3. running = Guidance BY <1>1, <1>5, AnswersAre
  <2>4. DOMAIN patch.add = {Substitute} BY <2>1 DEF SourceReplacement, Substitute
  <2>5. plan'[Check].deps = plan[Check].deps BY <1>1, <2>2, NamesDiffer DEF PlannedFirst
  <2> QED BY <1>1, <1>2, <1>4, <2>2, <2>3, <2>4, <2>5
<1>6. CASE Answer \in {"CONFLICT", "MISSING_EVIDENCE"}
  <2>1. PICK new \in {Reconciliation, Supplement} :
          /\ patch = IF new = Supplement THEN MissingEvidence ELSE ConflictReconciliation
          /\ DOMAIN patch.add = {new, Check}
    <3>1. DOMAIN MissingEvidence.add = {Supplement, Check}
          /\ DOMAIN ConflictReconciliation.add = {Reconciliation, Check}
      BY DEF MissingEvidence, ConflictReconciliation, Supplement
    <3>2. CASE Answer = "CONFLICT"
      <4>1. patch = ConflictReconciliation BY <1>2, <3>2 DEF PatchFor
      <4> QED BY <3>1, <4>1, NamesDiffer
    <3>3. CASE Answer = "MISSING_EVIDENCE"
      <4>1. patch = MissingEvidence BY <1>2, <3>3 DEF PatchFor
      <4> QED BY <3>1, <4>1
    <3> QED BY <1>6, <3>2, <3>3
  <2>2. /\ PlanShape(plan') /\ new \notin DOMAIN plan
        /\ DOMAIN plan' = DOMAIN plan \cup {new}
        /\ \A t \in DOMAIN plan \ {Check} :
              plan'[t].tries = plan[t].tries /\ plan'[t].deps = plan[t].deps
        /\ plan'[Check].tries = 2 /\ new \in plan'[Check].deps
    BY <1>1, <1>3, <2>1, CheckedPlan
  <2>3. running = Check BY <1>1, <1>6, AnswersAre
  <2>4. Compare \in DOMAIN plan \ {Check} /\ Check \in DOMAIN plan
    BY <1>1, NamesDiffer DEF PlannedFirst
  <2>5. new # Substitute BY NamesDiffer
  <2>6. \A t \in DOMAIN plan : plan'[t].tries >= plan[t].tries BY <1>1, <2>2
  <2> QED BY <1>1, <1>2, <1>4, <2>1, <2>2, <2>3, <2>4, <2>5, <2>6
<1> QED BY <1>3, <1>5, <1>6 DEF Replanning

LEMMA ReplanKeeps == ASSUME PlannerInvariant, Replan PROVE PlannerInvariant'
<1>1. PlanShape(plan) /\ StatesShape /\ QueueShape /\ OutputsShape /\ BooksShape
  BY DEF PlannerInvariant
<1>2. PICK new \in {Substitute, Reconciliation, Supplement} :
        /\ new \notin DOMAIN plan /\ DOMAIN plan' = DOMAIN plan \cup {new}
        /\ DOMAIN taskStates \cup DOMAIN PatchFor(Answer).add = DOMAIN plan'
        /\ PlanShape(plan)' /\ Funded(plan)'
        /\ \A t \in DOMAIN plan :
              /\ plan'[t].tries >= plan[t].tries
              /\ t \notin {Compare, Check} => plan'[t].deps = plan[t].deps
        /\ new = Substitute => running = Guidance /\ plan'[Check].deps = plan[Check].deps
        /\ new # Substitute =>
              running = Check /\ plan'[Compare].deps = plan[Compare].deps
              /\ new \in plan'[Check].deps
  BY NewPlan
<1>3. /\ Answering /\ Paid /\ version' = version + 1 /\ running' = NoTask /\ batch' = {}
      /\ Answer \notin {"OK", "PASS"}
      /\ UNCHANGED <<goal, outputs, started, rounds, outcome>>
  BY DEF Replan, Replanning
<1>4. /\ running \in DOMAIN plan /\ running # NoTask /\ Prepared(running) /\ ~Finished(running)
      /\ taskStates[running].status = "RUNNING" /\ taskStates[running].attempt >= 1
      /\ outcome = "RUNNING" /\ rounds <= started
  BY <1>3, RunningIs
<1>5. /\ taskStates \in [DOMAIN plan -> [status : TaskStatuses, attempt : Nat]]
      /\ DOMAIN taskStates = DOMAIN plan
  BY <1>1 DEF StatesShape
<1>6. /\ taskStates' \in [DOMAIN plan' -> [status : TaskStatuses, attempt : Nat]]
      /\ taskStates'[new].status = "PENDING" /\ taskStates'[new].attempt = 0
      /\ taskStates'[running].attempt = taskStates[running].attempt
      /\ taskStates'[running].status = IF running = Check THEN "PENDING" ELSE "FAILED"
      /\ \A t \in DOMAIN plan \ {running} : taskStates'[t] = taskStates[t]
  <2>1. PICK s : s = IF running = Check THEN "PENDING" ELSE "FAILED" OBVIOUS
  <2>2. s \in TaskStatuses BY <2>1 DEF TaskStatuses
  <2>3. PICK x : x = [taskStates[running] EXCEPT !.status = s] OBVIOUS
  <2>4. taskStates[running] \in [status : TaskStatuses, attempt : Nat] BY <1>4, <1>5
  <2>5. x \in [status : TaskStatuses, attempt : Nat] /\ x.status = s
        /\ x.attempt = taskStates[running].attempt
    BY <2>2, <2>3, <2>4
  <2>6. PICK y : y = [status |-> "PENDING", attempt |-> 0] OBVIOUS
  <2>7. y \in [status : TaskStatuses, attempt : Nat] /\ y.status = "PENDING" /\ y.attempt = 0
    BY <2>6 DEF TaskStatuses
  <2>8. FailedStates[running] = [taskStates[running] EXCEPT !.status = "FAILED"]
        /\ \A t \in DOMAIN plan \ {running} : FailedStates[t] = taskStates[t]
    BY <1>4, <1>5 DEF FailedStates
  <2>9. taskStates' = [t \in DOMAIN plan' |->
                         IF t \notin DOMAIN plan THEN y
                         ELSE IF t = Check /\ running = Check
                              THEN [taskStates[t] EXCEPT !.status = "PENDING"]
                         ELSE FailedStates[t]]
    BY <1>2, <1>5, <2>6 DEF Replan
  <2>10. taskStates'[new] = y BY <1>2, <2>9
  <2>11. taskStates'[running] = x BY <1>2, <1>4, <2>1, <2>3, <2>8, <2>9
  <2>12. \A t \in DOMAIN plan \ {running} : taskStates'[t] = taskStates[t]
    BY <1>2, <2>8, <2>9
  <2>13. \A t \in DOMAIN plan' : taskStates'[t] \in [status : TaskStatuses, attempt : Nat]
    BY <1>2, <1>5, <2>5, <2>7, <2>10, <2>11, <2>12
  <2>14. taskStates' = [t \in DOMAIN plan' |-> taskStates'[t]] BY <2>9
  <2>15. taskStates' \in [DOMAIN plan' -> [status : TaskStatuses, attempt : Nat]]
    BY <2>13, <2>14
  <2> QED BY <2>1, <2>5, <2>7, <2>10, <2>11, <2>12, <2>15
<1>7. \A n : Finished(n)' <=> Finished(n)
  BY <1>2, <1>4, <1>5, <1>6 DEF Finished
<1>8. PlannedFirst \subseteq DOMAIN plan /\ DOMAIN plan \subseteq TaskSet /\ NoTask \notin DOMAIN plan
      /\ new \in TaskSet
  BY <1>1, DepsAre DEF TaskSet
\* A comparison that has begun does not wait for the guidance that failed.
<1>9. new = Substitute => ~Prepared(Compare) /\ ~Finished(Compare) /\ ~Finished(Check)
  <2> SUFFICES ASSUME new = Substitute PROVE ~Prepared(Compare) /\ ~Finished(Compare) /\ ~Finished(Check)
    OBVIOUS
  <2>1. Guidance \in plan[Compare].deps BY <1>1, <1>2 DEF PlanShape
  <2>2. ~Prepared(Compare) BY <1>1, <2>1 DEF Prepared, StatesShape
  <2>3. Compare \in DOMAIN plan /\ Check \in DOMAIN plan BY <1>8 DEF PlannedFirst
  <2>4. ~Finished(Compare) BY <1>1, <2>2, <2>3 DEF Finished, StatesShape
  <2>5. ~Finished(Check) BY <1>1, <2>3, <2>4 DEF Finished, StatesShape
  <2> QED BY <2>2, <2>4, <2>5
<1>10. ASSUME NEW t \in DOMAIN plan, Prepared(t), t # Check \/ new = Substitute
       PROVE  plan'[t].deps = plan[t].deps /\ Prepared(t)'
  <2>1. plan'[t].deps = plan[t].deps BY <1>2, <1>9, <1>10
  <2> QED BY <1>7, <1>10, <2>1 DEF Prepared
<1>11. StatesShape'
  <2>1. ASSUME NEW t \in DOMAIN plan'
        PROVE  /\ taskStates'[t].attempt <= plan'[t].tries
               /\ taskStates'[t].status \in {"RUNNING", "SUCCEEDED"} =>
                     taskStates'[t].attempt >= 1 /\ Prepared(t)'
               /\ taskStates'[t].attempt >= 1 /\ t # Check => Prepared(t)'
    <3>1. CASE t = new
      <4>1. plan'[t].tries \in {1, 2} BY <1>2, DepsAre DEF PlanShape, Nodes
      <4> QED BY <1>6, <3>1, <4>1
    <3>2. CASE t \in DOMAIN plan
      <4>1. /\ taskStates[t].attempt \in Nat /\ plan[t].tries \in {1, 2}
            /\ plan'[t].tries \in {1, 2} /\ plan'[t].tries >= plan[t].tries
            /\ taskStates[t].attempt <= plan[t].tries
            /\ taskStates'[t].attempt = taskStates[t].attempt
        BY <1>1, <1>2, <1>5, <1>6, <3>2 DEF PlanShape, Nodes, StatesShape
      <4>2. taskStates[t].attempt >= 1 /\ t # Check => Prepared(t)'
        BY <1>1, <1>10, <3>2 DEF StatesShape
      <4>3. ASSUME taskStates'[t].status \in {"RUNNING", "SUCCEEDED"}
            PROVE  taskStates[t].attempt >= 1 /\ Prepared(t)'
        <5>1. t # running BY <1>6, <4>3
        <5>2. taskStates[t].attempt >= 1 /\ Prepared(t)
          BY <1>1, <1>6, <3>2, <4>3, <5>1 DEF StatesShape
        <5>3. t # Check \/ new = Substitute BY <1>2, <5>1
        <5> QED BY <1>10, <3>2, <5>2, <5>3
      <4> QED BY <4>1, <4>2, <4>3
    <3> QED BY <1>2, <3>1, <3>2
  <2>2. taskStates'[Check].attempt >= 1 => Finished(Compare)'
    <3>1. Check \in DOMAIN plan BY <1>8 DEF PlannedFirst
    <3>2. taskStates'[Check].attempt = taskStates[Check].attempt BY <1>6, <3>1
    <3> QED BY <1>1, <1>7, <3>2 DEF StatesShape
  <2>3. ~Finished(Guidance)' BY <1>1, <1>7 DEF StatesShape
  <2>4. Substitute \in DOMAIN plan' => taskStates'[Guidance].status = "FAILED"
    <3>1. CASE new = Substitute BY <1>2, <1>6, <3>1, NamesDiffer
    <3>2. CASE new # Substitute
      <4>1. Guidance # running /\ Guidance \in DOMAIN plan
        BY <1>2, <1>8, <3>2, NamesDiffer DEF PlannedFirst
      <4> QED BY <1>1, <1>2, <1>6, <3>2, <4>1 DEF StatesShape
    <3> QED BY <3>1, <3>2
  <2>5. ASSUME NEW t \in {Reconciliation, Supplement} \cap DOMAIN plan'
        PROVE  Finished(Compare)' /\ (t \in plan'[Check].deps \/ Finished(t)')
    <3>1. CASE new = Substitute
      <4>1. t \in DOMAIN plan BY <1>2, <3>1, NamesDiffer
      <4> QED BY <1>1, <1>2, <1>7, <3>1, <4>1 DEF StatesShape
    <3>2. CASE new # Substitute
      <4>1. running = Check /\ new \in plan'[Check].deps BY <1>2, <3>2
      <4>2. Finished(Compare) BY <1>1, <1>4, <4>1 DEF StatesShape
      <4>3. t # new => Finished(t)
        BY <1>1, <1>2, <1>4, <4>1 DEF StatesShape, Prepared
      <4> QED BY <1>7, <4>1, <4>2, <4>3
    <3> QED BY <3>1, <3>2
  <2> QED BY <1>6, <2>1, <2>2, <2>3, <2>4, <2>5 DEF StatesShape
<1>12. QueueShape'
  <2>1. ~Finished(NoTask)' BY <1>5, <1>7, <1>8 DEF Finished
  <2>2. (~Finished(running))' BY <1>3, <2>1 DEF Finished
  <2> QED BY <1>3, <1>4, <2>2 DEF QueueShape
<1>13. OutputsShape'
  <2>1. Produced' = Produced BY <1>3 DEF Produced
  <2>2. ASSUME NEW i \in DOMAIN outputs
        PROVE  plan'[outputs[i].task].deps = plan[outputs[i].task].deps /\ outputs[i].task # Check
    <3>1. PICK t : t = outputs[i].task OBVIOUS
    <3>2. t \in TaskSet /\ Finished(t)
      <4>1. outputs[i] \in Artifacts BY <1>1, <2>2 DEF OutputsShape
      <4>2. t \in TaskSet BY <3>1, <4>1 DEF Artifacts
      <4> QED BY <1>1, <2>2, <3>1, <4>2 DEF OutputsShape, Produced
    <3>3. t \in DOMAIN plan /\ Prepared(t) BY <1>1, <1>5, <3>2 DEF Finished, StatesShape
    <3>4. t # Check BY <1>2, <1>4, <1>9, <3>2
    <3> QED BY <1>10, <3>1, <3>3, <3>4
  <2>3. version' \in Nat /\ outputs' \in Seq(Artifacts) BY <1>1, <1>3 DEF OutputsShape
  <2>4. \A t \in TaskSet : t \in Produced' <=> Finished(t)' BY <1>1, <1>7, <2>1 DEF OutputsShape
  <2>5. \A i, j \in DOMAIN outputs' : outputs'[i].task = outputs'[j].task => i = j
    BY <1>1, <1>3 DEF OutputsShape
  <2>6. ASSUME NEW i \in DOMAIN outputs'
        PROVE  /\ \A d \in plan'[outputs'[i].task].deps : \E j \in 1 .. i - 1 : outputs'[j].task = d
               /\ outputs'[i].mark = "CONFLICT" => outputs'[i].task = Compare
               /\ outputs'[i].task = Reconciliation <=> outputs'[i].mark = "RESOLVED"
               /\ outputs'[i].task # Check
    BY <1>1, <1>3, <2>2, <2>6 DEF OutputsShape
  <2> QED BY <2>3, <2>4, <2>5, <2>6 DEF OutputsShape
<1>14. BooksShape'
  <2>1. /\ DOMAIN taskStates' = DOMAIN plan' /\ DOMAIN taskStates' \subseteq TaskSet
        /\ DOMAIN taskStates' \ DOMAIN plan = {new}
    BY <1>2, <1>6, <1>8
  <2>2. taskStates'[running].status \in {"PENDING", "FAILED"} BY <1>6
  <2>3. /\ Sum(Ceilings)' \in Nat /\ Sum(Ceilings) + Cost(running, Answer) <= Sum(Ceilings)'
        /\ Sum(Attempts)' = Sum(Attempts)
    BY <1>2, <1>3, <1>4, <1>6, <2>1, <2>2, AnswerPaid
  <2>4. spent' = spent + Cost(running, Answer) BY <1>3 DEF Paid
  <2>5. Cost(running, Answer) \in Nat BY <1>4, <1>8, CostsAre
  <2>6. Sum(Ceilings) \in Nat BY <1>1, CountsAre
  <2>7. /\ spent \in Nat /\ started \in Nat /\ rounds \in Nat
        /\ spent <= Sum(Ceilings) /\ started <= Sum(Attempts) /\ started <= goal.attempts
    BY <1>1 DEF BooksShape
  <2>8. spent' \in Nat /\ spent' <= Sum(Ceilings)' BY <2>3, <2>4, <2>5, <2>6, <2>7
  <2> QED BY <1>3, <1>4, <2>3, <2>7, <2>8 DEF BooksShape
<1>15. (goal \in GoalContracts)' BY <1>3 DEF PlannerInvariant
<1> QED BY <1>2, <1>11, <1>12, <1>13, <1>14, <1>15 DEF PlannerInvariant

LEMMA PlannerSteps == ASSUME PlannerInvariant, [PlannerNext]_plannerVars PROVE PlannerInvariant'
<1>1. CASE StartBatch BY <1>1, BatchKeeps
<1>2. CASE NothingReady BY <1>2, NothingReadyKeeps
<1>3. CASE RefuseTask BY <1>3, RefuseKeeps
<1>4. CASE StartTask BY <1>4, StartKeeps
<1>5. CASE Succeed BY <1>5, SuccessKeeps
<1>6. CASE RetryTask \/ GiveUp \/ CannotReplan BY <1>6, FailureKeeps
<1>7. CASE Replan BY <1>7, ReplanKeeps
<1>8. CASE UNCHANGED plannerVars
  <2> USE <1>8 DEF plannerVars
  <2>1. StatesShape' BY StatesStay DEF PlannerInvariant
  <2>2. \A t : Finished(t)' <=> Finished(t) BY DEF Finished
  <2>3. OutputsShape' BY <2>2, OutputsStay DEF PlannerInvariant
  <2>4. QueueShape'
    <3>1. \A t : Prepared(t)' <=> Prepared(t) BY <2>2 DEF Prepared
    <3>2. (~Finished(running))' BY DEF PlannerInvariant, QueueShape, Finished
    <3> QED BY <2>2, <3>1, <3>2 DEF PlannerInvariant, QueueShape
  <2>5. UNCHANGED <<Sum(Ceilings), Sum(Attempts)>> BY CountsStay
  <2>6. BooksShape' BY <2>5 DEF PlannerInvariant, BooksShape, StatusIs
  <2> QED BY <2>1, <2>3, <2>4, <2>6, PlanStays
<1> QED BY <1>1, <1>2, <1>3, <1>4, <1>5, <1>6, <1>7, <1>8 DEF PlannerNext

\* The place of an artifact is that of its task.
LEMMA PlaceIs ==
    ASSUME OutputsShape, NEW i \in DOMAIN outputs
    PROVE  Place(outputs[i].task) = i /\ OutputOf(outputs[i].task) = outputs[i]
<1>1. PICK t : t = outputs[i].task OBVIOUS
<1>2. PICK j : j = CHOOSE n \in DOMAIN outputs : outputs[n].task = t OBVIOUS
<1>3. j \in DOMAIN outputs /\ outputs[j].task = t BY <1>1, <1>2
<1>4. j = i BY <1>1, <1>3 DEF OutputsShape
<1> QED BY <1>1, <1>2, <1>4 DEF Place, OutputOf

LEMMA WorkIsKept == ASSUME PlannerInvariant PROVE FinishedWorkStays
<1>1. StatesShape /\ QueueShape /\ OutputsShape BY DEF PlannerInvariant
<1>2. \A i \in DOMAIN outputs : outputs[i] \in Artifacts BY <1>1 DEF OutputsShape
<1>3. Produced \subseteq TaskSet BY <1>2 DEF Produced, Artifacts
<1>4. \A t \in Produced : Finished(t) BY <1>1, <1>3 DEF OutputsShape
<1>5. running \notin Produced BY <1>1, <1>4 DEF QueueShape
<1>6. \A t \in Produced : t \in DOMAIN plan /\ taskStates[t].status = "SUCCEEDED"
  BY <1>1, <1>4 DEF StatesShape, Finished
<1> QED BY <1>1, <1>5, <1>6 DEF OutputsShape, FinishedWorkStays

LEMMA CompletionIsChecked == ASSUME PlannerInvariant PROVE CompletedMeansChecked
<1> SUFFICES ASSUME outcome = "COMPLETED"
             PROVE  /\ {Check, Report} \subseteq Produced
                    /\ Place(Report) = Len(outputs) /\ Place(Check) = Len(outputs) - 1
                    /\ OutputOf(Check).version = version
                    /\ \A t \in Produced : \A d \in plan[t].deps :
                          d \in Produced /\ Place(d) < Place(t)
                    /\ (\E t \in Produced : OutputOf(t).mark = "CONFLICT") =>
                         \E t \in plan[Check].deps : t \in Produced /\ OutputOf(t).mark = "RESOLVED"
                    /\ OutputOf(Check).docs
  BY DEF CompletedMeansChecked, Report
<1>1. PlanShape(plan) /\ StatesShape /\ QueueShape /\ OutputsShape BY DEF PlannerInvariant
<1>2. /\ outputs \in Seq(Artifacts) /\ Len(outputs) \in Nat /\ DOMAIN outputs = 1 .. Len(outputs)
  BY <1>1 DEF OutputsShape
<1>3. Report \in TaskSet /\ Check \in TaskSet /\ Reconciliation \in TaskSet
      /\ Report \in DOMAIN plan /\ Check \in DOMAIN plan
  BY <1>1, DepsAre DEF TaskSet, PlannedFirst
<1>4. Finished(Report) BY <1>1 DEF QueueShape
<1>5. Prepared(Report) /\ plan[Report].deps = {Check} BY <1>1, <1>3, <1>4 DEF Finished, StatesShape, PlanShape
<1>6. Finished(Check) BY <1>5 DEF Prepared
<1>7. Prepared(Check) BY <1>1, <1>3, <1>6 DEF Finished, StatesShape
<1>8. Report \in Produced /\ Check \in Produced BY <1>1, <1>3, <1>4, <1>6 DEF OutputsShape
<1>9. \A i \in DOMAIN outputs : Place(outputs[i].task) = i /\ OutputOf(outputs[i].task) = outputs[i]
  BY <1>1, PlaceIs
<1>10. PICK r \in DOMAIN outputs, c \in DOMAIN outputs : outputs[r].task = Report /\ outputs[c].task = Check
  BY <1>8 DEF Produced
<1>11. /\ outputs[c].version = version /\ outputs[c].docs
       /\ \/ c = Len(outputs)
          \/ c = Len(outputs) - 1 /\ outputs[Len(outputs)].task = Report
       /\ \A j \in DOMAIN outputs : outputs[j].mark = "CONFLICT" => Reconciliation \in plan[Check].deps
  BY <1>1, <1>10 DEF OutputsShape
<1>12. \A i \in DOMAIN outputs : \A d \in plan[outputs[i].task].deps :
          \E j \in 1 .. i - 1 : outputs[j].task = d
  BY <1>1 DEF OutputsShape
<1>13. c < r
  <2>1. PICK j \in 1 .. r - 1 : outputs[j].task = Check BY <1>5, <1>10, <1>12
  <2>2. j \in DOMAIN outputs /\ j < r BY <1>2, <1>10, <2>1
  <2> QED BY <1>1, <1>10, <2>1, <2>2 DEF OutputsShape
<1>14. r = Len(outputs) /\ c = Len(outputs) - 1
  <2>1. r \in Nat /\ c \in Nat /\ r <= Len(outputs) BY <1>2, <1>10
  <2>2. c = Len(outputs) - 1 /\ outputs[Len(outputs)].task = Report BY <1>2, <1>11, <1>13, <2>1
  <2>3. Len(outputs) \in DOMAIN outputs BY <1>2, <2>1, <2>2, <1>10
  <2> QED BY <1>1, <1>10, <2>2, <2>3 DEF OutputsShape
<1>15. Place(Report) = r /\ Place(Check) = c /\ OutputOf(Check) = outputs[c] BY <1>9, <1>10
<1>16. ASSUME NEW t \in Produced, NEW d \in plan[t].deps
       PROVE  d \in Produced /\ Place(d) < Place(t)
  <2>1. PICK i \in DOMAIN outputs : outputs[i].task = t BY DEF Produced
  <2>2. PICK j \in 1 .. i - 1 : outputs[j].task = d BY <1>12, <2>1
  <2>3. j \in DOMAIN outputs /\ j < i BY <1>2, <2>1, <2>2
  <2>4. Place(t) = i /\ Place(d) = j BY <1>9, <2>1, <2>2, <2>3
  <2>5. d \in Produced BY <2>2, <2>3 DEF Produced
  <2> QED BY <2>3, <2>4, <2>5
<1>17. ASSUME NEW t \in Produced, OutputOf(t).mark = "CONFLICT"
       PROVE  /\ Reconciliation \in plan[Check].deps /\ Reconciliation \in Produced
              /\ OutputOf(Reconciliation).mark = "RESOLVED"
  <2>1. PICK i \in DOMAIN outputs : outputs[i].task = t BY DEF Produced
  <2>2. outputs[i].mark = "CONFLICT" BY <1>9, <1>17, <2>1
  <2>3. Reconciliation \in plan[Check].deps BY <1>11, <2>2
  <2>4. Finished(Reconciliation) BY <1>7, <2>3 DEF Prepared
  <2>5. Reconciliation \in Produced BY <1>1, <1>3, <2>4 DEF OutputsShape
  <2>6. PICK j \in DOMAIN outputs : outputs[j].task = Reconciliation BY <2>5 DEF Produced
  <2>7. outputs[j].mark = "RESOLVED" BY <1>1, <2>6 DEF OutputsShape
  <2>8. OutputOf(Reconciliation) = outputs[j] BY <1>9, <2>6
  <2> QED BY <2>3, <2>5, <2>7, <2>8
<1>18. (\E t \in Produced : OutputOf(t).mark = "CONFLICT") =>
         \E t \in plan[Check].deps : t \in Produced /\ OutputOf(t).mark = "RESOLVED"
  BY <1>17
<1> QED BY <1>8, <1>11, <1>14, <1>15, <1>16, <1>18

LEMMA BudgetsHold == ASSUME PlannerInvariant PROVE PlansFitTheirBudgets
<1>1. PlanShape(plan) /\ Funded(plan) /\ StatesShape /\ QueueShape /\ BooksShape
  BY DEF PlannerInvariant
<1>2. /\ spent \in Nat /\ started \in Nat /\ rounds \in Nat
      /\ spent <= Sum(Ceilings) /\ started <= Sum(Attempts) /\ started <= goal.attempts
      /\ rounds <= started + 1
  BY <1>1 DEF BooksShape
<1>3. goal.cost \in Nat BY PlannerAssumption DEF PlannerInvariant
<1>4. TriesOf(plan) \in [TaskSet -> 0 .. 2] /\ \A t \in TaskSet : TriesOf(plan)[t] = Tries(plan, t)
  BY <1>1, PlannedAre DEF TriesOf
<1>5. Sum(Ceilings) \in Nat /\ Sum(Attempts) \in Nat /\ Sum(TriesOf(plan)) \in Nat
  <2>1. TriesOf(plan) \in [TaskSet -> Nat] BY <1>4
  <2> QED BY <1>1, <2>1, CountsAre, SumIs
<1>6. ASSUME running # NoTask, outcome = "RUNNING"
      PROVE  spent + Cost(running, Answer) <= goal.cost
  <2>1. running \in DOMAIN plan /\ taskStates[running].status = "RUNNING" BY <1>1, <1>6 DEF QueueShape
  <2>2. Sum(Ceilings) + Cost(running, Answer) <= 4 * Sum(TriesOf(plan)) BY <1>1, <2>1, AnswersFit
  <2>3. Cost(running, Answer) \in Nat BY <1>1, <2>1, DepsAre, CostsAre
  <2>4. 4 * Sum(TriesOf(plan)) <= goal.cost BY <1>1 DEF Funded, Estimate
  <2> QED BY <1>2, <1>3, <1>5, <2>2, <2>3, <2>4
<1>7. rounds < 50
  <2>1. \A t \in TaskSet : Attempts[t] \in 0 .. 2
    <3> TAKE t \in TaskSet
    <3>1. CASE t \in DOMAIN plan
      <4>1. /\ taskStates[t].attempt \in Nat /\ taskStates[t].attempt <= plan[t].tries
            /\ plan[t].tries \in {1, 2} /\ t \in DOMAIN taskStates
        BY <1>1, <3>1, DepsAre DEF StatesShape
      <4> QED BY <4>1 DEF Attempts
    <3>2. CASE t \notin DOMAIN plan BY <1>1, <3>2 DEF StatesShape, Attempts
    <3> QED BY <3>1, <3>2
  <2>2. Sum(Attempts) <= 18 BY <2>1 DEF Sum, TaskSet, PlannedFirst
  <2> QED BY <1>2, <1>5, <2>2
<1> QED BY <1>1, <1>2, <1>6, <1>7 DEF BooksShape, PlansFitTheirBudgets

\* Replanning keeps finished work, a run is completed by checked work alone, and
\* no run needs more than its plan was validated for (run_research_plan,
\* apply_plan_patch, validate_plan).
THEOREM ResultsComeFromWork == PlannerSpec => []ResultsAreEarned
<1>1. PlannerInit => PlannerInvariant BY PlansStart
<1>2. PlannerInvariant /\ [PlannerNext]_plannerVars => PlannerInvariant' BY PlannerSteps
<1>3. PlannerInvariant => ResultsAreEarned
  BY WorkIsKept, CompletionIsChecked, BudgetsHold DEF ResultsAreEarned
<1> QED BY <1>1, <1>2, <1>3, PTL DEF PlannerSpec
=============================================================================
