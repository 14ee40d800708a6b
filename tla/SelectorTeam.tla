---------------------------- MODULE SelectorTeam ----------------------------
(***************************************************************************)
(* The selector team of advanced/02: a selector names the next speaker, a  *)
(* worker's artifact becomes one turn, and termination_decision is asked   *)
(* before each of them.                                                    *)
(*                                                                         *)
(* A decision is validated when it is made and again when the artifact     *)
(* arrives; between the two the application may cancel, block or escalate, *)
(* and an artifact may be delivered once more.  Evidence keeps its status: *)
(* two records of one status and source are taken to have one digest.      *)
(***************************************************************************)
EXTENDS Naturals, FiniteSets, Sequences

CONSTANTS
    GapOwner,       \* GAP_TO_AGENT, for the required evidence
    TeamBudget,     \* [messages, selector, worker, perAgent, repeated, deadline]
    TurnTimes       \* time a worker may take; a selector call takes 1

ASSUME TeamAssumption ==
    /\ {"AnalystAgent", "ReviewerAgent", "none"} \cap {GapOwner[g] : g \in DOMAIN GapOwner} = {}
    /\ "none" \notin DOMAIN GapOwner
    /\ TeamBudget \in [messages : Nat \ {0}, selector : Nat \ {0}, worker : Nat \ {0},
                       perAgent : Nat \ {0}, repeated : Nat \ {0}, deadline : Nat \ {0}]
    /\ TurnTimes \subseteq Nat

VARIABLES
    gathered,       \* required evidence -> status of its record
    candidate,      \* a candidate diagnosis exists
    review,         \* [passed, feedback]
    turns,          \* the SpeakerTurns, each with one message
    choice,         \* the last validated SelectorDecision
    selectorCalls, elapsed,
    controls        \* cancelled, policy_blocked, escalated, insufficient_evidence

teamVars ==
    <<gathered, candidate, review, turns, choice, selectorCalls, elapsed, controls>>

RequiredEvidence == DOMAIN GapOwner
Gatherers == {GapOwner[g] : g \in RequiredEvidence}
Analyst == "AnalystAgent"
Reviewer == "ReviewerAgent"
NoGap == "none"
Speakers == Gatherers \cup {Analyst, Reviewer}
NoChoice == [agent |-> "none", gap |-> NoGap, eligible |-> {}]
Controls == {"CANCELLED", "POLICY_BLOCKED", "ESCALATE", "INSUFFICIENT_EVIDENCE"}

TeamInit ==
    /\ gathered = [g \in RequiredEvidence |-> "MISSING"]
    /\ candidate = FALSE
    /\ review = [passed |-> FALSE, feedback |-> 0]
    /\ turns = << >>
    /\ choice = NoChoice
    /\ selectorCalls = 0 /\ elapsed = 0
    /\ controls = {}

(* ------------------------------ termination ---------------------------- *)

\* compute_gaps, material_digest
Gaps == {g \in RequiredEvidence : gathered[g] # "COLLECTED"}
Material == <<gathered, candidate, review>>

TurnsOf(agent) == {i \in DOMAIN turns : turns[i].agent = agent}
LastTurns(n) == {i \in DOMAIN turns : i > Len(turns) - n}

\* _budget_exhausted
OutOfBudget ==
    \/ Len(turns) >= TeamBudget.messages \/ Len(turns) >= TeamBudget.worker
    \/ selectorCalls >= TeamBudget.selector
    \/ \E a \in Speakers : Cardinality(TurnsOf(a)) >= TeamBudget.perAgent
    \/ /\ Len(turns) >= TeamBudget.repeated
       /\ \E a \in Speakers : LastTurns(TeamBudget.repeated) \subseteq TurnsOf(a)

\* detect_ping_pong
PingPong ==
    LET n == Len(turns) IN
    /\ n >= 4
    /\ turns[n].agent = turns[n - 2].agent /\ turns[n - 1].agent = turns[n - 3].agent
    /\ turns[n].agent # turns[n - 1].agent
    /\ \A i \in LastTurns(4) : turns[i].after = turns[n].after

\* detect_stagnation
Stagnant == Len(turns) >= 3 /\ \A i \in LastTurns(3) : turns[i].before = turns[i].after

\* termination_decision, by precedence; detect_review_churn asks for more
\* than PingPong does.
TerminationReason ==
    IF "CANCELLED" \in controls THEN "CANCELLED"
    ELSE IF "POLICY_BLOCKED" \in controls THEN "POLICY_BLOCKED"
    ELSE IF elapsed >= TeamBudget.deadline THEN "DEADLINE_EXCEEDED"
    ELSE IF OutOfBudget THEN "BUDGET_EXHAUSTED"
    ELSE IF PingPong THEN "LOOP_DETECTED"
    ELSE IF Stagnant THEN "STALLED"
    ELSE IF "ESCALATE" \in controls THEN "ESCALATE"
    ELSE IF controls # {} THEN "INSUFFICIENT_EVIDENCE"
    ELSE IF review.passed THEN "COMPLETE" ELSE "CONTINUE"
Continues == TerminationReason = "CONTINUE"

(* ------------------------------- selection ----------------------------- *)

\* eligible_agents
EligibleSpeakers ==
    IF ~Continues THEN {}
    ELSE IF Gaps # {} THEN {GapOwner[g] : g \in Gaps}
    ELSE IF ~candidate THEN {Analyst} ELSE {Reviewer}

\* Wrong: the evidence is compared with what it was before the last turn.
RepeatsOldTurn(d) ==
    /\ turns # << >>
    /\ turns[Len(turns)].agent = d.agent /\ turns[Len(turns)].gap = d.gap
    /\ turns[Len(turns)].before[1] = gathered

\* detect_duplicate_selection: the evidence changes in turns only, so the last
\* one always left it as it is.
DuplicateSelection(d) ==
    /\ turns # << >>
    /\ turns[Len(turns)].agent = d.agent /\ turns[Len(turns)].gap = d.gap
    /\ turns[Len(turns)].after[1] = gathered

\* validate_selector_decision
ValidChoice(d) ==
    /\ Continues
    /\ d.eligible = EligibleSpeakers
    /\ d.agent \in EligibleSpeakers
    /\ ~DuplicateSelection(d)
    /\ d.gap # NoGap => GapOwner[d.gap] = d.agent

\* record_selector_call
CallSelector ==
    /\ Continues
    /\ selectorCalls' = selectorCalls + 1
    /\ elapsed' = elapsed + 1
    /\ UNCHANGED <<gathered, candidate, review, turns, choice, controls>>

\* Whatever chooses, a model or deterministic_selector: its decision is validated.
ChooseSpeaker ==
    /\ \E agent \in EligibleSpeakers, gap \in RequiredEvidence \cup {NoGap} :
        LET d == [agent |-> agent, gap |-> gap, eligible |-> EligibleSpeakers] IN
        ValidChoice(d) /\ choice' = d
    /\ UNCHANGED <<gathered, candidate, review, turns, selectorCalls, elapsed, controls>>

(* --------------------------------- turns ------------------------------- *)

\* What a valid artifact may bring (validate_worker_artifact): records from
\* the sources the speaker may read, a diagnosis of the analyst, a verdict of
\* the reviewer; or nothing at all.
Records(agent) ==
    LET mine == {g \in RequiredEvidence : GapOwner[g] = agent} IN
    UNION {[got -> {"COLLECTED", "UNAVAILABLE", "CONFLICT"}] : got \in SUBSET mine}
Verdicts(agent) == IF agent = Reviewer THEN {"NONE", "REVIEW_PASS", "REVIEW_FAIL"} ELSE {"NONE"}
Diagnoses(agent) == IF agent = Analyst THEN BOOLEAN ELSE {FALSE}

\* apply_worker_turn; a reviewer speaks only when REVIEW_PASS is not premature.
WorkerTurn ==
    /\ choice # NoChoice /\ ValidChoice(choice)
    /\ \E records \in Records(choice.agent), diagnosis \in Diagnoses(choice.agent),
          verdict \in Verdicts(choice.agent), time \in TurnTimes :
        /\ gathered' = [g \in RequiredEvidence |->
                            IF g \in DOMAIN records THEN records[g] ELSE gathered[g]]
        /\ candidate' = (candidate \/ diagnosis)
        /\ review' = CASE verdict = "REVIEW_PASS" -> [passed |-> TRUE, feedback |-> 1]
                       [] verdict = "REVIEW_FAIL" -> [passed |-> FALSE, feedback |-> 2]
                       [] OTHER -> review
        /\ elapsed' = elapsed + time
        /\ turns' = Append(turns, [agent |-> choice.agent, gap |-> choice.gap,
                                   before |-> Material, after |-> Material'])
    /\ UNCHANGED <<choice, selectorCalls, controls>>

\* request_cancellation, apply_validated_control_signal and the other flags
Control ==
    /\ \E c \in Controls \ controls : controls' = controls \cup {c}
    /\ UNCHANGED <<gathered, candidate, review, turns, choice, selectorCalls, elapsed>>

TeamNext == CallSelector \/ ChooseSpeaker \/ WorkerTurn \/ Control

TeamSpec == TeamInit /\ [][TeamNext]_teamVars

(* ------------------------------- properties ---------------------------- *)

Statuses == {"MISSING", "COLLECTED", "UNAVAILABLE", "CONFLICT"}
Materials == [RequiredEvidence -> Statuses] \X BOOLEAN \X [passed : BOOLEAN, feedback : 0 .. 2]
SpokenGaps == RequiredEvidence \cup {NoGap}

TeamTypeOK ==
    /\ Material \in Materials
    /\ turns \in Seq([agent : Speakers, gap : SpokenGaps, before : Materials, after : Materials])
    /\ choice \in [agent : Speakers \cup {NoChoice.agent}, gap : SpokenGaps, eligible : SUBSET Speakers]
    /\ selectorCalls \in Nat /\ elapsed \in Nat /\ controls \subseteq Controls

\* However often an artifact is delivered and whatever came between: a
\* diagnosis was made once, on evidence that was complete and has not changed
\* since, and it passed review in the last turn or not at all.  Nobody speaks
\* twice in a row to the same gap, and the bounds of the team count real turns
\* (README.md, "Eligibility is state-based" and the team budgets).
DiagnosisIsGrounded ==
    /\ candidate =>
        /\ Gaps = {}
        /\ \E i \in TurnsOf(Analyst) :
             /\ ~turns[i].before[2] /\ turns[i].after[2]
             /\ \A j \in i .. Len(turns) : turns[j].after[1] = gathered
             /\ \A j \in i + 1 .. Len(turns) : turns[j].agent = Reviewer
    /\ review.passed => candidate /\ turns[Len(turns)].agent = Reviewer
    /\ Len(turns) <= TeamBudget.messages /\ Len(turns) <= TeamBudget.worker
    /\ \A a \in Speakers : Cardinality(TurnsOf(a)) <= TeamBudget.perAgent
    /\ \A i \in DOMAIN turns \ {1} :
         turns[i].agent = turns[i - 1].agent => turns[i].gap # turns[i - 1].gap
=============================================================================
