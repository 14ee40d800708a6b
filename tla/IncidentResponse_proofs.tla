---------------------- MODULE IncidentResponse_proofs ----------------------
(***************************************************************************)
(* IncidentResponse is well typed, rolls back at most once, says RESOLVED  *)
(* only of a rollback it knows of, and leaves a person in control: for any *)
(* coordinators, symptoms and budgets.                                     *)
(*                                                                         *)
(* A run is a copy: what it says of the rollback may be old.  The          *)
(* inductive invariant therefore ties every copy, saved or in memory, to   *)
(* the receipt of the orchestrator, and the receipt to what the deployment *)
(* API did.                                                                *)
(***************************************************************************)
EXTENDS IncidentResponse, TLAPS

(* --------------------------------- runs -------------------------------- *)

\* A transition, taken or refused, changes nothing but the status.
LEMMA MovedRun ==
    ASSUME NEW s \in RunState, NEW status \in IncidentStatuses
    PROVE  /\ Moved(s, status) \in RunState
           /\ Moved(s, status) = [s EXCEPT !.status = Moved(s, status).status]
           /\ Moved(s, status).status = IF MayBecome(s, status) THEN status ELSE s.status
    BY DEF Moved, RunState

\* A status that holds a run in a person's hands is never left.
LEMMA HandsHold ==
    ASSUME NEW s \in RunState, s.status \in InHands, NEW status
    PROVE  Moved(s, status) = s
<1>1. CASE s.status = status
    BY <1>1 DEF Moved, RunState
<1>2. CASE s.status # status
  <2>1. ~MayBecome(s, status)
    <3>1. \A t : <<s.status, t>> \notin Steps
        BY DEF InHands, Steps
    <3> QED BY <1>2, <3>1 DEF MayBecome, InHands, Over
  <2> QED BY <2>1 DEF Moved
<1> QED BY <1>1, <1>2

\* What two reads of evidence make of a run.
LEMMA ReadRun ==
    ASSUME NEW s \in RunState, NEW got
    PROVE  /\ AfterReads(s, got) \in RunState
           /\ AfterReads(s, got) = [s EXCEPT !.status = AfterReads(s, got).status]
           /\ AfterReads(s, got).status \in {s.status, "INVESTIGATING"}
    BY MovedRun DEF AfterReads, IncidentStatuses, RunState

\* A coordinator that keeps a run keeps the table well typed.
LEMMA KeepsType ==
    ASSUME desks \in [Coordinators -> RunState \cup {NoState}],
           NEW p \in Coordinators, NEW s \in RunState, Keeps(p, s)
    PROVE  /\ desks' \in [Coordinators -> RunState \cup {NoState}]
           /\ desks'[p] = s
           /\ \A q \in Coordinators \ {p} : desks'[q] = desks[q]
    BY DEF Keeps

(* ------------------------- the inductive invariant --------------------- *)

\* Statuses that only an execution leads to.
AfterExecution == {"DEGRADED", "VERIFYING", "RESOLVED"}

\* What a copy of the run says agrees with the orchestrator, however old.
SoundRun(s, o) ==
    /\ s.receipt \in Executed => o \in Executed
    /\ s.status \in AfterExecution => s.proposed /\ s.attempts > 0
    /\ s.status = "RESOLVED" => s.receipt \in Executed /\ s.verified # "NONE"

\* The orchestrator's receipt agrees with the deployment API.
SoundOrder ==
    /\ RolledBackOnce
    /\ order = "NONE" => rollbacks = 0 /\ ~flying
    /\ order \in Executed => rollbacks = 1

ResponseInv ==
    /\ ResponseTypeOK
    /\ SoundOrder
    /\ \A s \in Runs : SoundRun(s, order)

LEMMA RunTypes ==
    ASSUME ResponseTypeOK
    PROVE  /\ Runs \subseteq RunState
           /\ \A p \in Coordinators : AtWork(p) => desks[p] \in RunState /\ desks[p] \in Runs
           /\ saved # NoState => saved \in RunState /\ saved \in Runs
    BY ResponseAssumption DEF ResponseTypeOK, Runs, AtWork

\* A transition that leads to nothing an execution leads to keeps a run sound.
LEMMA QuietMove ==
    ASSUME NEW s \in RunState, NEW o, SoundRun(s, o),
           NEW status \in IncidentStatuses \ AfterExecution
    PROVE  Moved(s, status) \in RunState /\ SoundRun(Moved(s, status), o)
<1>1. Moved(s, status) \in RunState BY MovedRun
<1>2. CASE MayBecome(s, status)
    BY <1>2 DEF Moved, SoundRun, RunState, AfterExecution
<1>3. CASE ~MayBecome(s, status)
    BY <1>3 DEF Moved
<1> QED BY <1>1, <1>2, <1>3

\* A coordinator keeps a sound run and the orchestrator is left alone.
LEMMA SoundKept ==
    ASSUME ResponseInv, NEW p \in Coordinators, NEW s \in RunState,
           Keeps(p, s), SoundRun(s, order),
           UNCHANGED <<saved, grant, order, flying, rollbacks, hour>>,
           alerted' \in BOOLEAN, library' \in SUBSET Evidence
    PROVE  ResponseInv'
<1>1. /\ desks' \in [Coordinators -> RunState \cup {NoState}]
      /\ desks'[p] = s /\ \A q \in Coordinators \ {p} : desks'[q] = desks[q]
    BY KeepsType DEF ResponseInv, ResponseTypeOK
<1>2. ResponseTypeOK' BY <1>1 DEF ResponseInv, ResponseTypeOK
<1>3. SoundOrder' BY DEF ResponseInv, SoundOrder, RolledBackOnce
<1>4. Runs' \subseteq Runs \cup {s} BY <1>1 DEF Runs, AtWork
<1>5. \A t \in Runs' : SoundRun(t, order')
    BY <1>4 DEF ResponseInv, SoundRun
<1> QED BY <1>2, <1>3, <1>5 DEF ResponseInv

\* The desk of a coordinator at work.
LEMMA AtDesk ==
    ASSUME ResponseInv, NEW p \in Coordinators, AtWork(p)
    PROVE  /\ desks[p] \in RunState /\ SoundRun(desks[p], order)
           /\ alerted \in BOOLEAN /\ library \in SUBSET Evidence
    BY RunTypes DEF ResponseInv, ResponseTypeOK


(* ------------------------------ every action --------------------------- *)

LEMMA AdmitSound ==
    ASSUME ResponseInv, NEW p \in Coordinators, AdmitAlert(p) PROVE ResponseInv'
<1>1. NewRun \in RunState /\ SoundRun(NewRun, order)
    BY ResponseAssumption
    DEF NewRun, RunState, IncidentStatuses, Over, ReceiptStatuses, SoundRun, AfterExecution, Executed
<1> QED BY <1>1, SoundKept DEF AdmitAlert, ResponseInv, ResponseTypeOK

LEMMA LeaseSound ==
    ASSUME ResponseInv, NEW p \in Coordinators, AcquireLease(p) PROVE ResponseInv'
<1> DEFINE s == [desks[p] EXCEPT !.leader = p, !.until = hour + LeaseSpan]
<1>1. /\ desks[p] \in RunState /\ SoundRun(desks[p], order)
      /\ alerted \in BOOLEAN /\ library \in SUBSET Evidence
    BY AtDesk DEF AcquireLease
<1>2. hour + LeaseSpan \in Nat BY ResponseAssumption DEF ResponseInv, ResponseTypeOK
<1>3. s \in RunState /\ SoundRun(s, order) BY <1>1, <1>2 DEF RunState, SoundRun
<1> QED BY <1>1, <1>3, SoundKept DEF AcquireLease

LEMMA SaveSound ==
    ASSUME ResponseInv, NEW p \in Coordinators, SaveState(p) PROVE ResponseInv'
<1>1. desks[p] \in RunState /\ desks[p] \in Runs BY RunTypes DEF SaveState, ResponseInv
<1>2. ResponseTypeOK' BY <1>1 DEF SaveState, ResponseInv, ResponseTypeOK
<1>3. Runs' \subseteq Runs BY <1>1 DEF SaveState, Runs, AtWork
<1> QED BY <1>2, <1>3 DEF SaveState, ResponseInv, SoundOrder, RolledBackOnce

LEMMA LoadSound ==
    ASSUME ResponseInv, NEW p \in Coordinators, LoadState(p) PROVE ResponseInv'
<1>1. saved \in RunState /\ saved \in Runs BY RunTypes DEF LoadState, ResponseInv
<1>2. /\ desks' \in [Coordinators -> RunState \cup {NoState}]
      /\ desks'[p] = saved /\ \A q \in Coordinators \ {p} : desks'[q] = desks[q]
    BY <1>1, KeepsType DEF LoadState, ResponseInv, ResponseTypeOK
<1>3. ResponseTypeOK' BY <1>2 DEF LoadState, ResponseInv, ResponseTypeOK
<1>4. Runs' \subseteq Runs BY <1>1, <1>2 DEF LoadState, Runs, AtWork
<1> QED BY <1>3, <1>4 DEF LoadState, ResponseInv, SoundOrder, RolledBackOnce

LEMMA InvestigationSound ==
    ASSUME ResponseInv, NEW p \in Coordinators, InitialInvestigation(p) PROVE ResponseInv'
<1>1. /\ desks[p] \in RunState /\ SoundRun(desks[p], order)
      /\ alerted \in BOOLEAN /\ library \in SUBSET Evidence
    BY AtDesk DEF InitialInvestigation, Automatic
<1> DEFINE s == desks[p]
           G(got) == [AfterReads(s, got) EXCEPT !.gap = "OPEN"]
<1>2. PICK got \in Readable(s, Symptoms) :
        /\ library' = library \cup got
        /\ Keeps(p, IF Raised(s, got) THEN s ELSE Moved(G(got), "EVIDENCE_INCOMPLETE"))
    BY DEF InitialInvestigation
<1>3. got \subseteq Symptoms BY <1>2 DEF Readable
<1>4. G(got) \in RunState /\ SoundRun(G(got), order)
  <2>1. AfterReads(s, got) \in RunState /\ SoundRun(AfterReads(s, got), order)
      BY <1>1, QuietMove DEF AfterReads, IncidentStatuses, AfterExecution
  <2> QED BY <2>1 DEF RunState, SoundRun
<1>5. /\ Moved(G(got), "EVIDENCE_INCOMPLETE") \in RunState
      /\ SoundRun(Moved(G(got), "EVIDENCE_INCOMPLETE"), order)
    BY <1>4, QuietMove DEF IncidentStatuses, AfterExecution
<1>6. library' \in SUBSET Evidence BY <1>1, <1>2, <1>3 DEF Evidence
<1>7. CASE Raised(s, got)
    BY <1>1, <1>2, <1>6, <1>7, SoundKept DEF InitialInvestigation
<1>8. CASE ~Raised(s, got)
    BY <1>1, <1>2, <1>5, <1>6, <1>8, SoundKept DEF InitialInvestigation
<1> QED BY <1>7, <1>8

LEMMA GapSound ==
    ASSUME ResponseInv, NEW p \in Coordinators, ResolveProviderGap(p) PROVE ResponseInv'
<1> DEFINE s == [desks[p] EXCEPT !.replans = @ + 1]
           C(got) == [AfterReads(s, got) EXCEPT !.gap = "CLOSED"]
<1>1. /\ desks[p] \in RunState /\ SoundRun(desks[p], order)
      /\ alerted \in BOOLEAN /\ library \in SUBSET Evidence
    BY AtDesk DEF ResolveProviderGap, Automatic
<1>2. s \in RunState /\ SoundRun(s, order)
    BY <1>1, ResponseAssumption DEF ResolveProviderGap, RunState, SoundRun
<1>3. CASE Keeps(p, Moved(s, "ESCALATED")) /\ UNCHANGED library
  <2>1. Moved(s, "ESCALATED") \in RunState /\ SoundRun(Moved(s, "ESCALATED"), order)
      BY <1>2, QuietMove DEF IncidentStatuses, AfterExecution, Over
  <2> QED BY <1>1, <1>3, <2>1, SoundKept DEF ResolveProviderGap
<1>4. ASSUME NEW got \in Readable(s, {Provider3DS}), library' = library \cup got,
             Keeps(p, IF Raised(s, got) \/ s.gap = "NONE" THEN AfterReads(s, got) ELSE C(got))
      PROVE  ResponseInv'
  <2>1. AfterReads(s, got) \in RunState /\ SoundRun(AfterReads(s, got), order)
      BY <1>2, QuietMove DEF AfterReads, IncidentStatuses, AfterExecution
  <2>2. C(got) \in RunState /\ SoundRun(C(got), order) BY <2>1 DEF RunState, SoundRun
  <2>3. library' \in SUBSET Evidence BY <1>1, <1>4 DEF Readable, Evidence
  <2>4. CASE Raised(s, got) \/ s.gap = "NONE"
      BY <1>1, <1>4, <2>1, <2>3, <2>4, SoundKept DEF ResolveProviderGap
  <2>5. CASE ~(Raised(s, got) \/ s.gap = "NONE")
      BY <1>1, <1>4, <2>2, <2>3, <2>5, SoundKept DEF ResolveProviderGap
  <2> QED BY <2>4, <2>5
<1> QED BY <1>3, <1>4 DEF ResolveProviderGap

LEMMA ImpactSound ==
    ASSUME ResponseInv, NEW p \in Coordinators, AssessImpact(p) PROVE ResponseInv'
<1>1. /\ desks[p] \in RunState /\ SoundRun(desks[p], order)
      /\ alerted \in BOOLEAN /\ library \in SUBSET Evidence
    BY AtDesk DEF AssessImpact
<1>2. /\ Moved(desks[p], "IMPACT_ASSESSED") \in RunState
      /\ SoundRun(Moved(desks[p], "IMPACT_ASSESSED"), order)
    BY <1>1, QuietMove DEF IncidentStatuses, AfterExecution
<1> QED BY <1>1, <1>2, SoundKept DEF AssessImpact

LEMMA ProposalSound ==
    ASSUME ResponseInv, NEW p \in Coordinators, BuildProposal(p) PROVE ResponseInv'
<1> DEFINE s == [desks[p] EXCEPT !.proposed = TRUE]
           r == IF MayBecome(s, "MITIGATION_PROPOSED") THEN [s EXCEPT !.status = "WAITING_REVIEW"] ELSE s
<1>1. /\ desks[p] \in RunState /\ SoundRun(desks[p], order)
      /\ alerted \in BOOLEAN /\ library \in SUBSET Evidence
    BY AtDesk DEF BuildProposal, Automatic
<1>2. s \in RunState /\ SoundRun(s, order) BY <1>1 DEF RunState, SoundRun
<1>3. /\ [s EXCEPT !.status = "WAITING_REVIEW"] \in RunState
      /\ SoundRun([s EXCEPT !.status = "WAITING_REVIEW"], order)
    BY <1>2 DEF RunState, SoundRun, AfterExecution, IncidentStatuses
<1>4. r \in RunState /\ SoundRun(r, order) BY <1>2, <1>3
<1>5. Keeps(p, r) BY DEF BuildProposal
<1> HIDE DEF r
<1> QED BY <1>1, <1>4, <1>5, SoundKept DEF BuildProposal

LEMMA ReviewSound ==
    ASSUME ResponseInv, NEW p \in Coordinators, PassReview(p) PROVE ResponseInv'
<1>1. /\ desks[p] \in RunState /\ SoundRun(desks[p], order)
      /\ alerted \in BOOLEAN /\ library \in SUBSET Evidence
    BY AtDesk DEF PassReview
<1>2. /\ Moved(desks[p], "WAITING_APPROVAL") \in RunState
      /\ SoundRun(Moved(desks[p], "WAITING_APPROVAL"), order)
    BY <1>1, QuietMove DEF IncidentStatuses, AfterExecution
<1> QED BY <1>1, <1>2, SoundKept DEF PassReview

LEMMA ApproveSound ==
    ASSUME ResponseInv, Approve PROVE ResponseInv'
<1>1. ResponseTypeOK' BY DEF Approve, ResponseInv, ResponseTypeOK
<1>2. Runs' = Runs BY DEF Approve, Runs, AtWork
<1> QED BY <1>1, <1>2 DEF Approve, ResponseInv, SoundOrder, RolledBackOnce

LEMMA HourSound ==
    ASSUME ResponseInv, HourPasses PROVE ResponseInv'
<1>1. ResponseTypeOK' BY DEF HourPasses, ResponseInv, ResponseTypeOK
<1>2. Runs' = Runs BY DEF HourPasses, Runs, AtWork
<1> QED BY <1>1, <1>2 DEF HourPasses, ResponseInv, SoundOrder, RolledBackOnce

LEMMA AtMostOne == \A r \in {0, 1} : r + 0 <= 1
    OBVIOUS

\* The orchestrator's receipt when no request is under way.
LEMMA Grounded ==
    ASSUME ~flying', rollbacks' \in {0, 1}, order' = "NONE" => rollbacks' = 0,
           order' \in Executed => rollbacks' = 1
    PROVE  SoundOrder'
<1>1. (IF flying' THEN 1 ELSE 0) = 0 OBVIOUS
<1>2. rollbacks' + 0 <= 1 BY AtMostOne, Zenon
<1>3. RolledBackOnce' BY <1>1, <1>2, Zenon DEF RolledBackOnce
<1> QED BY <1>3 DEF SoundOrder

\* The request that lands, or is lost, is the only one there was.
LEMMA LandSound ==
    ASSUME ResponseInv, Land PROVE ResponseInv'
<1>1. rollbacks = 0 /\ order # "NONE" /\ order \notin Executed
    BY DEF Land, ResponseInv, SoundOrder, RolledBackOnce, ResponseTypeOK
<1>2. rollbacks' \in {0, 1} /\ order' = order BY <1>1 DEF Land
<1>6. flying' = FALSE BY DEF Land
<1>7. ~flying' BY <1>6, Zenon
<1>3. ResponseTypeOK'
  <2>1. flying' \in BOOLEAN BY <1>6
  <2>2. rollbacks' \in Nat BY <1>2
  <2> QED BY <2>1, <2>2 DEF Land, ResponseInv, ResponseTypeOK
<1>4. SoundOrder' BY <1>1, <1>2, <1>7, Grounded
<1>5. Runs' = Runs BY DEF Land, Runs, AtWork
<1> QED BY <1>3, <1>4, <1>5 DEF Land, ResponseInv

\* A step of the orchestrator keeps the copies sound when it forgets no execution.
LEMMA OrderSound ==
    ASSUME ResponseInv, NEW p \in Coordinators, NEW s \in RunState, Keeps(p, s),
           UNCHANGED <<alerted, saved, library, grant, hour>>,
           order' \in ReceiptStatuses, flying' \in BOOLEAN, rollbacks' \in Nat,
           SoundOrder', SoundRun(s, order'), order \in Executed => order' \in Executed
    PROVE  ResponseInv'
<1>1. /\ desks' \in [Coordinators -> RunState \cup {NoState}]
      /\ desks'[p] = s /\ \A q \in Coordinators \ {p} : desks'[q] = desks[q]
    BY KeepsType DEF ResponseInv, ResponseTypeOK
<1>2. ResponseTypeOK' BY <1>1 DEF ResponseInv, ResponseTypeOK
<1>3. Runs' \subseteq Runs \cup {s} BY <1>1 DEF Runs, AtWork
<1>4. \A t \in Runs' : SoundRun(t, order')
    BY <1>3 DEF ResponseInv, SoundRun
<1> QED BY <1>2, <1>4 DEF ResponseInv

LEMMA ExecuteSound ==
    ASSUME ResponseInv, NEW p \in Coordinators, ExecuteMitigation(p) PROVE ResponseInv'
<1> DEFINE s == Counted(desks[p])
           done == [s EXCEPT !.status = "VERIFYING", !.receipt = "SUCCEEDED"]
           unknown == [s EXCEPT !.status = "DEGRADED", !.receipt = "UNKNOWN_OUTCOME"]
<1>1. /\ desks[p] \in RunState /\ SoundRun(desks[p], order)
      /\ desks[p].proposed /\ desks[p].attempts < MitigationLimit
      /\ alerted \in BOOLEAN /\ library \in SUBSET Evidence
    BY AtDesk DEF ExecuteMitigation, Automatic
<1>2. order = "NONE" /\ rollbacks = 0 /\ ~flying
    BY DEF ExecuteMitigation, KnownOrder, ResponseInv, SoundOrder
<1>3. /\ s \in RunState /\ SoundRun(s, order) /\ s.proposed /\ s.attempts > 0
    BY <1>1, ResponseAssumption
    DEF Counted, RunState, SoundRun, AfterExecution, IncidentStatuses
<1>4. CASE Keeps(p, s) /\ UNCHANGED <<order, flying, rollbacks>>
    BY <1>1, <1>3, <1>4, SoundKept DEF ExecuteMitigation
<1>5. CASE /\ Keeps(p, done) /\ order' = "SUCCEEDED" /\ rollbacks' = rollbacks + 1
           /\ UNCHANGED flying
  <2>1. done \in RunState /\ SoundRun(done, order')
      BY <1>3, <1>5 DEF RunState, SoundRun, AfterExecution, IncidentStatuses, ReceiptStatuses, Executed
  <2>2. /\ rollbacks' = 1 /\ order' # "NONE" /\ order' \in ReceiptStatuses
      BY <1>2, <1>5 DEF ReceiptStatuses
  <2>3. ~flying'
    <3>1. flying' = flying BY <1>5
    <3>2. ~flying BY <1>2
    <3> QED BY <3>1, <3>2, Zenon
  <2>4. SoundOrder' BY <2>2, <2>3, Grounded
  <2>5. flying' \in BOOLEAN /\ rollbacks' \in Nat
    <3>1. flying' = flying BY <1>5
    <3>2. flying \in BOOLEAN BY DEF ResponseInv, ResponseTypeOK
    <3>3. rollbacks' \in Nat BY <2>2
    <3> QED BY <3>1, <3>2, <3>3, Zenon
  <2> QED BY <1>2, <1>5, <2>1, <2>2, <2>4, <2>5, OrderSound DEF ExecuteMitigation, Executed
<1>6. CASE /\ Keeps(p, unknown) /\ order' = "UNKNOWN_OUTCOME" /\ flying' = TRUE
           /\ UNCHANGED rollbacks
  <2>1. unknown \in RunState /\ SoundRun(unknown, order')
      BY <1>3, <1>6 DEF RunState, SoundRun, AfterExecution, IncidentStatuses, ReceiptStatuses, Executed
  <2>2. /\ SoundOrder' /\ rollbacks' \in Nat /\ flying' \in BOOLEAN
        /\ order' \in ReceiptStatuses
      BY <1>2, <1>6 DEF SoundOrder, RolledBackOnce, Executed, ReceiptStatuses
  <2> QED BY <1>2, <1>6, <2>1, <2>2, OrderSound DEF ExecuteMitigation, Executed
<1> QED BY <1>4, <1>5, <1>6 DEF ExecuteMitigation

LEMMA ReconcileSound ==
    ASSUME ResponseInv, NEW p \in Coordinators, ReconcileOutcome(p) PROVE ResponseInv'
<1> DEFINE found == IF rollbacks > 0 THEN "RECONCILED" ELSE "FAILED"
           to == IF found = "RECONCILED" THEN "VERIFYING" ELSE "ESCALATED"
           s == [desks[p] EXCEPT !.receipt = found]
<1>1. /\ desks[p] \in RunState /\ SoundRun(desks[p], order)
      /\ alerted \in BOOLEAN /\ library \in SUBSET Evidence
    BY AtDesk DEF ReconcileOutcome
<1>2. /\ order \in ReceiptStatuses /\ flying \in BOOLEAN /\ rollbacks \in Nat
      /\ rollbacks <= 1
      /\ order \in Executed => rollbacks = 1
      /\ rollbacks = 1 => ~flying
      /\ order = "NONE" => rollbacks = 0 /\ ~flying
    BY DEF ResponseInv, ResponseTypeOK, SoundOrder, RolledBackOnce
<1>3. order' = found /\ order' \in ReceiptStatuses /\ found # "NONE"
    BY DEF ReconcileOutcome, ReceiptStatuses
<1>4. SoundOrder'
  <2>1. flying' = flying /\ rollbacks' = rollbacks BY DEF ReconcileOutcome
  <2>2. RolledBackOnce' BY <2>1, Zenon DEF ResponseInv, SoundOrder, RolledBackOnce
  <2>3. order' \in Executed => rollbacks' = 1 BY <1>2, <1>3, <2>1 DEF Executed
  <2> QED BY <1>3, <2>2, <2>3 DEF SoundOrder
<1>5. order \in Executed => order' \in Executed
    BY <1>2, <1>3 DEF Executed
<1>6. s \in RunState /\ SoundRun(s, order')
    BY <1>1, <1>2, <1>3 DEF SoundRun, RunState, ReceiptStatuses, Executed
<1>7. Moved(s, to) \in RunState /\ SoundRun(Moved(s, to), order')
  <2>1. CASE to = "ESCALATED"
      BY <1>6, <2>1, QuietMove DEF IncidentStatuses, Over, AfterExecution
  <2>2. CASE to = "VERIFYING" /\ ~MayBecome(s, "VERIFYING")
      BY <1>6, <2>2 DEF Moved
  <2>3. CASE to = "VERIFYING" /\ MayBecome(s, "VERIFYING")
    <3>1. s.status \in AfterExecution
        BY <2>3 DEF MayBecome, Steps, AfterExecution, InHands
    <3>2. Moved(s, to) = [s EXCEPT !.status = "VERIFYING"] BY <2>3 DEF Moved
    <3>3. [s EXCEPT !.status = "VERIFYING"] \in RunState
        BY <1>6 DEF RunState, IncidentStatuses
    <3>4. SoundRun([s EXCEPT !.status = "VERIFYING"], order')
        BY <1>6, <3>1 DEF SoundRun, RunState, AfterExecution
    <3> QED BY <3>2, <3>3, <3>4
  <2> QED BY <2>1, <2>2, <2>3
<1>8. Keeps(p, Moved(s, to)) BY DEF ReconcileOutcome
<1> HIDE DEF s, to, found
<1> QED BY <1>2, <1>3, <1>4, <1>5, <1>7, <1>8, OrderSound DEF ReconcileOutcome

LEMMA VerifySound ==
    ASSUME ResponseInv, NEW p \in Coordinators, VerifyRecovery(p) PROVE ResponseInv'
<1>1. /\ desks[p] \in RunState /\ SoundRun(desks[p], order)
      /\ desks[p].receipt \in Executed
      /\ alerted \in BOOLEAN /\ library \in SUBSET Evidence
    BY AtDesk DEF VerifyRecovery, Automatic
<1> DEFINE v(result) == [desks[p] EXCEPT !.verified = result]
<1>2. PICK result \in {"PASS", "FAIL"} :
        Keeps(p, Moved(v(result), IF result = "PASS" THEN "RESOLVED" ELSE "EVIDENCE_INCOMPLETE"))
    BY DEF VerifyRecovery
<1> DEFINE s == v(result)
<1>3. /\ s \in RunState /\ SoundRun(s, order)
      /\ s.receipt \in Executed /\ s.verified # "NONE"
    BY <1>1 DEF RunState, SoundRun
<1>4. CASE result = "FAIL"
  <2>1. /\ Moved(s, "EVIDENCE_INCOMPLETE") \in RunState
        /\ SoundRun(Moved(s, "EVIDENCE_INCOMPLETE"), order)
      BY <1>3, QuietMove DEF IncidentStatuses, AfterExecution
  <2> QED BY <1>1, <1>2, <1>4, <2>1, SoundKept DEF VerifyRecovery
<1>5. CASE result = "PASS"
  <2>1. Moved(s, "RESOLVED") \in RunState /\ SoundRun(Moved(s, "RESOLVED"), order)
    <3>1. CASE ~MayBecome(s, "RESOLVED") BY <1>3, <3>1 DEF Moved
    <3>2. CASE MayBecome(s, "RESOLVED")
      <4>1. s.status \in AfterExecution
          BY <3>2 DEF MayBecome, Steps, AfterExecution, InHands
      <4> QED BY <1>3, <3>2, <4>1
          DEF Moved, SoundRun, RunState, AfterExecution, IncidentStatuses, Over
    <3> QED BY <3>1, <3>2
  <2> QED BY <1>1, <1>2, <1>5, <2>1, SoundKept DEF VerifyRecovery
<1> QED BY <1>4, <1>5

LEMMA TakeOverSound ==
    ASSUME ResponseInv, NEW p \in Coordinators, TakeOver(p) PROVE ResponseInv'
<1>1. /\ desks[p] \in RunState /\ SoundRun(desks[p], order)
      /\ alerted \in BOOLEAN /\ library \in SUBSET Evidence
    BY AtDesk DEF TakeOver
<1>2. PICK status \in InHands : Keeps(p, Moved(desks[p], status)) BY DEF TakeOver
<1>3. Moved(desks[p], status) \in RunState /\ SoundRun(Moved(desks[p], status), order)
    BY <1>1, QuietMove DEF InHands, IncidentStatuses, Over, AfterExecution
<1> QED BY <1>1, <1>2, <1>3, SoundKept DEF TakeOver


(* ------------------------------- theorems ------------------------------ *)

LEMMA ResponseInvInit == IncidentInit => ResponseInv
<1> SUFFICES ASSUME IncidentInit PROVE ResponseInv
    OBVIOUS
<1>1. order = "NONE" /\ flying = FALSE /\ rollbacks = 0 /\ saved = NoState BY DEF IncidentInit
<1>2. ResponseTypeOK
    BY DEF IncidentInit, ResponseTypeOK, ReceiptStatuses
<1>3. SoundOrder
  <2>1. (IF flying THEN 1 ELSE 0) = 0 BY <1>1, Zenon
  <2>2. RolledBackOnce BY <1>1, <2>1, AtMostOne, Zenon DEF RolledBackOnce
  <2> QED BY <1>1, <2>2 DEF SoundOrder, Executed
<1>4. Runs = {} BY DEF IncidentInit, Runs, AtWork
<1> QED BY <1>2, <1>3, <1>4 DEF ResponseInv

LEMMA ResponseInvNext == ResponseInv /\ [ResponseNext]_responseVars => ResponseInv'
<1> SUFFICES ASSUME ResponseInv, [ResponseNext]_responseVars PROVE ResponseInv'
    OBVIOUS
<1>1. CASE UNCHANGED responseVars
    BY <1>1 DEF responseVars, ResponseInv, ResponseTypeOK, SoundOrder, RolledBackOnce, Runs, AtWork
<1>2. ASSUME NEW p \in Coordinators, ByCoordinator(p) PROVE ResponseInv'
    BY <1>2, AdmitSound, LeaseSound, SaveSound, InvestigationSound, GapSound, ImpactSound,
       ProposalSound, ReviewSound, ExecuteSound, ReconcileSound, VerifySound, TakeOverSound
    DEF ByCoordinator
<1>3. ASSUME NEW p \in Coordinators, LoadState(p) PROVE ResponseInv'
    BY <1>3, LoadSound
<1> QED BY <1>1, <1>2, <1>3, ApproveSound, LandSound, HourSound DEF ResponseNext

\* Every reachable state is well typed and every copy of the run agrees with
\* the orchestrator: the invariant the theorems below follow from.
THEOREM CopiesAgree == ResponseSpec => []ResponseInv
    BY ResponseInvInit, ResponseInvNext, PTL DEF ResponseSpec

\* One rollback at most, and a resolution only where it was one, whatever
\* copies of the run are kept, lost, saved or loaded (execute_mitigation,
\* reconcile_unknown_outcome, verify_recovery).
THEOREM RollbackSettled == ResponseSpec => []RollbackIsSettled
<1>1. ResponseInv => RollbackIsSettled
    BY DEF ResponseInv, SoundOrder, SoundRun, AfterExecution, RollbackIsSettled,
           ResolvedMeansRolledBack
<1> QED BY <1>1, CopiesAgree, PTL


(* ---------------------------- a person's control ----------------------- *)

\* What stays as it was, of a run a person has.
Untouched(s, t) ==
    /\ t.status = s.status /\ t.gap = s.gap /\ t.replans = s.replans
    /\ t.proposed = s.proposed /\ t.attempts = s.attempts /\ t.verified = s.verified

\* Only the lease, a transition that is refused and the receipt of a
\* reconciliation are open to a coordinator whose run a person has.
LEMMA InHandsUntouched ==
    ASSUME ResponseTypeOK, NEW p \in Coordinators, AtWork(p), desks[p].status \in InHands,
           ByCoordinator(p)
    PROVE  Untouched(desks[p], desks'[p])
<1>1. desks[p] \in RunState BY RunTypes
<1>2. \A s \in RunState : Keeps(p, s) => desks'[p] = s
    BY DEF Keeps, ResponseTypeOK
<1>3. ~AdmitAlert(p) /\ ~InitialInvestigation(p) /\ ~ResolveProviderGap(p) /\ ~BuildProposal(p)
      /\ ~ExecuteMitigation(p) /\ ~VerifyRecovery(p)
    BY DEF AdmitAlert, InitialInvestigation, ResolveProviderGap, BuildProposal,
           ExecuteMitigation, VerifyRecovery, Automatic
<1>4. CASE AcquireLease(p)
  <2> DEFINE s == [desks[p] EXCEPT !.leader = p, !.until = hour + LeaseSpan]
  <2>1. hour + LeaseSpan \in Nat BY ResponseAssumption DEF ResponseTypeOK
  <2>2. s \in RunState /\ Untouched(desks[p], s) BY <1>1, <2>1 DEF RunState, Untouched
  <2> QED BY <1>2, <1>4, <2>2 DEF AcquireLease
<1>5. CASE SaveState(p)
    BY <1>5 DEF SaveState, Untouched
<1>6. CASE AssessImpact(p) \/ PassReview(p) \/ TakeOver(p)
  <2>1. Keeps(p, desks[p]) BY <1>1, <1>6, HandsHold DEF AssessImpact, PassReview, TakeOver
  <2> QED BY <1>1, <1>2, <2>1 DEF Untouched
<1>7. CASE ReconcileOutcome(p)
  <2> DEFINE found == IF rollbacks > 0 THEN "RECONCILED" ELSE "FAILED"
             s == [desks[p] EXCEPT !.receipt = found]
  <2>1. s \in RunState /\ s.status \in InHands /\ Untouched(desks[p], s)
      BY <1>1 DEF RunState, ReceiptStatuses, Untouched
  <2>2. Keeps(p, s) BY <1>7, <2>1, HandsHold DEF ReconcileOutcome
  <2> QED BY <1>2, <2>1, <2>2
<1> QED BY <1>3, <1>4, <1>5, <1>6, <1>7 DEF ByCoordinator

\* Another coordinator's step is not seen on this one's desk.
LEMMA ElsewhereUntouched ==
    ASSUME ResponseTypeOK, NEW p \in Coordinators, NEW q \in Coordinators, p # q,
           ByCoordinator(q) \/ LoadState(q)
    PROVE  desks'[p] = desks[p]
<1>1. \A s : Keeps(q, s) => desks'[p] = desks[p] BY DEF Keeps, ResponseTypeOK
<1>2. CASE LoadState(q) BY <1>1, <1>2 DEF LoadState
<1>3. CASE AdmitAlert(q) BY <1>1, <1>3 DEF AdmitAlert
<1>4. CASE AcquireLease(q) BY <1>1, <1>4 DEF AcquireLease
<1>5. CASE SaveState(q) BY <1>5 DEF SaveState
<1>6. CASE InitialInvestigation(q) BY <1>1, <1>6 DEF InitialInvestigation
<1>7. CASE ResolveProviderGap(q) BY <1>1, <1>7 DEF ResolveProviderGap
<1>8. CASE AssessImpact(q) BY <1>1, <1>8 DEF AssessImpact
<1>9. CASE BuildProposal(q) BY <1>1, <1>9 DEF BuildProposal
<1>10. CASE PassReview(q) BY <1>1, <1>10 DEF PassReview
<1>11. CASE ExecuteMitigation(q) BY <1>1, <1>11 DEF ExecuteMitigation
<1>12. CASE ReconcileOutcome(q) BY <1>1, <1>12 DEF ReconcileOutcome
<1>13. CASE VerifyRecovery(q) BY <1>1, <1>13 DEF VerifyRecovery
<1>14. CASE TakeOver(q) BY <1>1, <1>14 DEF TakeOver
<1> QED BY <1>2, <1>3, <1>4, <1>5, <1>6, <1>7, <1>8, <1>9, <1>10, <1>11, <1>12, <1>13, <1>14
    DEF ByCoordinator

\* Once a person has the incident, no coordinator reads, plans, executes,
\* verifies or takes it back, except one started again from an older file
\* (README.md, "Durable recovery and manual control").
THEOREM PersonKeeps == ResponseSpec => PersonKeepsControl
<1>1. ASSUME ResponseInv, [ResponseNext]_responseVars, NEW p \in Coordinators,
             AtWork(p), desks[p].status \in InHands, desks'[p] # saved
      PROVE  Untouched(desks[p], desks'[p])
  <2>1. ResponseTypeOK BY <1>1 DEF ResponseInv
  <2>2. CASE desks'[p] = desks[p] BY <2>2 DEF Untouched
  <2>3. CASE Approve \/ Land \/ HourPasses \/ UNCHANGED responseVars
      BY <2>2, <2>3 DEF Approve, Land, HourPasses, responseVars
  <2>4. ASSUME NEW q \in Coordinators, ByCoordinator(q) \/ LoadState(q)
        PROVE  Untouched(desks[p], desks'[p])
    <3>1. CASE q # p BY <2>1, <2>2, <2>4, <3>1, ElsewhereUntouched
    <3>2. CASE q = p
      <4>1. ~LoadState(p)
          BY <1>1, <2>1 DEF LoadState, Keeps, ResponseTypeOK
      <4> QED BY <1>1, <2>1, <2>4, <3>2, <4>1, InHandsUntouched
    <3> QED BY <3>1, <3>2
  <2> QED BY <1>1, <2>3, <2>4 DEF ResponseNext
<1>2. ResponseInv /\ [ResponseNext]_responseVars
      => [\A p \in Coordinators :
            (AtWork(p) /\ desks[p].status \in InHands /\ desks'[p] # saved) =>
               LET before == desks[p]
                   after == desks'[p] IN
               /\ after.status = before.status /\ after.gap = before.gap
               /\ after.replans = before.replans /\ after.proposed = before.proposed
               /\ after.attempts = before.attempts /\ after.verified = before.verified]_responseVars
    BY <1>1 DEF Untouched
<1> QED BY <1>2, CopiesAgree, PTL DEF ResponseSpec, PersonKeepsControl

=============================================================================
