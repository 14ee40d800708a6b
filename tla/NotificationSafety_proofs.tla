---------------------- MODULE NotificationSafety_proofs ----------------------
(***************************************************************************)
(* Theorems about NotificationSafety for any deliverers, sweepers,         *)
(* notifications, roles and bounds.  The argument: a delivery takes the    *)
(* attempt number after the count it has read, so a worker that read the   *)
(* row before somebody else's attempt finds its number taken.  At any time *)
(* at most one process is between a recorded attempt and the update of its *)
(* row, and it holds the last number; a hit is therefore the last attempt. *)
(***************************************************************************)
EXTENDS NotificationSafety, TLAPS

Delivering == {"sending", "fallback", "finishing", "deferring"}
Holding == {"fallback", "finishing"}
Behind == {"sending", "deferring"}

\* A process in a call knows its row, and has an attempt left if it makes one.
ProcsTyped ==
    \A p \in Procs :
        /\ procs[p].pc \in Delivering \cup {"saving", "loading", "marking"}
              => procs[p].note \in Notes
        /\ procs[p].pc \in {"saving", "loading", "marking"} => procs[p].note \in RoleSet
        /\ procs[p].pc \in Delivering /\ procs[p].rows # {} => procs[p].note \in RoleSet
        /\ procs[p].pc = "deferring" => procs[p].note \in Low
        /\ procs[p].pc \in {"sending", "fallback"} => procs[p].number < MaxAttempts

Hit(n, i) == attempts[n][i] \in Reached

\* The attempts of a row leave no gap, a hit is the last, and the row's count
\* and receipt fit them.
RowsAgree ==
    \A n \in Notes :
        /\ \A i, j \in 1..MaxAttempts : j <= i /\ Taken(n, i) => Taken(n, j)
        /\ \A i, j \in 1..MaxAttempts : i < j /\ Hit(n, i) => ~Taken(n, j)
        /\ notes[n].count # 0 => Taken(n, notes[n].count)
        /\ \A i \in 1..MaxAttempts :
              Hit(n, i) /\ notes[n].count = i => notes[n].receipt \in Reached \cup {"RECONCILED"}
        /\ n \notin Low /\ notes[n].receipt \in Reached \cup {"RECONCILED"}
              => notes[n].count # 0 /\ Hit(n, notes[n].count)

\* What a process has read or made fits the attempts of its row.
ProcsAgree ==
    \A p \in Procs :
        LET n == procs[p].note
            k == procs[p].number IN
        /\ procs[p].pc \in Delivering /\ k # 0 => Taken(n, k)
        /\ procs[p].pc \in Behind => \A i \in 1..MaxAttempts : Hit(n, i) => k < i
        /\ procs[p].pc \in Holding =>
              /\ k # 0 /\ attempts[n][k] = procs[p].outcome
              /\ notes[n].count < k
              /\ \A j \in 1..MaxAttempts : k < j => ~Taken(n, j)
        /\ procs[p].pc = "fallback" => procs[p].outcome = "TRANSIENT_FAILURE"
        /\ procs[p].pc = "marking" => \E i \in 1..MaxAttempts : Hit(n, i)

\* One process at most holds a row's last attempt; the others have read less.
OneHolds ==
    \A p, q \in Procs :
        p # q /\ procs[p].note = procs[q].note /\ procs[p].pc \in Holding =>
            /\ procs[q].pc \notin Holding
            /\ procs[q].pc \in Behind => procs[q].number < procs[p].number

SentAgrees == \A r \in RoleSet : escalations[r] = "SENT" => \E i \in 1..MaxAttempts : Hit(r, i)

Agree == RowsAgree /\ ProcsAgree /\ OneHolds /\ SentAgrees

IInv == TypeOK /\ ProcsTyped /\ Agree

-----------------------------------------------------------------------------
\* Types.

LEMMA GotoType ==
    ASSUME TypeOK, ProcsTyped, NEW p \in Procs, NEW s \in ProcState, Goto(p, s),
           s.pc \in Delivering \cup {"saving", "loading", "marking"} => s.note \in Notes,
           s.pc \in {"saving", "loading", "marking"} => s.note \in RoleSet,
           s.pc \in Delivering /\ s.rows # {} => s.note \in RoleSet,
           s.pc = "deferring" => s.note \in Low,
           s.pc \in {"sending", "fallback"} => s.number < MaxAttempts
    PROVE  procs' \in [Procs -> ProcState] /\ ProcsTyped'
<1>1. procs \in [Procs -> ProcState]
    BY DEF TypeOK
<1>2. procs' \in [Procs -> ProcState] /\ \A q \in Procs : procs'[q] = IF q = p THEN s ELSE procs[q]
    BY <1>1 DEF Goto
<1> QED BY <1>2 DEF ProcsTyped

LEMMA IdleType == Idle \in ProcState /\ Idle.pc = "idle" /\ Idle.note = NoNote /\ Idle.rows = {}
    BY DeliveryAssumption DEF Idle, At, ProcState, Outcomes

LEMMA GoIdleType ==
    ASSUME TypeOK, ProcsTyped, NEW p \in Procs, Goto(p, Idle)
    PROVE  procs' \in [Procs -> ProcState] /\ ProcsTyped'
    BY IdleType, GotoType DEF Delivering

LEMMA NextRowType ==
    ASSUME TypeOK, ProcsTyped, NEW p \in Procs, NEW r, NextRow(p, r)
    PROVE  procs' \in [Procs -> ProcState] /\ ProcsTyped'
<1> DEFINE rest == procs[p].rows \ {r}
           s == At("sweeping", NoNote, rest, 0, "NONE")
<1>1. procs[p] \in ProcState
    BY DEF TypeOK
<1>2. s \in ProcState /\ s.pc = "sweeping"
    BY <1>1, DeliveryAssumption DEF At, ProcState, Outcomes
<1>3. Goto(p, Idle) \/ Goto(p, s)
    BY DEF NextRow
<1> HIDE DEF s
<1> QED BY <1>2, <1>3, GotoType, GoIdleType DEF Delivering

LEMMA LoadType ==
    ASSUME TypeOK, ProcsTyped, NEW p \in Procs, NEW n \in Notes, NEW rows \in SUBSET RoleSet,
           rows # {} => n \in RoleSet, Load(p, n, rows)
    PROVE  procs' \in [Procs -> ProcState] /\ ProcsTyped'
<1> DEFINE s == At("sending", n, rows, notes[n].count, "NONE")
           t == At("deferring", n, rows, notes[n].count, "NONE")
<1>1. notes[n].count \in 0..MaxAttempts
    BY DEF TypeOK
<1>2. /\ s \in ProcState /\ s.pc = "sending" /\ s.note = n /\ s.rows = rows
      /\ s.number = notes[n].count
    BY <1>1 DEF At, ProcState, Outcomes
<1>3. t \in ProcState /\ t.pc = "deferring" /\ t.note = n /\ t.rows = rows
    BY <1>1 DEF At, ProcState, Outcomes
<1>4. (notes[n].count < MaxAttempts /\ Goto(p, s)) \/ (n \in Low /\ Goto(p, t))
    BY DEF Load
<1> HIDE DEF s, t
<1>5. CASE notes[n].count < MaxAttempts /\ Goto(p, s)
    BY <1>2, <1>5, GotoType DEF Delivering
<1>6. CASE n \in Low /\ Goto(p, t)
    BY <1>3, <1>6, GotoType DEF Delivering
<1> QED BY <1>4, <1>5, <1>6

LEMMA InitType == Init => TypeOK /\ ProcsTyped
<1> SUFFICES ASSUME Init PROVE TypeOK /\ ProcsTyped
    OBVIOUS
<1>1. procs \in [Procs -> ProcState] /\ ProcsTyped
    BY IdleType DEF Init, ProcsTyped, Delivering
<1>2. Len(Roles) \in Nat /\ 0 \in 0..Len(Roles)
    BY DeliveryAssumption
<1> QED BY <1>1, <1>2, DeliveryAssumption
        DEF Init, TypeOK, Absent, NotClosing, Outcomes, Receipts, NoteStatus

LEMMA DeliverType ==
    ASSUME TypeOK, ProcsTyped, NEW p \in Procs, NEW n \in Notes, Deliver(p, n)
    PROVE  TypeOK' /\ ProcsTyped'
<1>1. procs' \in [Procs -> ProcState] /\ ProcsTyped'
    BY LoadType DEF Deliver
<1> QED BY <1>1 DEF Deliver, TypeOK

LEMMA AttemptType ==
    ASSUME TypeOK, ProcsTyped, NEW p \in Procs, Attempt(p)
    PROVE  TypeOK' /\ ProcsTyped'
<1> DEFINE n == procs[p].note
           number == procs[p].number + 1
<1>1. /\ procs[p] \in ProcState /\ n \in Notes /\ procs[p].number < MaxAttempts
      /\ procs[p].rows # {} => n \in RoleSet
    BY DEF TypeOK, ProcsTyped, Attempt, Delivering
<1>2. number \in 1..MaxAttempts
    BY <1>1, DeliveryAssumption DEF ProcState
<1>3. CASE Goto(p, Idle) /\ UNCHANGED attempts
  <2>1. procs' \in [Procs -> ProcState] /\ ProcsTyped'
    BY <1>3, GoIdleType
  <2> QED BY <1>3, <2>1 DEF Attempt, TypeOK
<1>4. CASE \E outcome \in Outcomes :
              /\ attempts' = [attempts EXCEPT ![n][number] = outcome]
              /\ Goto(p, At(IF FallsBack(p, outcome) THEN "fallback" ELSE "finishing",
                            n, procs[p].rows, number, outcome))
  <2>1. PICK outcome \in Outcomes :
              /\ attempts' = [attempts EXCEPT ![n][number] = outcome]
              /\ Goto(p, At(IF FallsBack(p, outcome) THEN "fallback" ELSE "finishing",
                            n, procs[p].rows, number, outcome))
    BY <1>4
  <2> DEFINE s == At(IF FallsBack(p, outcome) THEN "fallback" ELSE "finishing",
                     n, procs[p].rows, number, outcome)
  <2>2. /\ s \in ProcState /\ s.pc \in Holding /\ s.note = n /\ s.rows = procs[p].rows
        /\ s.number = number
        /\ s.pc = "fallback" => number < MaxAttempts
    BY <1>1, <1>2 DEF At, ProcState, Holding, FallsBack
  <2>3. procs' \in [Procs -> ProcState] /\ ProcsTyped'
    <3>1. Goto(p, s)
      BY <2>1
    <3> HIDE DEF s
    <3> QED BY <1>1, <2>2, <3>1, GotoType DEF Holding, Delivering
  <2>4. attempts' \in [Notes -> [1..MaxAttempts -> Outcomes \cup {"NONE"}]]
    BY <1>1, <1>2, <2>1 DEF TypeOK
  <2> QED BY <2>3, <2>4 DEF Attempt, TypeOK
<1> QED BY <1>3, <1>4 DEF Attempt

LEMMA RowAfterType ==
    ASSUME NEW number \in 0..MaxAttempts, NEW outcome \in Outcomes \cup {"NONE"}
    PROVE  /\ RowAfter(number, outcome) \in
                 [status: NoteStatus, count: 0..MaxAttempts, receipt: Receipts]
           /\ RowAfter(number, outcome).count = number
    BY DEF RowAfter, NoteStatus, Receipts, Outcomes

LEMMA FinishType ==
    ASSUME TypeOK, ProcsTyped, NEW p \in Procs, Finish(p)
    PROVE  TypeOK' /\ ProcsTyped'
<1> DEFINE n == procs[p].note
           row == RowAfter(procs[p].number, procs[p].outcome)
           s == At("marking", n, procs[p].rows, 0, "NONE")
<1>1. /\ procs[p] \in ProcState /\ n \in Notes
      /\ procs[p].rows # {} => n \in RoleSet
    BY DEF TypeOK, ProcsTyped, Finish, Delivering
<1>2. row \in [status: NoteStatus, count: 0..MaxAttempts, receipt: Receipts]
    BY <1>1, RowAfterType DEF ProcState
<1>3. s \in ProcState /\ s.pc = "marking" /\ s.note = n
    BY <1>1, DeliveryAssumption DEF At, ProcState, Outcomes
<1>4. procs' \in [Procs -> ProcState] /\ ProcsTyped'
  <2>1. \/ Goto(p, Idle)
        \/ procs[p].rows # {} /\ Goto(p, s)
        \/ NextRow(p, n)
    BY DEF Finish
  <2> HIDE DEF s
  <2>2. CASE procs[p].rows # {} /\ Goto(p, s)
    BY <1>1, <1>3, <2>2, GotoType DEF Delivering
  <2> QED BY <2>1, <2>2, GoIdleType, NextRowType
<1>5. notes' \in [Notes -> [status: NoteStatus, count: 0..MaxAttempts, receipt: Receipts]]
    BY <1>1, <1>2 DEF TypeOK, Finish
<1>6. deadLetters' \subseteq Notes
    BY <1>1 DEF TypeOK, Finish
<1> QED BY <1>4, <1>5, <1>6 DEF Finish, TypeOK

LEMMA DeferType ==
    ASSUME TypeOK, ProcsTyped, NEW p \in Procs, Defer(p)
    PROVE  TypeOK' /\ ProcsTyped'
<1>1. procs' \in [Procs -> ProcState] /\ ProcsTyped'
    BY GoIdleType DEF Defer
<1>2. notes' \in [Notes -> [status: NoteStatus, count: 0..MaxAttempts, receipt: Receipts]]
    BY DEF TypeOK, Defer, ProcState, NoteStatus, Receipts
<1> QED BY <1>1, <1>2 DEF Defer, TypeOK

LEMMA SweepType ==
    ASSUME TypeOK, ProcsTyped, NEW p \in Procs, Sweep(p)
    PROVE  TypeOK' /\ ProcsTyped'
<1> DEFINE rows == {r \in {Roles[i] : i \in 1..due} : Scheduled(r)}
           s == At("sweeping", NoNote, rows, 0, "NONE")
<1>1. rows \subseteq RoleSet
  <2>1. Len(Roles) \in Nat /\ due \in 0..Len(Roles)
    BY DeliveryAssumption DEF TypeOK
  <2>2. 1..due \subseteq 1..Len(Roles)
    BY <2>1
  <2> QED BY <2>2 DEF RoleSet
<1>2. s \in ProcState /\ s.pc = "sweeping"
    BY <1>1, DeliveryAssumption DEF At, ProcState, Outcomes
<1>3. Goto(p, s)
    BY DEF Sweep
<1> HIDE DEF s
<1>4. procs' \in [Procs -> ProcState] /\ ProcsTyped'
    BY <1>2, <1>3, GotoType DEF Delivering
<1> QED BY <1>4 DEF Sweep, TypeOK

LEMMA CancelType ==
    ASSUME TypeOK, CancelScheduled
    PROVE  escalations' \in [RoleSet -> {"ABSENT", "SCHEDULED", "CANCELLED", "SENT"}]
    BY DEF TypeOK, CancelScheduled

LEMMA CheckRowType ==
    ASSUME TypeOK, ProcsTyped, NEW p \in Procs, CheckRow(p)
    PROVE  TypeOK' /\ ProcsTyped'
<1>1. PICK r \in procs[p].rows :
          \/ CancelScheduled /\ NextRow(p, r)
          \/ Goto(p, At("saving", r, procs[p].rows, 0, "NONE")) /\ UNCHANGED escalations
    BY DEF CheckRow
<1>2. r \in RoleSet /\ procs[p] \in ProcState
    BY DEF TypeOK, ProcState
<1>3. CASE CancelScheduled /\ NextRow(p, r)
    BY <1>3, CancelType, NextRowType DEF CheckRow, TypeOK
<1>4. CASE Goto(p, At("saving", r, procs[p].rows, 0, "NONE")) /\ UNCHANGED escalations
  <2> DEFINE s == At("saving", r, procs[p].rows, 0, "NONE")
  <2>1. s \in ProcState /\ s.pc = "saving" /\ s.note = r
    BY <1>2, DeliveryAssumption DEF At, ProcState, Outcomes, Notes
  <2> HIDE DEF s
  <2>2. procs' \in [Procs -> ProcState] /\ ProcsTyped'
    BY <1>2, <1>4, <2>1, GotoType DEF Delivering, s, Notes
  <2> QED BY <1>4, <2>2 DEF CheckRow, TypeOK
<1> QED BY <1>1, <1>3, <1>4

LEMMA SaveRowType ==
    ASSUME TypeOK, ProcsTyped, NEW p \in Procs, SaveRow(p)
    PROVE  TypeOK' /\ ProcsTyped'
<1> DEFINE r == procs[p].note
           s == At("loading", r, procs[p].rows, 0, "NONE")
<1>1. r \in RoleSet /\ r \in Notes /\ procs[p] \in ProcState
    BY DEF TypeOK, ProcsTyped, SaveRow, Notes
<1>2. s \in ProcState /\ s.pc = "loading" /\ s.note = r /\ Goto(p, s)
    BY <1>1, DeliveryAssumption DEF At, ProcState, Outcomes, SaveRow
<1>3. procs' \in [Procs -> ProcState] /\ ProcsTyped'
  <2> HIDE DEF s
  <2> QED BY <1>1, <1>2, GotoType DEF Delivering
<1>4. Routed \in [status: NoteStatus, count: 0..MaxAttempts, receipt: Receipts]
    BY DeliveryAssumption DEF Routed, Absent, NoteStatus, Receipts
<1>5. notes' \in [Notes -> [status: NoteStatus, count: 0..MaxAttempts, receipt: Receipts]]
    BY <1>1, <1>4 DEF TypeOK, SaveRow
<1> QED BY <1>3, <1>5 DEF SaveRow, TypeOK

LEMMA LoadRowType ==
    ASSUME TypeOK, ProcsTyped, NEW p \in Procs, LoadRow(p)
    PROVE  TypeOK' /\ ProcsTyped'
<1> DEFINE r == procs[p].note
           s == At("marking", r, procs[p].rows, 0, "NONE")
<1>1. r \in RoleSet /\ r \in Notes /\ procs[p] \in ProcState
    BY DEF TypeOK, ProcsTyped, LoadRow, Notes
<1>2. s \in ProcState /\ s.pc = "marking" /\ s.note = r
    BY <1>1, DeliveryAssumption DEF At, ProcState, Outcomes
<1>3. procs[p].rows \in SUBSET RoleSet
    BY <1>1 DEF ProcState
<1>4. Goto(p, s) \/ Load(p, r, procs[p].rows) \/ Goto(p, Idle)
    BY DEF LoadRow
<1> HIDE DEF s
<1>5. procs' \in [Procs -> ProcState] /\ ProcsTyped'
    BY <1>1, <1>2, <1>3, <1>4, GotoType, LoadType, GoIdleType DEF Delivering
<1> QED BY <1>5 DEF LoadRow, TypeOK

LEMMA MarkType ==
    ASSUME TypeOK, ProcsTyped, NEW p \in Procs, Mark(p)
    PROVE  TypeOK' /\ ProcsTyped'
<1>1. procs' \in [Procs -> ProcState] /\ ProcsTyped'
    BY NextRowType DEF Mark
<1>2. escalations' \in [RoleSet -> {"ABSENT", "SCHEDULED", "CANCELLED", "SENT"}]
    BY DEF Mark, TypeOK
<1> QED BY <1>1, <1>2 DEF Mark, TypeOK

LEMMA CrashType ==
    ASSUME TypeOK, ProcsTyped, NEW p \in Procs, Crash(p)
    PROVE  TypeOK' /\ ProcsTyped'
<1>1. procs' \in [Procs -> ProcState] /\ ProcsTyped'
    BY GoIdleType DEF Crash
<1>2. crashes' \in 0..MaxCrashes
    BY DeliveryAssumption DEF Crash, TypeOK
<1> QED BY <1>1, <1>2 DEF Crash, TypeOK

\* The steps that move no process.
Outside ==
    \/ Operator
    \/ \E n \in Notes : SaveNotification(n)
    \/ \E i \in DOMAIN Roles : ScheduleEscalation(i)
    \/ AckTimeout

LEMMA OutsideType ==
    ASSUME TypeOK, ProcsTyped, Outside
    PROVE  TypeOK' /\ ProcsTyped'
<1>1. UNCHANGED procs /\ ProcsTyped'
    BY DEF Outside, Operator, SaveNotification, ScheduleEscalation, AckTimeout, Acknowledge,
           Resolve, CancelEscalations, SelectPending, CancelNote, Reactivate, Reconcile,
           ProcsTyped
<1>2. CASE Acknowledge \/ Resolve \/ Reactivate
    BY <1>1, <1>2 DEF Acknowledge, Resolve, Reactivate, TypeOK, NotClosing
<1>3. CASE CancelEscalations
  <2>1. closing' \in [pc: {"none", "acknowledging", "resolving", "selecting", "cancelling"},
                      todo: SUBSET Notes]
    BY <1>3 DEF CancelEscalations, NotClosing
  <2> QED BY <1>1, <1>3, <2>1, CancelType DEF CancelEscalations, TypeOK
<1>4. CASE SelectPending
    BY <1>1, <1>4 DEF SelectPending, TypeOK, NotClosing
<1>5. ASSUME NEW n \in Notes, CancelNote(n)
      PROVE  TypeOK'
  <2>1. closing' \in [pc: {"none", "acknowledging", "resolving", "selecting", "cancelling"},
                      todo: SUBSET Notes]
    BY <1>5 DEF CancelNote, TypeOK, NotClosing
  <2>2. notes' \in [Notes -> [status: NoteStatus, count: 0..MaxAttempts, receipt: Receipts]]
    BY <1>5 DEF CancelNote, TypeOK, NoteStatus
  <2> QED BY <1>1, <1>5, <2>1, <2>2 DEF CancelNote, TypeOK
<1>6. ASSUME NEW n \in Notes, Reconcile(n)
      PROVE  TypeOK'
  <2>1. notes' \in [Notes -> [status: NoteStatus, count: 0..MaxAttempts, receipt: Receipts]]
    BY <1>6 DEF Reconcile, TypeOK, NoteStatus, Receipts
  <2> QED BY <1>1, <1>6, <2>1 DEF Reconcile, TypeOK
<1>7. ASSUME NEW n \in Notes, SaveNotification(n)
      PROVE  TypeOK'
  <2>1. notes' \in [Notes -> [status: NoteStatus, count: 0..MaxAttempts, receipt: Receipts]]
    <3>1. PICK status \in {"ROUTED", "DEFERRED"} : notes' = [notes EXCEPT ![n].status = status]
      BY <1>7 DEF SaveNotification
    <3> QED BY <3>1 DEF TypeOK, NoteStatus
  <2> QED BY <1>1, <1>7, <2>1 DEF SaveNotification, TypeOK
<1>8. ASSUME NEW i \in DOMAIN Roles, ScheduleEscalation(i)
      PROVE  TypeOK'
    BY <1>1, <1>8 DEF ScheduleEscalation, TypeOK
<1>9. CASE AckTimeout
  <2>1. due' \in 0..Len(Roles)
    BY <1>9, DeliveryAssumption DEF AckTimeout, TypeOK
  <2> QED BY <1>1, <1>9, <2>1 DEF AckTimeout, TypeOK
<1> QED BY <1>1, <1>2, <1>3, <1>4, <1>5, <1>6, <1>7, <1>8, <1>9 DEF Outside, Operator

LEMMA StepType ==
    ASSUME TypeOK, ProcsTyped, [Next]_vars
    PROVE  TypeOK' /\ ProcsTyped'
<1>1. CASE UNCHANGED vars
    BY <1>1 DEF vars, TypeOK, ProcsTyped
<1>2. ASSUME NEW p \in Procs, Proceed(p) \/ Crash(p) PROVE TypeOK' /\ ProcsTyped'
    BY <1>2, AttemptType, FinishType, DeferType, CheckRowType, SaveRowType, LoadRowType,
       MarkType, CrashType DEF Proceed
<1>3. ASSUME NEW p \in Deliverers, NEW n \in Notes, Deliver(p, n) PROVE TypeOK' /\ ProcsTyped'
    BY <1>3, DeliverType DEF Procs
<1>4. ASSUME NEW p \in Sweepers, Sweep(p) PROVE TypeOK' /\ ProcsTyped'
    BY <1>4, SweepType DEF Procs
<1> QED BY <1>1, <1>2, <1>3, <1>4, OutsideType DEF Next, Outside

\* Every table of the store and every process stays well typed.
THEOREM NotificationTypes == Spec => []TypeOK
<1>1. Init => TypeOK /\ ProcsTyped
    BY InitType
<1>2. TypeOK /\ ProcsTyped /\ [Next]_vars => TypeOK' /\ ProcsTyped'
    BY StepType
<1> QED BY <1>1, <1>2, PTL DEF Spec

-----------------------------------------------------------------------------
\* Attempts, rows and processes agree.

\* What the rows must satisfy when no attempt is made.
RowFits(n, row) ==
    /\ row.count # 0 => Taken(n, row.count)
    /\ \A i \in 1..MaxAttempts :
          Hit(n, i) /\ row.count = i => row.receipt \in Reached \cup {"RECONCILED"}
    /\ n \notin Low /\ row.receipt \in Reached \cup {"RECONCILED"}
          => row.count # 0 /\ Hit(n, row.count)

\* A step that makes no attempt and puts no process into a delivery.
LEMMA NoDelivery ==
    ASSUME TypeOK, ProcsTyped, Agree, attempts' = attempts,
           \A n \in Notes : RowFits(n, notes'[n]),
           \A q \in Procs : \/ procs'[q] = procs[q]
                            \/ /\ procs'[q].pc \notin Delivering
                               /\ procs'[q].pc = "marking" =>
                                     \E i \in 1..MaxAttempts : Hit(procs'[q].note, i),
           \A q \in Procs : procs'[q] = procs[q] /\ procs[q].pc \in Holding =>
                                notes'[procs[q].note].count < procs[q].number
    PROVE  RowsAgree' /\ ProcsAgree' /\ OneHolds'
<1>1. RowsAgree'
    BY DEF Agree, RowsAgree, RowFits, Taken, Hit
<1>2. ProcsAgree'
  <2>1. \A q \in Procs :
        LET n == procs'[q].note
            k == procs'[q].number IN
        /\ procs'[q].pc \in Delivering /\ k # 0 => Taken(n, k)
        /\ procs'[q].pc \in Behind => \A i \in 1..MaxAttempts : Hit(n, i) => k < i
        /\ procs'[q].pc \in Holding =>
              /\ k # 0 /\ attempts[n][k] = procs'[q].outcome
              /\ notes'[n].count < k
              /\ \A j \in 1..MaxAttempts : k < j => ~Taken(n, j)
        /\ procs'[q].pc = "fallback" => procs'[q].outcome = "TRANSIENT_FAILURE"
        /\ procs'[q].pc = "marking" => \E i \in 1..MaxAttempts : Hit(n, i)
    <3> TAKE q \in Procs
    <3>1. CASE procs'[q] = procs[q]
      BY <3>1 DEF Agree, ProcsAgree
    <3>2. CASE procs'[q] # procs[q]
      BY <3>2 DEF Delivering, Behind, Holding
    <3> QED BY <3>1, <3>2
  <2> QED BY <2>1 DEF ProcsAgree, Taken, Hit
<1>3. OneHolds'
    BY DEF Agree, OneHolds, Delivering, Behind, Holding
<1> QED BY <1>1, <1>2, <1>3

\* The rows as they are fit.
LEMMA RowsFit == ASSUME RowsAgree PROVE \A n \in Notes : RowFits(n, notes[n])
    BY DEF RowsAgree, RowFits

\* A load takes a count that is behind every hit and every holder.
LEMMA LoadAgrees ==
    ASSUME TypeOK, ProcsTyped, Agree, NEW p \in Procs, NEW n \in Notes, NEW rows,
           Load(p, n, rows), UNCHANGED <<attempts, notes>>
    PROVE  RowsAgree' /\ ProcsAgree' /\ OneHolds'
<1> DEFINE k == notes[n].count
<1>1. \E pc \in Behind : procs' = [procs EXCEPT ![p] = At(pc, n, rows, k, "NONE")]
    BY DEF Load, Goto, Behind
<1>2. PICK pc \in Behind : procs' = [procs EXCEPT ![p] = At(pc, n, rows, k, "NONE")]
    BY <1>1
<1>3. \A q \in Procs : procs'[q] = IF q = p THEN At(pc, n, rows, k, "NONE") ELSE procs[q]
    BY <1>2 DEF TypeOK
<1>4. /\ procs'[p].pc \in Behind /\ procs'[p].note = n /\ procs'[p].number = k
      /\ k \in 0..MaxAttempts
    BY <1>3 DEF At, TypeOK
<1>5. k # 0 => Taken(n, k)
    BY DEF Agree, RowsAgree
<1>6. ASSUME NEW i \in 1..MaxAttempts, Hit(n, i) PROVE k < i
  <2>1. k # i
    BY <1>6 DEF Load, Open, Confirmed, Agree, RowsAgree, Reached
  <2>2. ~(i < k)
    BY <1>4, <1>5, <1>6 DEF Agree, RowsAgree
  <2> QED BY <1>4, <2>1, <2>2
<1>7. RowsAgree'
    BY DEF Agree, RowsAgree, Taken, Hit
<1>8. ProcsAgree'
  <2>1. \A q \in Procs : q # p => procs'[q] = procs[q]
    BY <1>3
  <2>2. /\ procs'[p].number # 0 => Taken(n, k)
        /\ \A i \in 1..MaxAttempts : Hit(n, i) => k < i
    BY <1>4, <1>5, <1>6
  <2>3. \A q \in Procs : q # p =>
        LET m == procs'[q].note
            l == procs'[q].number IN
        /\ procs'[q].pc \in Delivering /\ l # 0 => Taken(m, l)
        /\ procs'[q].pc \in Behind => \A i \in 1..MaxAttempts : Hit(m, i) => l < i
        /\ procs'[q].pc \in Holding =>
              /\ l # 0 /\ attempts[m][l] = procs'[q].outcome
              /\ notes[m].count < l
              /\ \A j \in 1..MaxAttempts : l < j => ~Taken(m, j)
        /\ procs'[q].pc = "fallback" => procs'[q].outcome = "TRANSIENT_FAILURE"
        /\ procs'[q].pc = "marking" => \E i \in 1..MaxAttempts : Hit(m, i)
    BY <2>1 DEF Agree, ProcsAgree
  <2> QED BY <1>4, <2>2, <2>3 DEF ProcsAgree, Taken, Hit, Behind, Holding
<1>9. OneHolds'
  <2>1. procs'[p].pc \notin Holding
    BY <1>4 DEF Behind, Holding
  <2>2. ASSUME NEW q \in Procs, q # p, procs[q].note = n, procs[q].pc \in Holding
        PROVE  k < procs[q].number
    BY <2>2 DEF Agree, ProcsAgree
  <2>3. \A q, r \in Procs : q # p /\ r # p => procs'[q] = procs[q] /\ procs'[r] = procs[r]
    BY <1>3
  <2> QED BY <1>4, <2>1, <2>2, <2>3 DEF Agree, OneHolds
<1> QED BY <1>7, <1>8, <1>9

LEMMA SentStays ==
    ASSUME Agree, attempts' = attempts, escalations' = escalations \/ CancelScheduled
    PROVE  SentAgrees'
    BY DEF Agree, SentAgrees, Hit, CancelScheduled, Scheduled

\* A recorded attempt is the first free number of a row without a hit, and its
\* maker is then the row's only holder.
LEMMA AttemptAgrees ==
    ASSUME TypeOK, ProcsTyped, Agree, NEW p \in Procs, Attempt(p)
    PROVE  Agree'
<1> DEFINE n == procs[p].note
           k == procs[p].number + 1
<1>1. /\ n \in Notes /\ procs[p].number \in 0..MaxAttempts /\ k \in 1..MaxAttempts
      /\ MaxAttempts \in Nat /\ procs[p].pc \in Delivering
      /\ procs[p].pc \in {"sending", "fallback"}
    BY DeliveryAssumption DEF TypeOK, ProcsTyped, Attempt, Delivering, ProcState
<1>2. CASE Goto(p, Idle) /\ UNCHANGED attempts
  <2>1. procs'[p] = Idle /\ \A q \in Procs : q # p => procs'[q] = procs[q]
    BY <1>2 DEF Goto, TypeOK
  <2>2. notes' = notes
    BY DEF Attempt
  <2>3. \A m \in Notes : RowFits(m, notes'[m])
    BY <2>2, RowsFit DEF Agree
  <2>4. \A q \in Procs : procs[q].pc \in Holding => notes[procs[q].note].count < procs[q].number
    BY DEF Agree, ProcsAgree
  <2>5. RowsAgree' /\ ProcsAgree' /\ OneHolds'
    BY <1>2, <2>1, <2>2, <2>3, <2>4, IdleType, NoDelivery DEF Delivering
  <2> QED BY <1>2, <2>5, SentStays DEF Agree, Attempt
<1>3. CASE /\ ~Taken(n, k)
           /\ \E outcome \in Outcomes :
                 /\ attempts' = [attempts EXCEPT ![n][k] = outcome]
                 /\ Goto(p, At(IF FallsBack(p, outcome) THEN "fallback" ELSE "finishing",
                               n, procs[p].rows, k, outcome))
  <2>1. PICK outcome \in Outcomes :
                 /\ attempts' = [attempts EXCEPT ![n][k] = outcome]
                 /\ Goto(p, At(IF FallsBack(p, outcome) THEN "fallback" ELSE "finishing",
                               n, procs[p].rows, k, outcome))
    BY <1>3
  <2>2. /\ procs'[p].pc \in Holding /\ procs'[p].note = n /\ procs'[p].number = k
        /\ procs'[p].outcome = outcome
        /\ procs'[p].pc = "fallback" => outcome = "TRANSIENT_FAILURE"
    BY <2>1 DEF Goto, At, TypeOK, Holding, FallsBack
  <2>3. \A q \in Procs : q # p => procs'[q] = procs[q]
    BY <2>1 DEF Goto, TypeOK
  <2>4. \A m \in Notes, i \in 1..MaxAttempts :
            attempts'[m][i] = IF m = n /\ i = k THEN outcome ELSE attempts[m][i]
    BY <1>1, <2>1 DEF TypeOK
  <2>5. \A j \in 1..MaxAttempts : k <= j => ~Taken(n, j)
    BY <1>1, <1>3 DEF Agree, RowsAgree
  <2>6. \A j \in 1..MaxAttempts : j < k => Taken(n, j)
    <3>1. procs[p].number # 0 => Taken(n, procs[p].number)
      BY <1>1 DEF Agree, ProcsAgree
    <3> QED BY <1>1, <3>1 DEF Agree, RowsAgree
  <2>7. \A i \in 1..MaxAttempts : ~Hit(n, i)
    <3> SUFFICES ASSUME NEW i \in 1..MaxAttempts, Hit(n, i) PROVE FALSE
      OBVIOUS
    <3>1. Taken(n, i) /\ i < k
      BY <1>1, <2>5 DEF Hit, Taken, Reached
    <3>2. CASE procs[p].pc = "sending"
      BY <1>1, <3>1, <3>2 DEF Agree, ProcsAgree, Behind
    <3>3. CASE procs[p].pc = "fallback"
      <4>1. attempts[n][k - 1] = "TRANSIENT_FAILURE" /\ k - 1 \in 1..MaxAttempts
        BY <1>1, <3>3 DEF Agree, ProcsAgree, Holding
      <4>2. i # k - 1
        BY <4>1 DEF Hit, Reached
      <4>3. i < k - 1
        BY <1>1, <3>1, <4>2
      <4> QED BY <1>1, <4>1, <4>3 DEF Agree, RowsAgree, Taken
    <3> QED BY <1>1, <3>2, <3>3
  <2>8. \A q \in Procs : q # p /\ procs[q].note = n => procs[q].pc \notin Holding
    <3> SUFFICES ASSUME NEW q \in Procs, q # p, procs[q].note = n, procs[q].pc \in Holding
                 PROVE  FALSE
      OBVIOUS
    <3>1. CASE procs[p].pc = "fallback"
      BY <3>1 DEF Agree, OneHolds, Holding
    <3>2. CASE procs[p].pc = "sending"
      <4>1. procs[p].number < procs[q].number
        BY <3>2 DEF Agree, OneHolds, Behind
      <4>2. procs[q].number \in 1..MaxAttempts /\ Taken(n, procs[q].number)
        BY DEF Agree, ProcsAgree, Holding, Delivering, TypeOK, ProcState
      <4> QED BY <1>1, <2>5, <4>1, <4>2
    <3> QED BY <1>1, <3>1, <3>2
  <2>9. \A q \in Procs : procs[q].note = n /\ procs[q].pc \in Behind => procs[q].number < k
    <3> SUFFICES ASSUME NEW q \in Procs, procs[q].note = n, procs[q].pc \in Behind
                 PROVE  procs[q].number < k
      OBVIOUS
    <3>1. procs[q].number \in 0..MaxAttempts
      BY DEF TypeOK, ProcState
    <3>2. procs[q].number # 0 => Taken(n, procs[q].number)
      BY DEF Agree, ProcsAgree, Behind, Delivering
    <3> QED BY <1>1, <2>5, <3>1, <3>2
  <2>10. notes[n].count < k /\ notes' = notes /\ escalations' = escalations
    <3>1. notes[n].count # 0 => Taken(n, notes[n].count)
      BY <1>1 DEF Agree, RowsAgree
    <3>2. notes[n].count \in 0..MaxAttempts
      BY <1>1 DEF TypeOK
    <3> QED BY <1>1, <2>5, <3>1, <3>2 DEF Attempt
  <2>11. outcome \in Outcomes /\ outcome # "NONE"
    BY <2>1 DEF Outcomes
  <2>12. RowsAgree'
    <3> SUFFICES ASSUME NEW m \in Notes
                 PROVE
        /\ \A i, j \in 1..MaxAttempts :
              j <= i /\ attempts'[m][i] # "NONE" => attempts'[m][j] # "NONE"
        /\ \A i, j \in 1..MaxAttempts :
              i < j /\ attempts'[m][i] \in Reached => attempts'[m][j] = "NONE"
        /\ notes[m].count # 0 => attempts'[m][notes[m].count] # "NONE"
        /\ \A i \in 1..MaxAttempts :
              attempts'[m][i] \in Reached /\ notes[m].count = i
                  => notes[m].receipt \in Reached \cup {"RECONCILED"}
        /\ m \notin Low /\ notes[m].receipt \in Reached \cup {"RECONCILED"}
              => notes[m].count # 0 /\ attempts'[m][notes[m].count] \in Reached
      BY <2>10 DEF RowsAgree, Taken, Hit
    <3>1. notes[m].count \in 0..MaxAttempts
      BY DEF TypeOK
    <3>2. CASE m # n
      BY <2>4, <3>1, <3>2 DEF Agree, RowsAgree, Taken, Hit
    <3>3. CASE m = n
      BY <1>1, <2>4, <2>5, <2>6, <2>7, <2>10, <2>11, <3>1, <3>3
         DEF Agree, RowsAgree, Taken, Hit
    <3> QED BY <3>2, <3>3
  <2>13. ProcsAgree'
    <3> SUFFICES ASSUME NEW q \in Procs
                 PROVE  LET m == procs'[q].note
                            l == procs'[q].number IN
        /\ procs'[q].pc \in Delivering /\ l # 0 => attempts'[m][l] # "NONE"
        /\ procs'[q].pc \in Behind =>
              \A i \in 1..MaxAttempts : attempts'[m][i] \in Reached => l < i
        /\ procs'[q].pc \in Holding =>
              /\ l # 0 /\ attempts'[m][l] = procs'[q].outcome
              /\ notes[m].count < l
              /\ \A j \in 1..MaxAttempts : l < j => attempts'[m][j] = "NONE"
        /\ procs'[q].pc = "fallback" => procs'[q].outcome = "TRANSIENT_FAILURE"
        /\ procs'[q].pc = "marking" => \E i \in 1..MaxAttempts : attempts'[m][i] \in Reached
      BY <2>10 DEF ProcsAgree, Taken, Hit
    <3>1. CASE q = p
      BY <1>1, <2>2, <2>4, <2>5, <2>10, <2>11, <3>1 DEF Behind, Holding, Taken
    <3>2. CASE q # p
      <4>1. /\ procs'[q] = procs[q] /\ procs[q].number \in 0..MaxAttempts
            /\ procs[q].pc \in Delivering \cup {"marking"} => procs[q].note \in Notes
        BY <2>3, <3>2 DEF TypeOK, ProcState, ProcsTyped
      <4>2. CASE procs[q].note # n
        BY <2>4, <4>1, <4>2 DEF Agree, ProcsAgree, Taken, Hit, Behind, Holding, Delivering
      <4>3. CASE procs[q].note = n
        <5>1. procs[q].pc \notin Holding /\ procs[q].pc # "marking"
          BY <2>7, <2>8, <3>2, <4>3 DEF Agree, ProcsAgree
        <5>2. procs[q].pc \in Behind => procs[q].number < k
          BY <2>9, <4>3
        <5>3. procs[q].pc \in Delivering /\ procs[q].number # 0 => Taken(n, procs[q].number)
          BY <4>3 DEF Agree, ProcsAgree
        <5> QED BY <1>1, <2>4, <2>7, <2>11, <4>1, <4>3, <5>1, <5>2, <5>3
                DEF Taken, Hit, Behind, Holding, Delivering
      <4> QED BY <4>2, <4>3
    <3> QED BY <3>1, <3>2
  <2>14. OneHolds'
    BY <1>1, <2>2, <2>3, <2>8, <2>9 DEF Agree, OneHolds, Behind, Holding
  <2>15. SentAgrees'
    <3> SUFFICES ASSUME NEW r \in RoleSet, escalations[r] = "SENT"
                 PROVE  \E i \in 1..MaxAttempts : attempts'[r][i] \in Reached
      BY <2>10 DEF SentAgrees, Hit
    <3>1. PICK i \in 1..MaxAttempts : Hit(r, i)
      BY DEF Agree, SentAgrees
    <3>2. r # n /\ r \in Notes
      BY <2>7, <3>1 DEF Notes
    <3> QED BY <2>4, <3>1, <3>2 DEF Hit
  <2> QED BY <2>12, <2>13, <2>14, <2>15 DEF Agree
<1> QED BY <1>2, <1>3 DEF Attempt

\* The update of a row counts its holder's attempt; everybody else is behind it.
LEMMA FinishAgrees ==
    ASSUME TypeOK, ProcsTyped, Agree, NEW p \in Procs, Finish(p)
    PROVE  Agree'
<1> DEFINE n == procs[p].note
           k == procs[p].number
           row == RowAfter(k, procs[p].outcome)
<1>1. /\ n \in Notes /\ k \in 0..MaxAttempts /\ MaxAttempts \in Nat
      /\ procs[p].outcome \in Outcomes \cup {"NONE"}
    BY DeliveryAssumption DEF TypeOK, ProcsTyped, Finish, Delivering, ProcState
<1>2. /\ k # 0 /\ attempts[n][k] = procs[p].outcome /\ notes[n].count < k /\ Taken(n, k)
      /\ \A j \in 1..MaxAttempts : k < j => ~Taken(n, j)
    BY DEF Agree, ProcsAgree, Holding, Delivering, Finish
<1>3. row.count = k
    BY <1>1, RowAfterType
<1>4. \A m \in Notes : notes'[m] = IF m = n THEN row ELSE notes[m]
    BY <1>1 DEF Finish, TypeOK
<1>5. \A q \in Procs : q # p => procs'[q] = procs[q]
    BY DEF Finish, NextRow, Goto, TypeOK
<1>6. RowFits(n, row)
  <2>1. \A i \in 1..MaxAttempts : Hit(n, i) => i = k
    BY <1>1, <1>2 DEF Agree, RowsAgree, Taken, Hit, Reached
  <2>2. Hit(n, k) => row.receipt \in Reached
    BY <1>2 DEF Hit, Reached, RowAfter
  <2>3. row.receipt \in Reached \cup {"RECONCILED"} => Hit(n, k)
    BY <1>1, <1>2 DEF Hit, Reached, RowAfter, Outcomes
  <2> QED BY <1>2, <1>3, <2>1, <2>2, <2>3 DEF RowFits
<1>7. \A m \in Notes : RowFits(m, notes'[m])
    BY <1>4, <1>6, RowsFit DEF Agree
<1>8. /\ procs'[p].pc \notin Delivering
      /\ procs'[p].pc = "marking" => \E i \in 1..MaxAttempts : Hit(procs'[p].note, i)
  <2>1. \/ procs'[p] = Idle
        \/ row.status = "DELIVERED" /\ procs'[p] = At("marking", n, procs[p].rows, 0, "NONE")
        \/ procs'[p] = At("sweeping", NoNote, procs[p].rows \ {n}, 0, "NONE")
    BY DEF Finish, NextRow, Goto, TypeOK
  <2>2. row.status = "DELIVERED" => Hit(n, k) /\ k \in 1..MaxAttempts
    BY <1>1, <1>2 DEF RowAfter, Hit, Reached
  <2> QED BY <2>1, <2>2, IdleType DEF At, Delivering
<1>9. ASSUME NEW q \in Procs, procs'[q] = procs[q], procs[q].pc \in Holding
      PROVE  notes'[procs[q].note].count < procs[q].number
  <2>1. q # p
    BY <1>8, <1>9 DEF Holding, Delivering
  <2>2. procs[q].note # n
    BY <1>9, <2>1 DEF Agree, OneHolds, Holding, Finish
  <2>3. procs[q].note \in Notes
    BY <1>9 DEF ProcsTyped, Holding, Delivering
  <2> QED BY <1>4, <1>9, <2>2, <2>3 DEF Agree, ProcsAgree
<1>10. attempts' = attempts /\ escalations' = escalations
    BY DEF Finish
<1>11. RowsAgree' /\ ProcsAgree' /\ OneHolds'
    BY <1>5, <1>7, <1>8, <1>9, <1>10, NoDelivery
<1> QED BY <1>10, <1>11, SentStays DEF Agree

\* A deferral restores a count that was read before the last hit.
LEMMA DeferAgrees ==
    ASSUME TypeOK, ProcsTyped, Agree, NEW p \in Procs, Defer(p)
    PROVE  Agree'
<1> DEFINE n == procs[p].note
           row == [status |-> "DEFERRED", count |-> procs[p].number, receipt |-> "DEFERRED"]
<1>1. n \in Notes /\ procs[p].pc = "deferring" /\ row.count \in 0..MaxAttempts
    BY DEF TypeOK, ProcsTyped, Defer, ProcState, Delivering
<1>2. \A m \in Notes : notes'[m] = IF m = n THEN row ELSE notes[m]
    BY <1>1 DEF Defer, TypeOK
<1>3. procs'[p] = Idle /\ \A q \in Procs : q # p => procs'[q] = procs[q]
    BY DEF Defer, Goto, TypeOK
<1>4. RowFits(n, row)
  <2>1. row.count # 0 => Taken(n, row.count)
    BY <1>1 DEF Agree, ProcsAgree, Delivering
  <2>2. \A i \in 1..MaxAttempts : Hit(n, i) => row.count < i
    BY <1>1 DEF Agree, ProcsAgree, Behind
  <2> QED BY <1>1, <2>1, <2>2 DEF RowFits, Reached
<1>5. \A m \in Notes : RowFits(m, notes'[m])
    BY <1>2, <1>4, RowsFit DEF Agree
<1>6. ASSUME NEW q \in Procs, procs'[q] = procs[q], procs[q].pc \in Holding
      PROVE  notes'[procs[q].note].count < procs[q].number
  <2>1. q # p
    BY <1>1, <1>6 DEF Holding
  <2>2. procs[q].note \in Notes
    BY <1>6 DEF ProcsTyped, Holding, Delivering
  <2>3. CASE procs[q].note = n
    BY <1>1, <1>2, <1>6, <2>1, <2>3 DEF Agree, OneHolds, Behind
  <2>4. CASE procs[q].note # n
    BY <1>2, <1>6, <2>2, <2>4 DEF Agree, ProcsAgree
  <2> QED BY <2>3, <2>4
<1>7. attempts' = attempts /\ escalations' = escalations
    BY DEF Defer
<1>8. RowsAgree' /\ ProcsAgree' /\ OneHolds'
    BY <1>3, <1>5, <1>6, <1>7, IdleType, NoDelivery DEF Delivering
<1> QED BY <1>7, <1>8, SentStays DEF Agree

\* Steps that leave counts, receipts and attempts alone.
LEMMA RowsKept ==
    ASSUME TypeOK, ProcsTyped, Agree, attempts' = attempts,
           \A n \in Notes : /\ notes'[n].count = notes[n].count
                            /\ notes'[n].receipt = notes[n].receipt,
           \A q \in Procs : \/ procs'[q] = procs[q]
                            \/ /\ procs'[q].pc \notin Delivering
                               /\ procs'[q].pc = "marking" =>
                                     \E i \in 1..MaxAttempts : Hit(procs'[q].note, i)
    PROVE  RowsAgree' /\ ProcsAgree' /\ OneHolds'
<1>1. \A n \in Notes : RowFits(n, notes'[n])
    BY RowsFit DEF Agree, RowFits
<1>2. \A q \in Procs : procs'[q] = procs[q] /\ procs[q].pc \in Holding =>
                           notes'[procs[q].note].count < procs[q].number
    BY DEF Agree, ProcsAgree, ProcsTyped, Holding, Delivering
<1> QED BY <1>1, <1>2, NoDelivery

\* The steps of a sweep, of a crash and of the operators.
LEMMA QuietProcAgrees ==
    ASSUME TypeOK, ProcsTyped, Agree, NEW p \in Procs,
           CheckRow(p) \/ SaveRow(p) \/ Mark(p) \/ Crash(p) \/ Sweep(p)
    PROVE  Agree'
<1>1. attempts' = attempts
    BY DEF CheckRow, SaveRow, Mark, Crash, Sweep
<1>2. \A n \in Notes : /\ notes'[n].count = notes[n].count
                       /\ notes'[n].receipt = notes[n].receipt
  <2>1. CASE SaveRow(p)
    BY <2>1 DEF SaveRow, Routed, Absent, TypeOK
  <2>2. CASE CheckRow(p) \/ Mark(p) \/ Crash(p) \/ Sweep(p)
    BY <2>2 DEF CheckRow, Mark, Crash, Sweep
  <2> QED BY <2>1, <2>2
<1>3. \A q \in Procs : q # p => procs'[q] = procs[q]
    BY DEF CheckRow, SaveRow, Mark, Crash, Sweep, NextRow, Goto, TypeOK
<1>4. procs'[p].pc \in {"idle", "sweeping", "saving", "loading"}
    BY IdleType DEF CheckRow, SaveRow, Mark, Crash, Sweep, NextRow, Goto, TypeOK, At
<1>5. RowsAgree' /\ ProcsAgree' /\ OneHolds'
    BY <1>1, <1>2, <1>3, <1>4, RowsKept DEF Delivering
<1>6. SentAgrees'
  <2>1. CASE Mark(p)
    <3>1. \E i \in 1..MaxAttempts : Hit(procs[p].note, i)
      BY <2>1 DEF Mark, Agree, ProcsAgree
    <3>2. \A r \in RoleSet : escalations'[r] = "SENT" =>
              r = procs[p].note \/ escalations[r] = "SENT"
      BY <2>1 DEF Mark, TypeOK
    <3> QED BY <1>1, <3>1, <3>2 DEF Agree, SentAgrees, Hit
  <2>2. CASE CheckRow(p) \/ SaveRow(p) \/ Crash(p) \/ Sweep(p)
    BY <1>1, <2>2, SentStays DEF CheckRow, SaveRow, Crash, Sweep
  <2> QED BY <2>1, <2>2
<1> QED BY <1>5, <1>6 DEF Agree

LEMMA LoadingAgrees ==
    ASSUME TypeOK, ProcsTyped, Agree, NEW p \in Procs,
           LoadRow(p) \/ \E n \in Notes : Deliver(p, n)
    PROVE  Agree'
<1>1. attempts' = attempts /\ notes' = notes /\ escalations' = escalations
    BY DEF LoadRow, Deliver
<1>2. ASSUME NEW n \in Notes, NEW rows, Load(p, n, rows)
      PROVE  RowsAgree' /\ ProcsAgree' /\ OneHolds'
    BY <1>1, <1>2, LoadAgrees
<1>3. CASE LoadRow(p)
  <2> DEFINE r == procs[p].note
             s == At("marking", r, procs[p].rows, 0, "NONE")
  <2>1. r \in Notes /\ r \in RoleSet /\ r \notin Low
    BY <1>3, DeliveryAssumption DEF LoadRow, ProcsTyped
  <2>2. \/ Confirmed(r) /\ Goto(p, s)
        \/ Load(p, r, procs[p].rows)
        \/ Goto(p, Idle)
    BY <1>3 DEF LoadRow
  <2>3. ASSUME Confirmed(r), Goto(p, s)
        PROVE  RowsAgree' /\ ProcsAgree' /\ OneHolds'
    <3>1. \E i \in 1..MaxAttempts : Hit(r, i)
      <4>1. notes[r].count # 0 /\ Hit(r, notes[r].count)
        BY <2>1, <2>3 DEF Agree, RowsAgree, Confirmed, Reached
      <4>2. notes[r].count \in 0..MaxAttempts
        BY <2>1 DEF TypeOK
      <4> QED BY <4>1, <4>2, DeliveryAssumption
    <3>2. /\ procs'[p].pc = "marking" /\ procs'[p].note = r
          /\ \A q \in Procs : q # p => procs'[q] = procs[q]
      BY <2>3 DEF Goto, At, TypeOK
    <3> QED BY <1>1, <3>1, <3>2, RowsKept DEF Delivering
  <2>4. ASSUME Goto(p, Idle)
        PROVE  RowsAgree' /\ ProcsAgree' /\ OneHolds'
    <3>1. procs'[p] = Idle /\ \A q \in Procs : q # p => procs'[q] = procs[q]
      BY <2>4 DEF Goto, TypeOK
    <3> QED BY <1>1, <3>1, IdleType, RowsKept DEF Delivering
  <2>5. RowsAgree' /\ ProcsAgree' /\ OneHolds'
    BY <1>2, <2>1, <2>2, <2>3, <2>4
  <2> QED BY <1>1, <2>5, SentStays DEF Agree
<1>4. CASE \E n \in Notes : Deliver(p, n)
    BY <1>1, <1>2, <1>4, SentStays DEF Agree, Deliver
<1> QED BY <1>3, <1>4

LEMMA OutsideAgrees ==
    ASSUME TypeOK, ProcsTyped, Agree, Outside
    PROVE  Agree'
<1>1. procs' = procs /\ attempts' = attempts
    BY DEF Outside, Operator, SaveNotification, ScheduleEscalation, AckTimeout, Acknowledge,
           Resolve, CancelEscalations, SelectPending, CancelNote, Reactivate, Reconcile
<1>2. ASSUME NEW n \in Notes, Reconcile(n)
      PROVE  RowsAgree' /\ ProcsAgree' /\ OneHolds'
  <2>1. \A m \in Notes : /\ notes'[m].count = notes[m].count
                         /\ m # n => notes'[m].receipt = notes[m].receipt
    BY <1>2 DEF Reconcile, TypeOK
  <2>2. notes[n].receipt = "UNKNOWN" /\ notes'[n].receipt = "RECONCILED"
    BY <1>2 DEF Reconcile, TypeOK
  <2>3. \A m \in Notes : RowFits(m, notes'[m])
    BY <2>1, <2>2, RowsFit DEF Agree, RowFits, Reached
  <2>4. \A q \in Procs : procs[q].pc \in Holding =>
                             notes'[procs[q].note].count < procs[q].number
    BY <2>1 DEF Agree, ProcsAgree, ProcsTyped, Holding, Delivering
  <2> QED BY <1>1, <2>3, <2>4, NoDelivery
<1>3. ASSUME \A n \in Notes : ~Reconcile(n)
      PROVE  RowsAgree' /\ ProcsAgree' /\ OneHolds'
  <2>1. \A n \in Notes : /\ notes'[n].count = notes[n].count
                         /\ notes'[n].receipt = notes[n].receipt
    <3>1. ASSUME NEW n \in Notes, CancelNote(n) \/ SaveNotification(n)
          PROVE  \E status : notes' = [notes EXCEPT ![n].status = status]
      BY <3>1 DEF CancelNote, SaveNotification
    <3>2. CASE \E n \in Notes : CancelNote(n) \/ SaveNotification(n)
      BY <3>1, <3>2 DEF TypeOK
    <3>3. CASE notes' = notes
      BY <3>3
    <3> QED BY <1>3, <3>2, <3>3 DEF Outside, Operator, ScheduleEscalation, AckTimeout,
            Acknowledge, Resolve, CancelEscalations, SelectPending, Reactivate
  <2> QED BY <1>1, <2>1, RowsKept
<1>4. SentAgrees'
  <2>1. \A r \in RoleSet : escalations'[r] = "SENT" => escalations[r] = "SENT"
    <3>1. \/ escalations' = escalations
          \/ CancelScheduled
          \/ \E i \in DOMAIN Roles : escalations' = [escalations EXCEPT ![Roles[i]] = "SCHEDULED"]
      BY DEF Outside, Operator, SaveNotification, ScheduleEscalation, AckTimeout, Acknowledge,
             Resolve, CancelEscalations, SelectPending, CancelNote, Reactivate, Reconcile
    <3> QED BY <3>1 DEF CancelScheduled, TypeOK
  <2> QED BY <1>1, <2>1 DEF Agree, SentAgrees, Hit
<1> QED BY <1>2, <1>3, <1>4 DEF Agree

-----------------------------------------------------------------------------
\* The theorems.

LEMMA InitAgrees == Init => Agree
    BY IdleType, DeliveryAssumption
       DEF Init, Agree, RowsAgree, ProcsAgree, OneHolds, SentAgrees, Taken, Hit, Reached,
           Absent, Delivering, Behind, Holding

LEMMA StepAgrees ==
    ASSUME TypeOK, ProcsTyped, Agree, [Next]_vars
    PROVE  Agree'
<1>1. CASE UNCHANGED vars
    BY <1>1 DEF vars, Agree, RowsAgree, ProcsAgree, OneHolds, SentAgrees, Taken, Hit
<1>2. ASSUME NEW p \in Procs, Proceed(p) \/ Crash(p) PROVE Agree'
    BY <1>2, AttemptAgrees, FinishAgrees, DeferAgrees, QuietProcAgrees, LoadingAgrees
       DEF Proceed
<1>3. ASSUME NEW p \in Deliverers, NEW n \in Notes, Deliver(p, n) PROVE Agree'
    BY <1>3, LoadingAgrees DEF Procs
<1>4. ASSUME NEW p \in Sweepers, Sweep(p) PROVE Agree'
    BY <1>4, QuietProcAgrees DEF Procs
<1> QED BY <1>1, <1>2, <1>3, <1>4, OutsideAgrees DEF Next, Outside

THEOREM Invariance == Spec => []IInv
<1>1. Init => IInv
    BY InitType, InitAgrees DEF IInv
<1>2. IInv /\ [Next]_vars => IInv'
    BY StepType, StepAgrees DEF IInv
<1> QED BY <1>1, <1>2, PTL DEF Spec

\* No notification reaches its recipient twice, for any number of workers.
THEOREM NotificationReachesOnce == Spec => []ReachesOnce
<1>1. IInv => ReachesOnce
  <2> SUFFICES ASSUME IInv, NEW n \in Notes, NEW i \in Hits(n), NEW j \in Hits(n)
               PROVE  i = j
    BY DEF ReachesOnce
  <2>1. i \in 1..MaxAttempts /\ j \in 1..MaxAttempts /\ Hit(n, i) /\ Hit(n, j)
    BY DEF Hits, Hit
  <2>2. Taken(n, i) /\ Taken(n, j)
    BY <2>1 DEF Hit, Taken, Reached
  <2>3. ~(i < j) /\ ~(j < i)
    BY <2>1, <2>2 DEF IInv, Agree, RowsAgree
  <2> QED BY <2>1, <2>3
<1> QED BY <1>1, Invariance, PTL

\* Attempts are numbered without a gap and no row is ahead of its attempts.
THEOREM NotificationsCountAttempts == Spec => []AttemptsAreCounted
<1>1. IInv => AttemptsAreCounted
  <2> SUFFICES ASSUME IInv, NEW n \in Notes
               PROVE  /\ \A i \in 2..MaxAttempts : Taken(n, i) => Taken(n, i - 1)
                      /\ \A i \in 1..notes[n].count : Taken(n, i)
    BY DEF AttemptsAreCounted
  <2>1. MaxAttempts \in Nat /\ notes[n].count \in 0..MaxAttempts
    BY DeliveryAssumption DEF IInv, TypeOK
  <2>2. \A i, j \in 1..MaxAttempts : j <= i /\ Taken(n, i) => Taken(n, j)
    BY DEF IInv, Agree, RowsAgree
  <2>3. notes[n].count # 0 => Taken(n, notes[n].count)
    BY DEF IInv, Agree, RowsAgree
  <2> QED BY <2>1, <2>2, <2>3
<1> QED BY <1>1, Invariance, PTL

\* An escalation is marked sent only after a message that reached its role.
THEOREM SentEscalationsReached == Spec => []SentMeansDelivered
<1>1. IInv => SentMeansDelivered
    BY DEF IInv, Agree, SentAgrees, SentMeansDelivered, Hits, Hit
<1> QED BY <1>1, Invariance, PTL

\* A confirmed page or escalation keeps its receipt.
THEOREM ConfirmedPagesStay == Spec => ConfirmedPageStays
<1>1. ASSUME IInv, [Next]_vars, NEW n \in Notes \ Low, Confirmed(n)
      PROVE  notes'[n].receipt = notes[n].receipt
  <2>1. TypeOK /\ ProcsTyped /\ Agree
    BY <1>1 DEF IInv
  <2>2. ASSUME NEW p \in Procs, Finish(p) PROVE notes'[n].receipt = notes[n].receipt
    <3>1. procs[p].note # n
      <4> SUFFICES ASSUME procs[p].note = n PROVE FALSE
        OBVIOUS
      <4> DEFINE k == procs[p].number
      <4>1. notes[n].count # 0 /\ Hit(n, notes[n].count)
        BY <1>1, <2>1 DEF Agree, RowsAgree, Confirmed, Reached
      <4>2. k # 0 /\ notes[n].count < k /\ Taken(n, k)
        BY <2>1, <2>2 DEF Agree, ProcsAgree, Holding, Delivering, Finish
      <4>3. k \in 0..MaxAttempts /\ notes[n].count \in 0..MaxAttempts /\ MaxAttempts \in Nat
        BY <2>1, DeliveryAssumption DEF TypeOK, ProcState
      <4>4. k \in 1..MaxAttempts /\ notes[n].count \in 1..MaxAttempts
        BY <4>1, <4>2, <4>3
      <4> QED BY <2>1, <4>1, <4>2, <4>4 DEF Agree, RowsAgree
    <3> QED BY <2>1, <2>2, <3>1 DEF Finish, TypeOK
  <2>3. ASSUME NEW p \in Procs, Defer(p) PROVE notes'[n].receipt = notes[n].receipt
    BY <2>1, <2>3 DEF Defer, ProcsTyped, TypeOK
  <2>4. ASSUME NEW p \in Procs, SaveRow(p) PROVE notes'[n].receipt = notes[n].receipt
    BY <2>1, <2>4 DEF SaveRow, Absent, Routed, TypeOK
  <2>5. ASSUME NEW m \in Notes, CancelNote(m) \/ SaveNotification(m)
        PROVE  notes'[n].receipt = notes[n].receipt
    <3>1. \E status : notes' = [notes EXCEPT ![m].status = status]
      BY <2>5 DEF CancelNote, SaveNotification
    <3> QED BY <2>1, <3>1 DEF TypeOK
  <2>6. ASSUME NEW m \in Notes, Reconcile(m) PROVE notes'[n].receipt = notes[n].receipt
    BY <1>1, <2>1, <2>6 DEF Reconcile, Confirmed, TypeOK
  <2>7. CASE notes' = notes
    BY <2>7
  <2> QED BY <1>1, <2>2, <2>3, <2>4, <2>5, <2>6, <2>7
          DEF Next, Proceed, Operator, vars, Attempt, CheckRow, LoadRow, Mark, Crash, Deliver,
              Sweep, ScheduleEscalation, AckTimeout, Acknowledge, Resolve, CancelEscalations,
              SelectPending, Reactivate
<1>2. IInv /\ [Next]_vars =>
          [\A n \in Notes \ Low : Confirmed(n) => notes'[n].receipt = notes[n].receipt]_vars
    BY <1>1
<1> QED BY <1>2, Invariance, PTL DEF Spec, ConfirmedPageStays
=============================================================================
